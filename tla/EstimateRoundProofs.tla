--------------------------- MODULE EstimateRoundProofs ---------------------------
(***************************************************************************)
(* Theorems about EstimateRound and the EventOutbox it is composed with,   *)
(* for any items, sources, subjects, instances, runs of the relay and      *)
(* scenarios.                                                              *)
(*                                                                         *)
(* A request decides on the revision it read, not on the one it commits    *)
(* over; so what holds of the head has to hold of every revision some      *)
(* request still has in its hands.  The history variable crossed says      *)
(* which of the two have come apart: while it does not name the sources,   *)
(* the citations or the codes, what a request decided on is what it        *)
(* commits over (Uncrossed), and the codes and the cascade agree.          *)
(***************************************************************************)
EXTENDS EstimateRound, TLAPS, FiniteSetTheorems, WellFoundedInduction, SequenceTheorems

-----------------------------------------------------------------------------
(* The inductive invariant of the outbox.                                   *)

Events == 1..Len(stored)

\* Where an event is in an order, and the first of some events in it.
PlaceIn(order, e) == CHOOSE i \in DOMAIN order : order[i] = e

FirstIn(order, events) ==
    CHOOSE e \in events : \A f \in events : PlaceIn(order, e) <= PlaceIn(order, f)

Place(e) == PlaceIn(stored, e)

First(events) == FirstIn(stored, events)

\* An order of the events 1..n: each is somewhere, once.
Orders(s) ==
    /\ s \in Seq(Nat)
    /\ \A i \in 1..Len(s) : s[i] \in 1..Len(s)
    /\ \A e \in 1..Len(s) : \E i \in 1..Len(s) : s[i] = e
    /\ \A i, j \in 1..Len(s) : s[i] = s[j] => i = j

HeardIn(heard, e) == \E i \in DOMAIN heard : heard[i] = e

Delivered(e) == HeardIn(delivered, e)

OutboxTyped ==
    /\ Orders(stored)
    /\ seen \in Seq(Nat) /\ Len(seen) = Len(stored)
    /\ delivered \in Seq(Nat)
    /\ \A i \in DOMAIN delivered : delivered[i] \in Events
    /\ \A i, j \in DOMAIN delivered : delivered[i] = delivered[j] => i = j
    /\ relay \in [Relay -> [pc : {"idle", "publish", "mark"}, batch : SUBSET Nat]]
    /\ \A k \in Relay : relay[k].batch \subseteq Events

\* An event had seen only events before it, in number and in place.
Ordered ==
    \A e \in Events : seen[e] < e /\ \A f \in 1..seen[e] : Place(f) < Place(e)

\* What a run has in hand: the events its events had seen are with it or with the broker.
Running ==
    \A k \in Relay :
        /\ relay[k].pc # "idle" => relay[k].batch # {}
        /\ relay[k].pc = "mark" => Delivered(First(relay[k].batch))
        /\ \A e \in relay[k].batch : \A f \in 1..seen[e] : f \in relay[k].batch \/ Delivered(f)

\* The broker had heard of what an event had seen when it heard of the event.
Told ==
    /\ \A e \in published : Delivered(e)
    /\ \A i \in DOMAIN delivered : \A f \in 1..seen[delivered[i]] :
          \E j \in DOMAIN delivered : j < i /\ delivered[j] = f

OInv == OutboxTyped /\ Ordered /\ Running /\ Told

-----------------------------------------------------------------------------
(* The inductive invariant of the round.                                    *)

RequestState ==
    [pc : {"idle", "loaded", "read", "ready"}, act : Act \cup {NoAct}, root : Roots,
     view : Revisions, at : Nat, events : Nat]

Typed ==
    /\ setting \in Scenario
    /\ left \in [Kind -> Nat]
    /\ root \in Roots
    /\ head \in Revisions
    /\ precedents \in SUBSET Pairs
    /\ request \in [Request -> RequestState]
    /\ built \in SUBSET (Contents \X Subject)
    /\ signed \in SUBSET (Contents \X Subject)

\* What a request that has read its revision was accepted on; how many events it had seen.
Served(q) ==
    /\ q.pc # "idle" => q.act \in Act /\ q.events <= Len(stored)
    /\ q.pc \in {"read", "ready"} => Accepts(q.act, q.root, q.view)

Serving == \A r \in Request : Served(request[r])

\* A content that somebody built and somebody else signed.
FourEyes(builds, signs, content) ==
    \E b \in builds, s \in signs : b[1] = content /\ s[1] = content /\ b[2] # s[2]

\* The builder of a revision built its estimate, unless that was signed already: an approval
\* puts the estimate it read back under the builder of the head.
Vouched(builds, signs, rev) ==
    /\ rev.estimate # NoContent =>
          \/ <<rev.estimate, rev.builder>> \in builds
          \/ FourEyes(builds, signs, rev.estimate)
    /\ rev.approval.of # NoContent => FourEyes(builds, signs, rev.approval.of)
    /\ rev.workbook # NoContent => FourEyes(builds, signs, rev.workbook)

Witnessed ==
    /\ Vouched(built, signed, head)
    /\ \A r \in Request :
          request[r].pc \in {"read", "ready"} => Vouched(built, signed, request[r].view)

IInv == OInv /\ Typed /\ Serving /\ Witnessed /\ CodesAreGrounded

-----------------------------------------------------------------------------
(* Data.                                                                    *)

\* A set of naturals that has an element has a least one.
LEMMA LeastNatural ==
    ASSUME NEW S \in SUBSET Nat, S # {}
    PROVE  \E x \in S : \A y \in S : x <= y
  <1> DEFINE R == {ss \in Nat \X Nat : ss[1] < ss[2]}
  <1>1. IsWellFoundedOn(R, Nat)
    BY NatLessThanWellFounded DEF OpToRel
  <1>2. PICK x \in S : \A y \in S : <<y, x>> \notin R
    <2> HIDE DEF R
    <2> QED
    BY <1>1, WFMin
  <1>3. \A y \in S : ~(y < x)
    <2> TAKE y \in S
    <2>1. <<y, x>> \in Nat \X Nat /\ <<y, x>>[1] = y /\ <<y, x>>[2] = x
      OBVIOUS
    <2> QED
      BY <1>2, <2>1
  <1> QED
    BY <1>3

\* An element put into a sequence: those before it stay, those after it move up.
IsInserted(t, s, i, e) ==
    /\ Len(t) = Len(s) + 1
    /\ \A j \in 1..(Len(s) + 1) :
          /\ j < i => t[j] = s[j]
          /\ j = i => t[j] = e
          /\ j > i => t[j] = s[j - 1]

LEMMA Inserting ==
    ASSUME NEW S, NEW s \in Seq(S), NEW e \in S, NEW i \in 1..(Len(s) + 1)
    PROVE  InsertAt(s, i, e) \in Seq(S) /\ IsInserted(InsertAt(s, i, e), s, i, e)
  <1> DEFINE n == Len(s)
             a == SubSeq(s, 1, i - 1)
             b == SubSeq(s, i, n)
             ae == a \o <<e>>
  <1>1. n \in Nat
    BY LenProperties
  <1>2. a \in Seq(S) /\ Len(a) = i - 1 /\ \A j \in 1..(i - 1) : a[j] = s[j]
    BY <1>1, SubSeqProperties
  <1>3. b \in Seq(S) /\ Len(b) = n - i + 1 /\ \A j \in 1..(n - i + 1) : b[j] = s[i + j - 1]
    BY <1>1, SubSeqProperties
  <1>4. <<e>> \in Seq(S) /\ Len(<<e>>) = 1 /\ <<e>>[1] = e
    OBVIOUS
  <1> HIDE DEF a, b
  <1>5. /\ ae \in Seq(S) /\ Len(ae) = i
        /\ \A j \in 1..i : ae[j] = IF j <= i - 1 THEN a[j] ELSE <<e>>[j - (i - 1)]
    <2>1. /\ ae \in Seq(S) /\ Len(ae) = Len(a) + Len(<<e>>)
          /\ \A j \in 1..(Len(a) + Len(<<e>>)) :
                ae[j] = IF j <= Len(a) THEN a[j] ELSE <<e>>[j - Len(a)]
      BY <1>2, <1>4, ConcatProperties, Zenon
    <2>2. Len(a) + Len(<<e>>) = i
      BY <1>1, <1>2, <1>4
    <2> QED
      BY <1>2, <2>1, <2>2
  <1> HIDE DEF ae
  <1>6. /\ ae \o b \in Seq(S) /\ Len(ae \o b) = n + 1
        /\ \A j \in 1..(n + 1) : (ae \o b)[j] = IF j <= i THEN ae[j] ELSE b[j - i]
    <2>1. /\ ae \o b \in Seq(S) /\ Len(ae \o b) = Len(ae) + Len(b)
          /\ \A j \in 1..(Len(ae) + Len(b)) :
                (ae \o b)[j] = IF j <= Len(ae) THEN ae[j] ELSE b[j - Len(ae)]
      BY <1>3, <1>5, ConcatProperties, Zenon
    <2>2. Len(ae) + Len(b) = n + 1
      BY <1>1, <1>3, <1>5
    <2> QED
      BY <1>5, <2>1, <2>2
  <1>7. InsertAt(s, i, e) = ae \o b
    BY DEF InsertAt, ae, a, b
  <1>8. ASSUME NEW j \in 1..(n + 1)
        PROVE  /\ j < i => (ae \o b)[j] = s[j]
               /\ j = i => (ae \o b)[j] = e
               /\ j > i => (ae \o b)[j] = s[j - 1]
    <2>1. CASE j < i
      <3>1. j \in 1..(i - 1) /\ j \in 1..i /\ j <= i /\ j <= i - 1
        BY <1>1, <2>1
      <3> QED
        BY <1>2, <1>5, <1>6, <2>1, <3>1
    <2>2. CASE j = i
      <3>1. j \in 1..i /\ j <= i /\ ~(j <= i - 1) /\ j - (i - 1) = 1
        BY <1>1, <2>2
      <3> QED
        BY <1>4, <1>5, <1>6, <2>2, <3>1
    <2>3. CASE j > i
      <3>1. j - i \in 1..(n - i + 1) /\ ~(j <= i) /\ i + (j - i) - 1 = j - 1
        BY <1>1, <2>3
      <3>2. (ae \o b)[j] = b[j - i]
        BY <1>6, <3>1
      <3>3. b[j - i] = s[j - 1]
        BY <1>3, <3>1
      <3> QED
        BY <2>3, <3>2, <3>3
    <2> QED
      BY <1>1, <2>1, <2>2, <2>3
  <1> QED
    BY <1>6, <1>7, <1>8 DEF IsInserted

-----------------------------------------------------------------------------
(* The outbox.                                                              *)

\* An event is where it is stored, once.
LEMMA PlaceInOrder ==
    ASSUME NEW s, Orders(s)
    PROVE  /\ Len(s) \in Nat /\ DOMAIN s = 1..Len(s)
           /\ \A e \in 1..Len(s) : PlaceIn(s, e) \in 1..Len(s) /\ s[PlaceIn(s, e)] = e
           /\ \A i \in 1..Len(s) : PlaceIn(s, s[i]) = i
  <1>1. Len(s) \in Nat /\ DOMAIN s = 1..Len(s)
    BY LenProperties DEF Orders
  <1>2. ASSUME NEW e \in 1..Len(s) PROVE PlaceIn(s, e) \in 1..Len(s) /\ s[PlaceIn(s, e)] = e
    <2>1. \E i \in DOMAIN s : s[i] = e
      BY <1>1 DEF Orders
    <2> QED
      BY <1>1, <2>1 DEF PlaceIn
  <1>3. ASSUME NEW i \in 1..Len(s) PROVE PlaceIn(s, s[i]) = i
    <2>1. s[i] \in 1..Len(s)
      BY DEF Orders
    <2>2. PlaceIn(s, s[i]) \in 1..Len(s) /\ s[PlaceIn(s, s[i])] = s[i]
      BY <1>2, <2>1
    <2> QED
      BY <2>2 DEF Orders
  <1> QED
    BY <1>1, <1>2, <1>3

\* Events are at different places.
LEMMA PlaceIsOne ==
    ASSUME NEW s, Orders(s), NEW e \in 1..Len(s), NEW f \in 1..Len(s),
           PlaceIn(s, e) = PlaceIn(s, f)
    PROVE  e = f
  <1>1. s[PlaceIn(s, e)] = e /\ s[PlaceIn(s, f)] = f
    BY PlaceInOrder
  <1> QED
    BY <1>1

\* The first of some events is one of them, and none of them is before it.
LEMMA FirstInOrder ==
    ASSUME NEW s, Orders(s), NEW S \in SUBSET (1..Len(s)), S # {}
    PROVE  /\ FirstIn(s, S) \in S
           /\ \A f \in S : PlaceIn(s, FirstIn(s, S)) <= PlaceIn(s, f)
  <1> DEFINE P == {PlaceIn(s, e) : e \in S}
  <1>1. P \in SUBSET Nat /\ P # {}
    <2>1. Len(s) \in Nat /\ \A e \in 1..Len(s) : PlaceIn(s, e) \in 1..Len(s)
      BY PlaceInOrder
    <2>2. \A e \in S : PlaceIn(s, e) \in Nat
      BY <2>1
    <2> QED
      BY <2>2
  <1>2. PICK p \in P : \A q \in P : p <= q
    <2> HIDE DEF P
    <2> QED
      BY <1>1, LeastNatural
  <1>3. \E e \in S : \A f \in S : PlaceIn(s, e) <= PlaceIn(s, f)
    BY <1>2
  <1> QED
    BY <1>3 DEF FirstIn

\* A new event put into an order: the others keep theirs.
LEMMA InsertedInOrder ==
    ASSUME NEW s, Orders(s), NEW i \in 1..(Len(s) + 1), NEW t,
           t = InsertAt(s, i, Len(s) + 1)
    PROVE  /\ Orders(t) /\ Len(t) = Len(s) + 1
           /\ PlaceIn(t, Len(s) + 1) = i
           /\ \A e \in 1..Len(s) :
                 PlaceIn(t, e) = IF PlaceIn(s, e) < i THEN PlaceIn(s, e)
                                 ELSE PlaceIn(s, e) + 1
  <1>1. PICK n \in Nat : n = Len(s)
    BY PlaceInOrder
  <1>2. PICK new \in Nat : new = n + 1
    BY <1>1
  <1>3. /\ t \in Seq(Nat)
        /\ Len(t) = n + 1
        /\ \A j \in 1..(n + 1) :
              /\ j < i => t[j] = s[j]
              /\ j = i => t[j] = new
              /\ j > i => t[j] = s[j - 1]
    <2>1. s \in Seq(Nat)
      BY DEF Orders
    <2>2. t \in Seq(Nat) /\ IsInserted(t, s, i, Len(s) + 1)
      BY <1>1, <1>2, <2>1, Inserting
    <2> QED
      BY <1>1, <1>2, <2>2 DEF IsInserted
  <1>4. i \in 1..(n + 1)
    BY <1>1
  <1> DEFINE Moved(p) == IF p < i THEN p ELSE p + 1
  <1>5. ASSUME NEW j \in 1..(n + 1)
        PROVE  \/ j = i /\ t[j] = new
               \/ \E p \in 1..n : j = Moved(p) /\ t[j] = s[p]
    <2>1. CASE j < i
      <3>1. j \in 1..n /\ Moved(j) = j
        BY <1>4, <2>1
      <3> QED
        BY <1>3, <2>1, <3>1
    <2>2. CASE j = i
      BY <1>3, <2>2
    <2>3. CASE j > i
      <3>1. j - 1 \in 1..n /\ Moved(j - 1) = j
        BY <1>4, <2>3
      <3> QED
        BY <1>3, <2>3, <3>1
    <2> QED
      BY <1>4, <2>1, <2>2, <2>3
  <1>6. ASSUME NEW p \in 1..n
        PROVE  Moved(p) \in 1..(n + 1) /\ Moved(p) # i /\ t[Moved(p)] = s[p]
    <2>1. CASE p < i
      BY <1>3, <1>4, <2>1
    <2>2. CASE ~(p < i)
      <3>1. p + 1 \in 1..(n + 1) /\ p + 1 > i /\ (p + 1) - 1 = p
        BY <1>4, <2>2
      <3> QED
        BY <1>3, <1>4, <2>2, <3>1
    <2> QED
      BY <2>1, <2>2
  <1>7. \A j \in 1..n : s[j] \in 1..n
    BY <1>1 DEF Orders
  <1>8. \A j \in 1..(n + 1) : t[j] \in 1..(n + 1)
    <2> TAKE j \in 1..(n + 1)
    <2>1. CASE j = i /\ t[j] = new
      BY <1>2, <2>1
    <2>2. CASE \E p \in 1..n : j = Moved(p) /\ t[j] = s[p]
      <3> HIDE DEF Moved
      <3>1. t[j] \in 1..n
        BY <1>7, <2>2
      <3> QED
        BY <3>1
    <2> QED
      BY <1>5, <2>1, <2>2
  <1>9. \A e \in 1..(n + 1) : \E j \in 1..(n + 1) : t[j] = e
    <2> TAKE e \in 1..(n + 1)
    <2>1. CASE e = n + 1
      BY <1>2, <1>3, <1>4, <2>1
    <2>2. CASE e \in 1..n
      <3>1. PICK p \in 1..n : s[p] = e
        BY <1>1, <2>2 DEF Orders
      <3> HIDE DEF Moved
      <3> QED
        BY <1>6, <3>1
    <2> QED
      BY <2>1, <2>2
  <1>10. \A j, l \in 1..(n + 1) : t[j] = t[l] => j = l
    <2> SUFFICES ASSUME NEW j \in 1..(n + 1), NEW l \in 1..(n + 1), t[j] = t[l]
                 PROVE  j = l
      OBVIOUS
    <2>1. new \notin 1..n
      BY <1>2
    <2>2. ASSUME NEW p \in 1..n, NEW q \in 1..n, s[p] = s[q] PROVE p = q
      BY <1>1, <2>2 DEF Orders
    <2> HIDE DEF Moved
    <2>3. CASE j = i /\ t[j] = new
      <3>1. ~ \E p \in 1..n : l = Moved(p) /\ t[l] = s[p]
        BY <1>7, <2>1, <2>3
      <3> QED
        BY <1>5, <2>3, <3>1
    <2>4. CASE \E p \in 1..n : j = Moved(p) /\ t[j] = s[p]
      <3>1. PICK p \in 1..n : j = Moved(p) /\ t[j] = s[p]
        BY <2>4
      <3>2. ~(l = i /\ t[l] = new)
        BY <1>7, <2>1, <3>1
      <3>3. PICK q \in 1..n : l = Moved(q) /\ t[l] = s[q]
        BY <1>5, <3>2
      <3> QED
        BY <2>2, <3>1, <3>3
    <2> QED
      BY <1>5, <2>3, <2>4
  <1>11. Orders(t)
    BY <1>3, <1>8, <1>9, <1>10 DEF Orders
  <1>12. \A j \in 1..(n + 1) : PlaceIn(t, t[j]) = j
    BY <1>3, <1>11, PlaceInOrder
  <1>13. PlaceIn(t, n + 1) = i
    BY <1>2, <1>3, <1>4, <1>12
  <1>14. ASSUME NEW e \in 1..n
         PROVE  PlaceIn(t, e) = Moved(PlaceIn(s, e))
    <2> HIDE DEF Moved
    <2>1. PlaceIn(s, e) \in 1..n /\ s[PlaceIn(s, e)] = e
      BY <1>1, PlaceInOrder
    <2>2. Moved(PlaceIn(s, e)) \in 1..(n + 1) /\ t[Moved(PlaceIn(s, e))] = e
      BY <1>6, <2>1
    <2> QED
      BY <1>12, <2>2
  <1> QED
    BY <1>1, <1>3, <1>11, <1>13, <1>14

\* What keeps the order of some events keeps the first of them.
LEMMA SameFirst ==
    ASSUME NEW s, Orders(s), NEW t, Orders(t), Len(s) <= Len(t),
           NEW S \in SUBSET (1..Len(s)), S # {},
           \A e, f \in 1..Len(s) :
              PlaceIn(s, e) < PlaceIn(s, f) => PlaceIn(t, e) < PlaceIn(t, f)
    PROVE  FirstIn(t, S) = FirstIn(s, S)
  <1>1. Len(s) \in Nat /\ Len(t) \in Nat
    BY PlaceInOrder
  <1>2. S \in SUBSET (1..Len(t))
    BY <1>1
  <1>3. PICK a \in S : a = FirstIn(s, S) /\ \A f \in S : PlaceIn(s, a) <= PlaceIn(s, f)
    BY FirstInOrder
  <1>4. PICK b \in S : b = FirstIn(t, S) /\ \A f \in S : PlaceIn(t, b) <= PlaceIn(t, f)
    BY <1>2, FirstInOrder
  <1>5. /\ PlaceIn(s, a) \in Nat /\ PlaceIn(s, b) \in Nat
        /\ PlaceIn(t, a) \in Nat /\ PlaceIn(t, b) \in Nat
    <2>1. \A e \in 1..Len(s) : PlaceIn(s, e) \in 1..Len(s)
      BY PlaceInOrder
    <2>2. \A e \in 1..Len(t) : PlaceIn(t, e) \in 1..Len(t)
      BY PlaceInOrder
    <2>3. a \in 1..Len(s) /\ b \in 1..Len(s) /\ a \in 1..Len(t) /\ b \in 1..Len(t)
      BY <1>2
    <2>4. /\ PlaceIn(s, a) \in 1..Len(s) /\ PlaceIn(s, b) \in 1..Len(s)
          /\ PlaceIn(t, a) \in 1..Len(t) /\ PlaceIn(t, b) \in 1..Len(t)
      BY <2>1, <2>2, <2>3, Zenon
    <2> QED
      BY <1>1, <2>4
  <1>6. PlaceIn(s, a) = PlaceIn(s, b)
    <2>1. PlaceIn(s, a) <= PlaceIn(s, b) /\ PlaceIn(t, b) <= PlaceIn(t, a)
      BY <1>3, <1>4
    <2>2. PlaceIn(s, a) < PlaceIn(s, b) => PlaceIn(t, a) < PlaceIn(t, b)
      OBVIOUS
    <2> QED
      BY <1>5, <2>1, <2>2
  <1>7. a \in 1..Len(s) /\ b \in 1..Len(s)
    OBVIOUS
  <1> QED
    BY <1>3, <1>4, <1>6, <1>7, PlaceIsOne

\* The outbox names its places and its firsts as here.
LEMMA OutboxNames ==
    /\ \A e : Outbox!Place(e) = Place(e)
    /\ \A S : Outbox!First(S) = First(S)
  BY DEF Outbox!Place, Outbox!First, Place, First, PlaceIn, FirstIn

\* The first of what a run has in hand: the broker knows what it had seen.
LEMMA FirstInHand ==
    ASSUME OInv, NEW k \in Relay, relay[k].pc # "idle"
    PROVE  /\ First(relay[k].batch) \in relay[k].batch
           /\ First(relay[k].batch) \in Events
           /\ \A f \in 1..seen[First(relay[k].batch)] : Delivered(f)
  <1>1. relay[k].batch # {} /\ relay[k].batch \in SUBSET (1..Len(stored)) /\ Orders(stored)
    BY DEF OInv, OutboxTyped, Running, Events
  <1>2. PICK e \in relay[k].batch :
           e = First(relay[k].batch) /\ \A f \in relay[k].batch : Place(e) <= Place(f)
    BY <1>1, FirstInOrder DEF First, Place
  <1>3. e \in Events
    BY <1>1 DEF Events
  <1>4. ASSUME NEW f \in 1..seen[e] PROVE Delivered(f)
    <2>1. f \in relay[k].batch \/ Delivered(f)
      BY DEF OInv, Running
    <2>2. CASE f \in relay[k].batch
      <3>1. Place(f) < Place(e) /\ Place(e) <= Place(f)
        BY <1>2, <1>3, <2>2 DEF OInv, Ordered
      <3>2. Place(e) \in Nat /\ Place(f) \in Nat
        BY <1>1, <1>3, <2>2, PlaceInOrder DEF Place, Events
      <3> QED
        BY <3>1, <3>2
    <2> QED
      BY <2>1, <2>2
  <1> QED
    BY <1>2, <1>3, <1>4

\* Nothing is recorded in an empty outbox.
LEMMA OutboxStarts == Outbox!Init => OInv
  <1> SUFFICES ASSUME Outbox!Init PROVE OInv
    OBVIOUS
  <1>1. stored = <<>> /\ seen = <<>> /\ delivered = <<>> /\ published = {}
    BY DEF Outbox!Init
  <1>2. relay = [k \in Relay |-> [pc |-> "idle", batch |-> {}]]
    BY DEF Outbox!Init, Outbox!Resting
  <1>3. Events = {}
    BY <1>1 DEF Events
  <1>4. OutboxTyped
    BY <1>1, <1>2, <1>3 DEF OutboxTyped, Orders
  <1>5. Ordered /\ Running /\ Told
    BY <1>1, <1>2, <1>3 DEF Ordered, Running, Told
  <1> QED
    BY <1>4, <1>5 DEF OInv

\* An outbox that does not move.
LEMMA OutboxRests == OInv /\ UNCHANGED outboxVars => OInv'
  BY DEF OInv, OutboxTyped, Ordered, Running, Told, outboxVars, Events, Delivered, Place, First

\* The event of a transaction goes into the order, after all that the transaction had seen.
LEMMA Recording ==
    ASSUME OInv, NEW base \in Nat, base <= Len(stored), Outbox!Record(base)
    PROVE  OInv' /\ Len(stored') = Len(stored) + 1
  <1>1. Orders(stored) /\ Len(stored) \in Nat
    BY PlaceInOrder DEF OInv, OutboxTyped
  <1>2. PICK i \in 1..(Len(stored) + 1) :
           /\ \A j \in i..Len(stored) : stored[j] > base
           /\ stored' = InsertAt(stored, i, Len(stored) + 1)
    BY DEF Outbox!Record, Outbox!InsertAt, InsertAt
  <1>3. /\ seen' = Append(seen, base)
        /\ published' = published /\ relay' = relay /\ delivered' = delivered
    BY DEF Outbox!Record
  <1>4. PICK s : s = stored /\ Orders(s)
    BY <1>1
  <1>5. PICK t : t = stored'
    OBVIOUS
  <1>6. PICK n \in Nat : n = Len(s)
    BY <1>1, <1>4
  <1>7. /\ Orders(t) /\ Len(t) = n + 1
        /\ PlaceIn(t, n + 1) = i
        /\ \A e \in 1..n :
              PlaceIn(t, e) = IF PlaceIn(s, e) < i THEN PlaceIn(s, e)
                              ELSE PlaceIn(s, e) + 1
    BY <1>2, <1>4, <1>5, <1>6, InsertedInOrder
  <1>8. /\ seen' \in Seq(Nat) /\ Len(seen') = n + 1
        /\ \A e \in 1..n : seen'[e] = seen[e]
        /\ seen'[n + 1] = base
    BY <1>3, <1>4, <1>6, AppendProperties DEF OInv, OutboxTyped
  <1>9. /\ Events = 1..n /\ Events' = 1..(n + 1)
        /\ \A e : Place(e) = PlaceIn(s, e)
        /\ \A S : First(S) = FirstIn(s, S)
    BY <1>4, <1>5, <1>6, <1>7 DEF Events, Place, First
  <1>10. \A e \in 1..n : PlaceIn(s, e) \in 1..n /\ s[PlaceIn(s, e)] = e
    BY <1>4, <1>6, PlaceInOrder
  <1>11. \A e, f \in 1..n : PlaceIn(s, e) < PlaceIn(s, f) => PlaceIn(t, e) < PlaceIn(t, f)
    <2> TAKE e, f \in 1..n
    <2>1. PlaceIn(s, e) \in 1..n /\ PlaceIn(s, f) \in 1..n
      BY <1>10
    <2> QED
      BY <1>2, <1>7, <2>1
  <1>12. \A f \in 1..base : PlaceIn(t, f) < PlaceIn(t, n + 1)
    <2> TAKE f \in 1..base
    <2>1. f \in 1..n
      BY <1>4, <1>6
    <2>2. PlaceIn(s, f) \in 1..n /\ s[PlaceIn(s, f)] = f
      BY <1>10, <2>1
    <2>3. PlaceIn(s, f) < i
      <3> SUFFICES ASSUME PlaceIn(s, f) >= i PROVE FALSE
        BY <1>2, <2>2
      <3>1. PlaceIn(s, f) \in i..Len(stored)
        BY <1>4, <1>6, <2>2
      <3>2. f > base
        BY <1>2, <1>4, <2>2, <3>1
      <3> QED
        BY <3>2
    <2> QED
      BY <1>2, <1>7, <2>1, <2>2, <2>3
  <1>13. \A S \in SUBSET (1..n) : S # {} => FirstIn(t, S) = FirstIn(s, S)
    BY <1>4, <1>6, <1>7, <1>11, SameFirst
  <1>14. OutboxTyped'
    <2>1. Orders(stored') /\ Len(seen') = Len(stored')
      BY <1>5, <1>7, <1>8
    <2>2. /\ delivered' \in Seq(Nat)
          /\ \A m \in DOMAIN delivered' : delivered'[m] \in Events'
          /\ \A m, l \in DOMAIN delivered' : delivered'[m] = delivered'[l] => m = l
      BY <1>3, <1>9 DEF OInv, OutboxTyped
    <2>3. /\ relay' \in [Relay -> [pc : {"idle", "publish", "mark"}, batch : SUBSET Nat]]
          /\ \A k \in Relay : relay'[k].batch \subseteq Events'
      BY <1>3, <1>9 DEF OInv, OutboxTyped
    <2> QED
      BY <1>8, <2>1, <2>2, <2>3 DEF OutboxTyped
  <1>15. Ordered'
    <2> SUFFICES ASSUME NEW e \in 1..(n + 1)
                 PROVE  /\ seen'[e] < e
                        /\ \A f \in 1..seen'[e] : PlaceIn(t, f) < PlaceIn(t, e)
      BY <1>5, <1>9 DEF Ordered, Place
    <2>1. CASE e = n + 1
      BY <1>4, <1>6, <1>8, <1>12, <2>1
    <2>2. CASE e \in 1..n
      <3>1. seen[e] < e /\ \A f \in 1..seen[e] : PlaceIn(s, f) < PlaceIn(s, e)
        BY <1>9, <2>2 DEF OInv, Ordered
      <3>2. seen[e] \in Nat
        BY <1>4, <1>6, <2>2, ElementOfSeq DEF OInv, OutboxTyped
      <3>3. \A f \in 1..seen[e] : f \in 1..n
        BY <2>2, <3>1, <3>2
      <3> QED
        BY <1>8, <1>11, <2>2, <3>1, <3>3
    <2> QED
      BY <2>1, <2>2
  <1>16. Running'
    <2> SUFFICES ASSUME NEW k \in Relay PROVE
          /\ relay[k].pc # "idle" => relay[k].batch # {}
          /\ relay[k].pc = "mark" => Delivered(FirstIn(t, relay[k].batch))
          /\ \A e \in relay[k].batch : \A f \in 1..seen'[e] :
                f \in relay[k].batch \/ Delivered(f)
      BY <1>3, <1>5 DEF Running, Delivered, First
    <2>1. relay[k].batch \in SUBSET (1..n)
      BY <1>9 DEF OInv, OutboxTyped
    <2>2. /\ relay[k].pc # "idle" => relay[k].batch # {}
          /\ relay[k].pc = "mark" => Delivered(FirstIn(s, relay[k].batch))
          /\ \A e \in relay[k].batch : \A f \in 1..seen[e] :
                f \in relay[k].batch \/ Delivered(f)
      BY <1>9 DEF OInv, Running
    <2>3. \A e \in relay[k].batch : seen'[e] = seen[e]
      BY <1>8, <2>1
    <2>4. relay[k].pc = "mark" =>
             FirstIn(t, relay[k].batch) = FirstIn(s, relay[k].batch)
      BY <1>13, <2>1, <2>2
    <2>5. relay[k].pc = "mark" => Delivered(FirstIn(t, relay[k].batch))
      BY <2>2, <2>4
    <2> QED
      BY <2>2, <2>3, <2>5
  <1>17. Told'
    <2>1. /\ \A e \in published : Delivered(e)
          /\ \A m \in DOMAIN delivered : \A f \in 1..seen[delivered[m]] :
                \E j \in DOMAIN delivered : j < m /\ delivered[j] = f
      BY DEF OInv, Told
    <2>2. \A m \in DOMAIN delivered : seen'[delivered[m]] = seen[delivered[m]]
      BY <1>8, <1>9 DEF OInv, OutboxTyped
    <2>3. \A e \in published' : Delivered(e)'
      BY <1>3, <2>1 DEF Delivered
    <2>4. \A m \in DOMAIN delivered : \A f \in 1..seen'[delivered[m]] :
             \E j \in DOMAIN delivered : j < m /\ delivered[j] = f
      BY <2>1, <2>2
    <2>5. \A m \in DOMAIN delivered' : \A f \in 1..seen'[delivered'[m]] :
             \E j \in DOMAIN delivered' : j < m /\ delivered'[j] = f
      <3>1. delivered' = delivered
        BY <1>3
      <3> TAKE m \in DOMAIN delivered'
      <3> TAKE f \in 1..seen'[delivered'[m]]
      <3>2. m \in DOMAIN delivered /\ f \in 1..seen'[delivered[m]]
        BY <3>1
      <3>3. PICK j \in DOMAIN delivered : j < m /\ delivered[j] = f
        BY <2>4, <3>2
      <3> QED
        BY <3>1, <3>3
    <2> QED
      BY <2>3, <2>5 DEF Told
  <1> QED
    BY <1>4, <1>5, <1>6, <1>7, <1>14, <1>15, <1>16, <1>17 DEF OInv

\* The broker forgets nothing, and hears of events only, of each once.
Hears ==
    /\ delivered' \in Seq(Nat)
    /\ \A i \in DOMAIN delivered' : delivered'[i] \in Events
    /\ \A i, j \in DOMAIN delivered' : delivered'[i] = delivered'[j] => i = j
    /\ \A f : Delivered(f) => HeardIn(delivered', f)

\* The broker hears of an event once it has heard of what the event had seen.
LEMMA Delivering ==
    ASSUME OInv, NEW e \in Events, \A f \in 1..seen[e] : Delivered(f), Outbox!Deliver(e),
           stored' = stored, seen' = seen, published' = published
    PROVE  Hears /\ HeardIn(delivered', e) /\ Told'
  <1>1. /\ delivered \in Seq(Nat)
        /\ \A i \in DOMAIN delivered : delivered[i] \in Events
        /\ \A i, j \in DOMAIN delivered : delivered[i] = delivered[j] => i = j
        /\ \A p \in published : Delivered(p)
        /\ \A i \in DOMAIN delivered : \A f \in 1..seen[delivered[i]] :
              \E j \in DOMAIN delivered : j < i /\ delivered[j] = f
    BY DEF OInv, OutboxTyped, Told
  <1>2. Outbox!Range(delivered) = {delivered[i] : i \in DOMAIN delivered}
    BY DEF Outbox!Range
  <1>3. CASE e \in Outbox!Range(delivered)
    <2>1. delivered' = delivered
      BY <1>3 DEF Outbox!Deliver
    <2>2. HeardIn(delivered, e)
      BY <1>2, <1>3 DEF HeardIn
    <2>3. Told'
      BY <1>1, <2>1 DEF Told, Delivered
    <2> QED
      BY <1>1, <2>1, <2>2, <2>3 DEF Delivered, Hears
  <1>4. CASE e \notin Outbox!Range(delivered)
    <2>1. delivered' = Append(delivered, e)
      BY <1>4 DEF Outbox!Deliver
    <2>2. PICK n \in Nat : n = Len(delivered) /\ DOMAIN delivered = 1..n
      BY <1>1, LenProperties
    <2>3. e \in Nat
      BY PlaceInOrder DEF Events, OInv, OutboxTyped
    <2>4. /\ delivered' \in Seq(Nat) /\ DOMAIN delivered' = 1..(n + 1)
          /\ \A i \in 1..n : delivered'[i] = delivered[i]
          /\ delivered'[n + 1] = e
      <3>1. /\ Append(delivered, e) \in Seq(Nat) /\ Len(Append(delivered, e)) = n + 1
            /\ \A i \in 1..n : Append(delivered, e)[i] = delivered[i]
            /\ Append(delivered, e)[n + 1] = e
        BY <1>1, <2>2, <2>3, AppendProperties
      <3> QED
        BY <2>1, <3>1, LenProperties
    <2>5. \A i \in 1..n : delivered[i] # e
      BY <1>2, <1>4, <2>2
    <2>6. \A i \in 1..(n + 1) : i \in 1..n \/ i = n + 1
      OBVIOUS
    <2>7. \A i \in DOMAIN delivered' : delivered'[i] \in Events
      BY <1>1, <2>2, <2>4, <2>6
    <2>8. \A i, j \in DOMAIN delivered' : delivered'[i] = delivered'[j] => i = j
      BY <1>1, <2>2, <2>4, <2>5, <2>6
    <2>9. \A f : Delivered(f) => HeardIn(delivered', f)
      BY <2>2, <2>4 DEF Delivered, HeardIn
    <2>10. HeardIn(delivered', e)
      BY <2>4 DEF HeardIn
    <2>11. \A m \in DOMAIN delivered' : \A f \in 1..seen[delivered'[m]] :
              \E j \in DOMAIN delivered' : j < m /\ delivered'[j] = f
      <3> TAKE m \in DOMAIN delivered'
      <3> TAKE f \in 1..seen[delivered'[m]]
      <3>1. CASE m \in 1..n
        <4>1. PICK j \in 1..n : j < m /\ delivered[j] = f
          BY <1>1, <2>2, <2>4, <3>1
        <4> QED
          BY <2>4, <4>1
      <3>2. CASE m = n + 1
        <4>1. PICK j \in 1..n : delivered[j] = f
          BY <2>2, <2>4, <3>2 DEF Delivered, HeardIn
        <4>2. j < m /\ j \in DOMAIN delivered' /\ delivered'[j] = f
          BY <2>4, <3>2, <4>1
        <4> QED
          BY <4>2
      <3> QED
        BY <2>4, <2>6, <3>1, <3>2
    <2>12. \A p \in published : HeardIn(delivered', p)
      BY <1>1, <2>9
    <2>13. Told'
      BY <2>11, <2>12 DEF Told, Delivered
    <2> QED
      BY <2>4, <2>7, <2>8, <2>9, <2>10, <2>13 DEF Hears
  <1> QED
    BY <1>3, <1>4

\* One run of the relay moves on, and the broker forgets nothing.
LEMMA RunMovesOn ==
    ASSUME OInv, NEW k \in Relay, stored' = stored, seen' = seen, Told', Hears,
           NEW run \in [pc : {"idle", "publish", "mark"}, batch : SUBSET Nat],
           run.batch \subseteq Events,
           run.pc # "idle" => run.batch # {},
           run.pc = "mark" => HeardIn(delivered', First(run.batch)),
           \A e \in run.batch : \A f \in 1..seen[e] : f \in run.batch \/ HeardIn(delivered', f),
           relay' = [relay EXCEPT ![k] = run]
    PROVE  OInv'
  <1>1. Events' = Events /\ \A S : First(S)' = First(S)
    BY DEF Events, First
  <1>2. relay' \in [Relay -> [pc : {"idle", "publish", "mark"}, batch : SUBSET Nat]]
    BY DEF OInv, OutboxTyped
  <1>3. \A r \in Relay : relay'[r] = IF r = k THEN run ELSE relay[r]
    BY DEF OInv, OutboxTyped
  <1>4. OutboxTyped'
    <2>1. Orders(stored') /\ seen' \in Seq(Nat) /\ Len(seen') = Len(stored')
      BY DEF OInv, OutboxTyped
    <2>2. \A r \in Relay : relay'[r].batch \subseteq Events'
      BY <1>1, <1>3 DEF OInv, OutboxTyped
    <2> QED
      BY <1>1, <1>2, <2>1, <2>2 DEF OutboxTyped, Hears
  <1>5. Ordered'
    BY DEF OInv, Ordered, Events, Place
  <1>6. Running'
    <2> SUFFICES ASSUME NEW r \in Relay PROVE
          /\ relay'[r].pc # "idle" => relay'[r].batch # {}
          /\ relay'[r].pc = "mark" => HeardIn(delivered', FirstIn(stored, relay'[r].batch))
          /\ \A e \in relay'[r].batch : \A f \in 1..seen[e] :
                f \in relay'[r].batch \/ HeardIn(delivered', f)
      BY DEF Running, Delivered, First
    <2>1. CASE r = k
      BY <1>3, <2>1 DEF First
    <2>2. CASE r # k
      <3>1. /\ relay[r].pc # "idle" => relay[r].batch # {}
            /\ relay[r].pc = "mark" => Delivered(FirstIn(stored, relay[r].batch))
            /\ \A e \in relay[r].batch : \A f \in 1..seen[e] :
                  f \in relay[r].batch \/ Delivered(f)
        BY DEF OInv, Running, First
      <3> QED
        BY <1>3, <2>2, <3>1 DEF Hears
    <2> QED
      BY <2>1, <2>2
  <1> QED
    BY <1>4, <1>5, <1>6 DEF OInv

\* What a run lists holds, of what each of its events had seen, all that is not published.
LEMMA Listed ==
    ASSUME OInv, Outbox!Pending # {}, RelayLimit \in Nat \ {0}
    PROVE  /\ Outbox!Batch \subseteq Events /\ Outbox!Batch # {}
           /\ \A e \in Outbox!Batch : \A f \in 1..seen[e] :
                 f \in Outbox!Batch \/ Delivered(f)
  <1>1. Orders(stored) /\ Len(stored) \in Nat /\ DOMAIN stored = 1..Len(stored)
    BY PlaceInOrder DEF OInv, OutboxTyped
  <1>2. PICK pending : pending = Outbox!Pending
    OBVIOUS
  <1>3. pending \in SUBSET Events /\ \A e \in Events : e \in pending \/ e \in published
    <2>1. Outbox!Range(stored) = {stored[i] : i \in DOMAIN stored}
      BY DEF Outbox!Range
    <2>2. Outbox!Range(stored) = Events
      BY <1>1, <2>1 DEF Orders, Events
    <2> QED
      BY <1>2, <2>2 DEF Outbox!Pending, Outbox!Unpublished
  <1>4. IsFiniteSet(pending)
    <2>1. IsFiniteSet(Events)
      BY <1>1, FS_Interval DEF Events
    <2> QED
      BY <1>3, <2>1, FS_Subset
  <1> DEFINE Ahead(e) == {f \in pending : Place(f) < Place(e)}
  <1>5. Outbox!Batch = {e \in pending : Cardinality(Ahead(e)) < RelayLimit}
    BY <1>2 DEF Outbox!Batch, Outbox!Place, Place, PlaceIn, Outbox!Cardinality, Cardinality
  <1>6. \A e \in Events : Place(e) \in Nat
    BY <1>1, PlaceInOrder DEF Place, Events
  <1>7. PICK e \in pending : e \in Outbox!Batch
    <2>1. PICK e \in pending : \A f \in pending : Place(e) <= Place(f)
      <3>1. pending # {} /\ pending \in SUBSET (1..Len(stored))
        BY <1>2, <1>3 DEF Events
      <3> QED
        BY <1>1, <3>1, FirstInOrder DEF Place
    <2>2. Ahead(e) = {}
      BY <1>3, <1>6, <2>1
    <2>3. Cardinality(Ahead(e)) = 0
      BY <2>2, FS_EmptySet
    <2> QED
      BY <1>5, <2>3
  <1>8. ASSUME NEW b \in Outbox!Batch, NEW f \in 1..seen[b]
        PROVE  f \in Outbox!Batch \/ Delivered(f)
    <2>1. b \in pending /\ b \in Events
      BY <1>3, <1>5
    <2>2. seen[b] < b /\ Place(f) < Place(b)
      BY <2>1 DEF OInv, Ordered
    <2>3. f \in Events
      <3>1. seen[b] \in Nat
        BY <1>1, <2>1, ElementOfSeq DEF OInv, OutboxTyped, Events
      <3> QED
        BY <1>1, <2>1, <2>2, <3>1 DEF Events
    <2>4. CASE f \in published
      BY <2>4 DEF OInv, Told
    <2>5. CASE f \in pending
      <3>1. Ahead(f) \subseteq Ahead(b)
        <4>1. \A g \in pending : Place(g) \in Nat
          BY <1>3, <1>6
        <4>2. Place(f) \in Nat /\ Place(b) \in Nat
          BY <1>6, <2>1, <2>3
        <4>3. \A g \in pending : Place(g) < Place(f) => Place(g) < Place(b)
          BY <2>2, <4>1, <4>2
        <4> QED
          BY <4>3
      <3>2. IsFiniteSet(Ahead(b)) /\ Ahead(b) \subseteq pending
        BY <1>4, FS_Subset
      <3> HIDE DEF Ahead
      <3>3. /\ Cardinality(Ahead(f)) <= Cardinality(Ahead(b))
            /\ Cardinality(Ahead(f)) \in Nat /\ Cardinality(Ahead(b)) \in Nat
        BY <3>1, <3>2, FS_Subset, FS_CardinalityType
      <3>4. Cardinality(Ahead(b)) < RelayLimit
        BY <1>5
      <3>5. Cardinality(Ahead(f)) < RelayLimit
        BY <3>3, <3>4
      <3> QED
        BY <1>5, <2>5, <3>5
    <2> QED
      BY <1>3, <2>3, <2>4, <2>5
  <1> QED
    BY <1>3, <1>5, <1>7, <1>8

\* A step of a run of the relay.
LEMMA Draining ==
    ASSUME OInv, NEW k \in Relay, Outbox!Drain(k), RelayLimit \in Nat \ {0}
    PROVE  OInv' /\ stored' = stored
  <1>1. /\ stored' = stored /\ seen' = seen
    BY DEF Outbox!Drain, Outbox!List, Outbox!Publish, Outbox!Refused, Outbox!Mark, Outbox!Killed
  <1>2. PICK run : run = relay[k]
    OBVIOUS
  <1>3. /\ run \in [pc : {"idle", "publish", "mark"}, batch : SUBSET Nat]
        /\ run.batch \subseteq Events
        /\ run.pc # "idle" => run.batch # {}
        /\ run.pc = "mark" => Delivered(First(run.batch))
        /\ \A e \in run.batch : \A f \in 1..seen[e] : f \in run.batch \/ Delivered(f)
    BY <1>2 DEF OInv, OutboxTyped, Running
  <1>4. PICK rests : rests = [pc |-> "idle", batch |-> {}]
    OBVIOUS
  <1>5. rests = Outbox!Resting
    BY <1>4 DEF Outbox!Resting
  <1>6. Events \in SUBSET Nat
    BY PlaceInOrder DEF Events, OInv, OutboxTyped
  <1>7. ASSUME delivered' = delivered, published' = published
        PROVE  Hears /\ Told'
    BY <1>1, <1>7 DEF OInv, OutboxTyped, Told, Delivered, Hears
  <1>8. ASSUME relay' = [relay EXCEPT ![k] = rests], Hears /\ Told'
        PROVE  OInv'
    <2>1. /\ rests \in [pc : {"idle", "publish", "mark"}, batch : SUBSET Nat]
          /\ rests.batch = {} /\ rests.pc = "idle"
      BY <1>4
    <2> QED
      BY <1>1, <1>8, <2>1, RunMovesOn
  <1>9. CASE Outbox!List(k)
    <2>1. PICK next : next = [pc |-> "publish", batch |-> Outbox!Batch]
      OBVIOUS
    <2>2. /\ relay' = [relay EXCEPT ![k] = next]
          /\ Outbox!Pending # {}
          /\ delivered' = delivered /\ published' = published
      BY <1>9, <2>1 DEF Outbox!List
    <2>3. /\ Outbox!Batch \subseteq Events /\ Outbox!Batch # {}
          /\ \A e \in Outbox!Batch : \A f \in 1..seen[e] :
                f \in Outbox!Batch \/ Delivered(f)
      BY <2>2, Listed
    <2>4. next.batch = Outbox!Batch /\ next.pc = "publish"
      BY <2>1
    <2>5. next \in [pc : {"idle", "publish", "mark"}, batch : SUBSET Nat]
      BY <1>6, <2>1, <2>3
    <2>6. \A e \in next.batch : \A f \in 1..seen[e] :
             f \in next.batch \/ HeardIn(delivered', f)
      BY <1>7, <2>2, <2>3, <2>4 DEF Hears
    <2> QED
      BY <1>1, <1>7, <2>2, <2>3, <2>4, <2>5, <2>6, RunMovesOn
  <1>10. CASE Outbox!Publish(k)
    <2>1. /\ run.pc = "publish" /\ Outbox!Deliver(First(run.batch))
          /\ relay' = [relay EXCEPT ![k].pc = "mark"] /\ published' = published
      BY <1>2, <1>10, OutboxNames DEF Outbox!Publish
    <2>2. PICK next : next = [run EXCEPT !.pc = "mark"]
      OBVIOUS
    <2>3. /\ next \in [pc : {"idle", "publish", "mark"}, batch : SUBSET Nat]
          /\ next.batch = run.batch /\ next.pc = "mark"
      BY <1>3, <2>2
    <2>4. relay' = [relay EXCEPT ![k] = next]
      BY <1>2, <2>1, <2>2
    <2>5. /\ First(run.batch) \in Events
          /\ \A f \in 1..seen[First(run.batch)] : Delivered(f)
      BY <1>2, <2>1, FirstInHand
    <2>6. Hears /\ HeardIn(delivered', First(run.batch)) /\ Told'
      BY <1>1, <2>1, <2>5, Delivering
    <2>7. \A e \in next.batch : \A f \in 1..seen[e] :
             f \in next.batch \/ HeardIn(delivered', f)
      BY <1>3, <2>3, <2>6 DEF Hears
    <2> QED
      BY <1>1, <1>3, <2>1, <2>3, <2>4, <2>6, <2>7, RunMovesOn
  <1>11. CASE Outbox!Refused(k)
    <2>1. /\ run.pc = "publish"
          /\ Outbox!Deliver(First(run.batch)) \/ delivered' = delivered
          /\ relay' = [relay EXCEPT ![k] = rests] /\ published' = published
      BY <1>2, <1>5, <1>11, OutboxNames DEF Outbox!Refused
    <2>2. CASE delivered' = delivered
      BY <1>1, <1>7, <1>8, <2>1, <2>2
    <2>3. CASE Outbox!Deliver(First(run.batch))
      <3>1. /\ First(run.batch) \in Events
            /\ \A f \in 1..seen[First(run.batch)] : Delivered(f)
        BY <1>2, <2>1, FirstInHand
      <3>2. Hears /\ Told'
        BY <1>1, <2>1, <2>3, <3>1, Delivering
      <3> QED
        BY <1>1, <1>8, <2>1, <3>2
    <2> QED
      BY <2>1, <2>2, <2>3
  <1>12. CASE Outbox!Mark(k)
    <2>1. /\ run.pc = "mark" /\ published' = published \cup {First(run.batch)}
          /\ Outbox!GoesOn(k) /\ delivered' = delivered
      BY <1>2, <1>12, OutboxNames DEF Outbox!Mark
    <2>2. Told'
      <3>1. \A p \in published' : HeardIn(delivered', p)
        BY <1>3, <2>1 DEF OInv, Told, Delivered
      <3> QED
        BY <1>1, <2>1, <3>1 DEF OInv, Told, Delivered
    <2>3. Hears
      BY <2>1 DEF OInv, OutboxTyped, Delivered, Hears
    <2>4. PICK rest : rest = run.batch \ {First(run.batch)}
      OBVIOUS
    <2>5. PICK next : next = [pc |-> "publish", batch |-> rest]
      OBVIOUS
    <2>6. relay' = [relay EXCEPT ![k] = IF rest = {} THEN rests ELSE next]
      BY <1>2, <1>5, <2>1, <2>4, <2>5, OutboxNames DEF Outbox!GoesOn
    <2>7. CASE rest = {}
      BY <1>1, <1>8, <2>2, <2>3, <2>6, <2>7
    <2>8. CASE rest # {}
      <3>1. relay' = [relay EXCEPT ![k] = next]
        BY <2>6, <2>8
      <3>2. next.pc = "publish" /\ next.batch = rest
        BY <2>5
      <3>3. next \in [pc : {"idle", "publish", "mark"}, batch : SUBSET Nat]
        BY <1>3, <1>6, <2>4, <2>5
      <3>4. \A e \in next.batch : \A f \in 1..seen[e] :
               f \in next.batch \/ HeardIn(delivered', f)
        BY <1>3, <2>1, <2>3, <2>4, <3>2 DEF Hears
      <3>5. next.batch \subseteq Events
        BY <1>3, <2>4, <3>2
      <3> QED
        BY <1>1, <2>2, <2>3, <2>8, <3>1, <3>2, <3>3, <3>4, <3>5, RunMovesOn
    <2> QED
      BY <2>7, <2>8
  <1>13. CASE Outbox!Killed(k)
    <2>1. /\ relay' = [relay EXCEPT ![k] = rests]
          /\ published' = published /\ delivered' = delivered
      BY <1>5, <1>13 DEF Outbox!Killed
    <2> QED
      BY <1>1, <1>7, <1>8, <2>1
  <1> QED
    BY <1>1, <1>9, <1>10, <1>11, <1>12, <1>13 DEF Outbox!Drain

-----------------------------------------------------------------------------
(* Requests.                                                                *)

\* Taking a source out of a cascade takes out that place and nothing else.
LEMMA Removing ==
    ASSUME NEW cascade \in Seq(Source), NEW i \in 1..Len(cascade)
    PROVE  /\ RemoveAt(cascade, i) \in Seq(Source)
           /\ Range(RemoveAt(cascade, i)) \subseteq Range(cascade)
           /\ Range(cascade) \ {cascade[i]} \subseteq Range(RemoveAt(cascade, i))
  <1> DEFINE n == Len(cascade)
             a == SubSeq(cascade, 1, i - 1)
             b == SubSeq(cascade, i + 1, n)
  <1>1. n \in Nat /\ DOMAIN cascade = 1..n
    BY LenProperties
  <1>2. a \in Seq(Source) /\ Len(a) = i - 1 /\ \A j \in 1..(i - 1) : a[j] = cascade[j]
    BY <1>1, SubSeqProperties
  <1>3. /\ b \in Seq(Source) /\ Len(b) = n - i
        /\ \A j \in 1..(n - i) : b[j] = cascade[i + j]
    <2>1. i + 1 \in 1..(n + 1) /\ n \in i..n /\ \A j \in i..n : cascade[j] \in Source
      BY <1>1, ElementOfSeq
    <2>2. /\ b \in Seq(Source)
          /\ Len(b) = IF i + 1 <= n THEN n - (i + 1) + 1 ELSE 0
          /\ \A j \in 1..(n - (i + 1) + 1) : b[j] = cascade[(i + 1) + j - 1]
      BY <1>1, <2>1, SubSeqProperties
    <2> HIDE DEF b
    <2>3. Len(b) = n - i /\ n - (i + 1) + 1 = n - i
      <3>1. PICK m \in Nat : m = n
        BY <1>1
      <3>2. i \in 1..m
        BY <3>1
      <3>3. m - (i + 1) + 1 = m - i /\ (~(i + 1 <= m) => m - i = 0)
        BY <3>2
      <3> QED
        BY <2>2, <3>1, <3>3
    <2>4. \A j \in 1..(n - i) : (i + 1) + j - 1 = i + j
      BY <1>1
    <2> QED
      BY <2>2, <2>3, <2>4
  <1>4. RemoveAt(cascade, i) = a \o b
    BY DEF RemoveAt
  <1> HIDE DEF a, b
  <1>5. /\ a \o b \in Seq(Source) /\ Len(a \o b) = n - 1
        /\ \A j \in 1..(n - 1) : (a \o b)[j] = IF j <= i - 1 THEN a[j] ELSE b[j - (i - 1)]
    <2>1. /\ a \o b \in Seq(Source) /\ Len(a \o b) = Len(a) + Len(b)
          /\ \A j \in 1..(Len(a) + Len(b)) :
                (a \o b)[j] = IF j <= Len(a) THEN a[j] ELSE b[j - Len(a)]
      BY <1>2, <1>3, ConcatProperties, Zenon
    <2>2. Len(a) + Len(b) = n - 1
      BY <1>1, <1>2, <1>3
    <2> QED
      BY <1>2, <2>1, <2>2
  <1>6. DOMAIN (a \o b) = 1..(n - 1)
    BY <1>5, LenProperties
  <1>7. \A j \in 1..(n - 1) : \E l \in 1..n : (a \o b)[j] = cascade[l]
    <2> TAKE j \in 1..(n - 1)
    <2>1. CASE j <= i - 1
      <3>1. j \in 1..(i - 1) /\ j \in 1..n
        BY <1>1, <2>1
      <3> QED
        BY <1>2, <1>5, <2>1, <3>1
    <2>2. CASE ~(j <= i - 1)
      <3>1. j - (i - 1) \in 1..(n - i) /\ i + (j - (i - 1)) \in 1..n
        BY <1>1, <2>2
      <3> QED
        BY <1>3, <1>5, <2>2, <3>1
    <2> QED
      BY <2>1, <2>2
  <1>8. \A l \in 1..n : l # i => \E j \in 1..(n - 1) : (a \o b)[j] = cascade[l]
    <2> SUFFICES ASSUME NEW l \in 1..n, l # i
                 PROVE  \E j \in 1..(n - 1) : (a \o b)[j] = cascade[l]
      OBVIOUS
    <2>1. CASE l < i
      <3>1. l \in 1..(n - 1) /\ l \in 1..(i - 1) /\ l <= i - 1
        BY <1>1, <2>1
      <3> QED
        BY <1>2, <1>5, <3>1
    <2>2. CASE l > i
      <3>1. /\ l - 1 \in 1..(n - 1) /\ ~(l - 1 <= i - 1)
            /\ (l - 1) - (i - 1) = l - i /\ l - i \in 1..(n - i) /\ i + (l - i) = l
        BY <1>1, <2>2
      <3>2. (a \o b)[l - 1] = b[l - i]
        BY <1>5, <3>1
      <3>3. b[l - i] = cascade[l]
        BY <1>3, <3>1
      <3> QED
        BY <3>1, <3>2, <3>3
    <2>3. l < i \/ l > i
      BY <1>1
    <2> QED
      BY <2>1, <2>2, <2>3
  <1>9. Range(cascade) = {cascade[l] : l \in 1..n}
    BY <1>1 DEF Range
  <1>10. Range(a \o b) = {(a \o b)[j] : j \in 1..(n - 1)}
    BY <1>6 DEF Range
  <1>11. Range(a \o b) \subseteq Range(cascade)
    BY <1>7, <1>9, <1>10
  <1>12. Range(cascade) \ {cascade[i]} \subseteq Range(a \o b)
    <2> SUFFICES ASSUME NEW x \in Range(cascade), x # cascade[i]
                 PROVE  x \in Range(a \o b)
      OBVIOUS
    <2>1. PICK l \in 1..n : x = cascade[l]
      BY <1>9
    <2> QED
      BY <1>8, <1>10, <2>1
  <1> QED
    BY <1>4, <1>5, <1>11, <1>12

\* What the body of each kind of act carries.
LEMMA Bodies ==
    ASSUME ConstantsAssumption, NEW act \in Act
    PROVE  /\ act.kind \in Kind
           /\ act.kind \in {"install", "remove"} => act.source \in Source
           /\ act.kind = "reorder" => act.order \in Seq(Source)
           /\ act.kind \in {"confirm", "revoke"} => act.item \in Item /\ act.source \in Source
           /\ act.kind \in {"reject", "close"} => act.item \in Item
           /\ act.kind = "build" => act.bdi \in 0..2 /\ act.by \in Subject
           /\ act.kind = "approve" => act.by \in Subject
  <1>1. CASE act \in [kind : {"target", "regime", "suggest", "recompute", "export"}]
    BY <1>1 DEF Kind
  <1>2. CASE act \in [kind : {"install", "remove"}, source : Source]
    BY <1>2 DEF Kind
  <1>3. CASE act \in [kind : {"reorder"}, order : UNION {SetToSeqs(S) : S \in SUBSET Source}]
    <2>1. PICK S \in SUBSET Source : act.order \in SetToSeqs(S)
      BY <1>3
    <2>2. Cardinality(S) \in Nat
      BY FS_Subset, FS_CardinalityType DEF ConstantsAssumption
    <2>3. act.order \in [1..Cardinality(S) -> S]
      BY <2>1 DEF SetToSeqs
    <2>4. act.order \in Seq(Source)
      <3>1. act.order \in [1..Cardinality(S) -> Source]
        BY <2>3
      <3> QED
        BY <2>2, <3>1, SeqDef
    <2>5. act.kind = "reorder"
      BY <1>3
    <2> QED
      BY <2>4, <2>5 DEF Kind
  <1>4. CASE act \in [kind : {"confirm", "revoke"}, item : Item, source : Source]
    BY <1>4 DEF Kind
  <1>5. CASE act \in [kind : {"reject", "close"}, item : Item]
    BY <1>5 DEF Kind
  <1>6. CASE act \in [kind : {"build"}, bdi : {1, 2}, by : Subject]
    BY <1>6 DEF Kind
  <1>7. CASE act \in [kind : {"approve"}, by : Subject]
    BY <1>7 DEF Kind
  <1> QED
    BY <1>1, <1>2, <1>3, <1>4, <1>5, <1>6, <1>7 DEF Act

\* What each kind of act was accepted on.
LEMMA Accepted ==
    ASSUME NEW act, NEW base, NEW rev, Accepts(act, base, rev)
    PROVE  /\ act.kind = "regime" => MayDeclare(base)
           /\ act.kind = "install" => MayInstall(act.source, base)
           /\ act.kind = "remove" => MayRemove(act.source, base, rev.codes)
           /\ act.kind = "reorder" => Installed(act.order) = Installed(base.cascade)
           /\ act.kind = "confirm" =>
                 /\ Open(act.item, rev.codes, base.cascade)
                 /\ act.source \in Installed(base.cascade)
           /\ act.kind = "reject" => MayReject(act.item, rev.codes, base.cascade)
           /\ act.kind = "close" => Open(act.item, rev.codes, base.cascade)
           /\ act.kind = "revoke" => MayRevoke(act.item, act.source, rev)
           /\ act.kind = "approve" => MayApprove(act.by, rev)
           /\ act.kind = "export" => MayExport(rev)
  BY DEF Accepts

\* A request that waits, and the empty round, are well formed.
LEMMA Blank ==
    /\ NoCodes \in Codes /\ NoContent \in Contents
    /\ NoRevision \in Revisions
    /\ Waiting \in RequestState /\ Waiting.pc = "idle"
  <1>1. NoCodes \in Codes
    BY DEF NoCodes, Codes
  <1>2. NoContent \in Contents
    BY DEF NoContent, Contents
  <1>3. NoApproval \in [by : Subjects, of : Contents]
    BY <1>2 DEF NoApproval, Subjects
  <1>4. NoRevision \in Revisions
    BY <1>1, <1>2, <1>3 DEF NoRevision, Revisions, Subjects
  <1>5. [version |-> 0, cascade |-> <<>>, contracted |-> FALSE] \in Roots
    BY DEF Roots
  <1>6. Waiting \in RequestState
    BY <1>4, <1>5 DEF Waiting, RequestState
  <1> QED
    BY <1>1, <1>2, <1>4, <1>6 DEF Waiting

\* What is known of a request about to commit.
LEMMA AtCommit ==
    ASSUME IInv, NEW r \in Request, request[r].pc = "ready"
    PROVE  /\ request[r] \in RequestState /\ request[r].act \in Act
           /\ request[r].root \in Roots /\ request[r].view \in Revisions
           /\ request[r].events \in Nat /\ request[r].events <= Len(stored)
           /\ Accepts(request[r].act, request[r].root, request[r].view)
           /\ Vouched(built, signed, request[r].view)
  <1>1. request[r] \in RequestState
    BY DEF IInv, Typed
  <1>2. /\ request[r].root \in Roots /\ request[r].view \in Revisions
        /\ request[r].events \in Nat
    BY <1>1 DEF RequestState
  <1>3. /\ request[r].act \in Act /\ request[r].events <= Len(stored)
        /\ Accepts(request[r].act, request[r].root, request[r].view)
    BY DEF IInv, Serving, Served
  <1>4. Vouched(built, signed, request[r].view)
    BY DEF IInv, Witnessed
  <1> QED
    BY <1>1, <1>2, <1>3, <1>4

\* An act that crosses nothing commits over what it read.
LEMMA Uncrossed ==
    ASSUME NEW r \in Request
    PROVE  /\ request[r].act.kind \in OfTheSources /\ "sources" \notin Crosses(r) =>
                 /\ root.cascade = request[r].root.cascade
                 /\ root.contracted = request[r].root.contracted
           /\ request[r].act.kind = "remove" /\ "citations" \notin Crosses(r) =>
                 head.codes = request[r].view.codes
           /\ request[r].act.kind = "confirm" /\ "citations" \notin Crosses(r) =>
                 root.cascade = request[r].root.cascade
           /\ request[r].act.kind \in OfTheCodes /\ "codes" \notin Crosses(r) =>
                 /\ head.codes = request[r].view.codes
                 /\ head.approval = request[r].view.approval
  BY DEF Crosses, OtherSources, OtherRegime, OtherCodes, OtherApproval

-----------------------------------------------------------------------------
(* Commits.                                                                 *)

\* The outbox as a commit leaves it.
Tells(r) == UNCHANGED outboxVars \/ Outbox!Record(request[r].events)

\* What a commit leaves behind, whatever the act.
Effect(r) ==
    /\ request[r].pc = "ready"
    /\ request' = [request EXCEPT ![r] = Waiting] /\ setting' = setting /\ left' = left
    /\ Tells(r)
    /\ root' \in Roots /\ head' \in Revisions /\ precedents' \in SUBSET Pairs
    /\ built \subseteq built' /\ built' \in SUBSET (Contents \X Subject)
    /\ signed \subseteq signed' /\ signed' \in SUBSET (Contents \X Subject)
    /\ Vouched(built', signed', head')
    /\ CodesAreGrounded'

\* Who built and who signed is never forgotten, so what was vouched for stays so.
LEMMA VouchedStays ==
    ASSUME NEW builds, NEW signs, NEW more \in SUBSET builds, NEW others \in SUBSET signs,
           NEW rev, Vouched(more, others, rev)
    PROVE  /\ Vouched(builds, signs, rev)
           /\ \A content : FourEyes(more, others, content) => FourEyes(builds, signs, content)
  <1>1. \A content : FourEyes(more, others, content) => FourEyes(builds, signs, content)
    BY DEF FourEyes
  <1> QED
    BY <1>1 DEF Vouched

\* What was accepted stays accepted: it is decided on what the request has in its hands.
LEMMA ServedStays ==
    ASSUME NEW q \in RequestState, setting' = setting, Served(q),
           Len(stored) \in Nat, Len(stored') \in Nat, Len(stored) <= Len(stored')
    PROVE  Served(q)'
  <1>1. q.pc # "idle" => q.act \in Act /\ q.events <= Len(stored')
    <2>1. q.events \in Nat
      BY DEF RequestState
    <2> QED
      BY <2>1 DEF Served
  <1>2. Accepts(q.act, q.root, q.view) => Accepts(q.act, q.root, q.view)'
    BY DEF Accepts, Open, MayReject, MayBuild
  <1> QED
    BY <1>1, <1>2 DEF Served

LEMMA ServingStays ==
    ASSUME IInv, setting' = setting,
           Len(stored) \in Nat, Len(stored') \in Nat, Len(stored) <= Len(stored'),
           \A r \in Request : request'[r] = request[r] \/ request'[r].pc = "idle"
    PROVE  Serving'
  <1> SUFFICES ASSUME NEW r \in Request PROVE Served(request[r])'
    BY DEF Serving
  <1>1. PICK q : q = request'[r]
    OBVIOUS
  <1>2. CASE q.pc = "idle"
    BY <1>1, <1>2 DEF Served
  <1>3. CASE q = request[r]
    <2>1. q \in RequestState /\ Served(q)
      BY <1>3 DEF IInv, Typed, Serving
    <2>2. Served(q)'
      BY <2>1, ServedStays
    <2> QED
      BY <1>1, <2>2 DEF Served, Accepts, Open, MayReject, MayBuild
  <1> QED
    BY <1>1, <1>2, <1>3

\* The outbox after a commit.
LEMMA TellsStep ==
    ASSUME IInv, NEW r \in Request, request[r].pc = "ready", Tells(r)
    PROVE  OInv' /\ Len(stored) \in Nat /\ Len(stored') \in Nat /\ Len(stored) <= Len(stored')
  <1>1. OInv /\ Len(stored) \in Nat
    BY PlaceInOrder DEF IInv, OInv, OutboxTyped
  <1>2. CASE UNCHANGED outboxVars
    <2>1. stored' = stored
      BY <1>2 DEF outboxVars
    <2> QED
      BY <1>1, <1>2, <2>1, OutboxRests
  <1>3. CASE Outbox!Record(request[r].events)
    <2>1. request[r].events \in Nat /\ request[r].events <= Len(stored)
      BY AtCommit
    <2>2. OInv' /\ Len(stored') = Len(stored) + 1
      BY <1>1, <1>3, <2>1, Recording
    <2> QED
      BY <1>1, <2>2
  <1> QED
    BY <1>2, <1>3 DEF Tells

\* A commit keeps the invariant: the other requests have what they had.
LEMMA CommitStep ==
    ASSUME IInv, NEW r \in Request, Effect(r)
    PROVE  IInv'
  <1>1. OInv' /\ Len(stored) \in Nat /\ Len(stored') \in Nat /\ Len(stored) <= Len(stored')
    BY TellsStep DEF Effect
  <1>2. \A q \in Request : request'[q] = IF q = r THEN Waiting ELSE request[q]
    BY DEF Effect, IInv, Typed
  <1>3. Waiting \in RequestState /\ Waiting.pc = "idle"
    BY Blank
  <1>4. Typed'
    <2>1. request' \in [Request -> RequestState]
      BY <1>3 DEF Effect, IInv, Typed
    <2>2. setting' \in Scenario /\ left' \in [Kind -> Nat]
      BY DEF Effect, IInv, Typed
    <2> QED
      BY <2>1, <2>2 DEF Effect, Typed
  <1>5. Serving'
    <2>1. \A q \in Request : request'[q] = request[q] \/ request'[q].pc = "idle"
      BY <1>2, <1>3
    <2> QED
      BY <1>1, <2>1, ServingStays DEF Effect
  <1>6. Witnessed'
    <2> SUFFICES ASSUME NEW q \in Request, request'[q].pc \in {"read", "ready"}
                 PROVE  Vouched(built', signed', request'[q].view)
      BY DEF Witnessed, Effect
    <2>1. request'[q] = request[q]
      BY <1>2, <1>3
    <2>2. Vouched(built, signed, request[q].view)
      BY <2>1 DEF IInv, Witnessed
    <2>3. built \in SUBSET built' /\ signed \in SUBSET signed'
      BY DEF Effect
    <2> QED
      BY <2>1, <2>2, <2>3, VouchedStays
  <1> QED
    BY <1>1, <1>4, <1>5, <1>6 DEF IInv, Effect

\* What is decided on does not move, and stays grounded.
LEMMA StaysGrounded ==
    ASSUME IInv, setting' = setting, root'.cascade = root.cascade,
           root'.contracted = root.contracted, head'.codes = head.codes,
           precedents' = precedents, crossed \subseteq crossed'
    PROVE  CodesAreGrounded'
  BY DEF IInv, CodesAreGrounded, ContractedIsClean, CitedIsInstalled, PrecedentIsConfirmed

\* The root row with the version of a commit.
LEMMA RootMoves ==
    ASSUME IInv, NEW r \in Request, request[r].pc = "ready",
           root' = [root EXCEPT !.version = NextVersion(r)]
    PROVE  /\ root' \in Roots
           /\ root'.cascade = root.cascade /\ root'.contracted = root.contracted
  <1>1. root \in Roots /\ request[r].root \in Roots
    BY AtCommit DEF IInv, Typed
  <1>2. NextVersion(r) \in Nat
    BY <1>1 DEF NextVersion, Roots
  <1> QED
    BY <1>1, <1>2 DEF Roots

\* CommitRevision puts a revision over the head, or finds its position taken.
LEMMA Committing ==
    ASSUME IInv, NEW r \in Request, request[r].pc = "ready", NEW rev \in Revisions,
           CommitRevision(r, rev)
    PROVE  /\ request' = [request EXCEPT ![r] = Waiting] /\ setting' = setting /\ left' = left
           /\ Tells(r)
           /\ root' \in Roots
           /\ root'.cascade = root.cascade /\ root'.contracted = root.contracted
           /\ head' \in Revisions
           /\ crossed \subseteq crossed'
           /\ head.version = request[r].at => crossed' = crossed \cup Crosses(r)
           /\ \/ /\ head.version = request[r].at
                 /\ head'.codes = rev.codes /\ head'.estimate = rev.estimate
                 /\ head'.builder = rev.builder /\ head'.approval = rev.approval
                 /\ head'.workbook = rev.workbook
              \/ head.version # request[r].at /\ head' = head
  <1>1. /\ request' = [request EXCEPT ![r] = Waiting] /\ setting' = setting /\ left' = left
    BY DEF CommitRevision, Done
  <1>2. root \in Roots /\ head \in Revisions
    BY DEF IInv, Typed
  <1>3. CASE head.version = request[r].at
    <2>1. /\ head' = [rev EXCEPT !.version = @ + 1]
          /\ root' = [root EXCEPT !.version = NextVersion(r)]
          /\ crossed' = crossed \cup Crosses(r)
          /\ Outbox!Record(request[r].events)
      BY <1>3 DEF CommitRevision, Recorded
    <2>2. /\ head' \in Revisions
          /\ head'.codes = rev.codes /\ head'.estimate = rev.estimate
          /\ head'.builder = rev.builder /\ head'.approval = rev.approval
          /\ head'.workbook = rev.workbook
      BY <2>1 DEF Revisions
    <2> QED
      BY <1>1, <1>3, <2>1, <2>2, RootMoves DEF Tells
  <1>4. CASE head.version # request[r].at
    <2>1. head' = head /\ root' = root /\ crossed' = crossed /\ UNCHANGED outboxVars
      BY <1>4 DEF CommitRevision
    <2> QED
      BY <1>1, <1>2, <1>4, <2>1 DEF Tells
  <1> QED
    BY <1>3, <1>4

\* Nothing signed, built or put in the workbook: the head stays vouched for.
LEMMA SameContents ==
    ASSUME IInv, head'.estimate = head.estimate, head'.builder = head.builder,
           head'.approval = head.approval, head'.workbook = head.workbook,
           built' = built, signed' = signed
    PROVE  /\ Vouched(built', signed', head')
           /\ built \subseteq built' /\ built' \in SUBSET (Contents \X Subject)
           /\ signed \subseteq signed' /\ signed' \in SUBSET (Contents \X Subject)
  <1>1. Vouched(built, signed, head)
    BY DEF IInv, Witnessed
  <1>2. Vouched(built', signed', head')
    BY <1>1 DEF Vouched
  <1> QED
    BY <1>2 DEF IInv, Typed

LEMMA TargetEffect ==
    ASSUME IInv, NEW r \in Request, CommitTarget(r)
    PROVE  Effect(r)
  <1>1. /\ request[r].pc = "ready" /\ Tells(r)
        /\ request' = [request EXCEPT ![r] = Waiting] /\ setting' = setting /\ left' = left
        /\ root' = [root EXCEPT !.version = NextVersion(r)] /\ crossed' = crossed
        /\ head' = head /\ precedents' = precedents /\ built' = built /\ signed' = signed
    BY DEF CommitTarget, Ready, Recorded, Done, Tells
  <1>2. /\ root' \in Roots
        /\ root'.cascade = root.cascade /\ root'.contracted = root.contracted
    BY <1>1, RootMoves
  <1>3. CodesAreGrounded'
    BY <1>1, <1>2, StaysGrounded
  <1>4. head' \in Revisions /\ precedents' \in SUBSET Pairs
    BY <1>1 DEF IInv, Typed
  <1> QED
    BY <1>1, <1>2, <1>3, <1>4, SameContents DEF Effect

\* The regime is declared over the sources the request saw: those there, or it crosses them.
LEMMA RegimeEffect ==
    ASSUME IInv, NEW r \in Request, CommitRegime(r)
    PROVE  Effect(r)
  <1>1. /\ request[r].pc = "ready" /\ request[r].act.kind = "regime" /\ Tells(r)
        /\ request' = [request EXCEPT ![r] = Waiting] /\ setting' = setting /\ left' = left
        /\ root' = [root EXCEPT !.version = NextVersion(r), !.contracted = TRUE]
        /\ crossed' = crossed \cup Crosses(r)
        /\ head' = head /\ precedents' = precedents /\ built' = built /\ signed' = signed
    BY DEF CommitRegime, Ready, Done, Tells
  <1>2. root \in Roots /\ request[r].root \in Roots
    BY <1>1, AtCommit DEF IInv, Typed
  <1>3. NextVersion(r) \in Nat
    BY <1>2 DEF NextVersion, Roots
  <1>4. root' \in Roots /\ root'.cascade = root.cascade
    BY <1>1, <1>2, <1>3 DEF Roots
  <1>5. CodesAreGrounded'
    <2>1. Installed(request[r].root.cascade) \subseteq Contractual
      BY <1>1, AtCommit, Accepted DEF MayDeclare
    <2>2. "sources" \notin crossed' => Installed(root.cascade) \subseteq Contractual
      BY <1>1, <2>1, Uncrossed DEF OfTheSources
    <2> QED
      BY <1>1, <1>4, <2>2 DEF IInv, CodesAreGrounded, ContractedIsClean, CitedIsInstalled,
         PrecedentIsConfirmed
  <1>6. head' \in Revisions /\ precedents' \in SUBSET Pairs
    BY <1>1 DEF IInv, Typed
  <1> QED
    BY <1>1, <1>4, <1>5, <1>6, SameContents DEF Effect

\* What an accepted act does to a cascade.
LEMMA CascadeMoves ==
    ASSUME ConstantsAssumption, NEW act \in Act, NEW base \in Roots, NEW rev,
           Accepts(act, base, rev), act.kind \in {"install", "reorder", "remove"}
    PROVE  /\ NewCascade(act, base.cascade) \in Seq(Source)
           /\ CitedBy(rev.codes) \subseteq Installed(base.cascade) =>
                 CitedBy(rev.codes) \subseteq Installed(NewCascade(act, base.cascade))
           /\ act.kind # "remove" =>
                 Installed(base.cascade) \subseteq Installed(NewCascade(act, base.cascade))
           /\ base.contracted /\ Installed(base.cascade) \subseteq Contractual =>
                 Installed(NewCascade(act, base.cascade)) \subseteq Contractual
  <1>1. PICK cascade \in Seq(Source) : cascade = base.cascade
    BY DEF Roots
  <1>2. DOMAIN cascade = 1..Len(cascade) /\ Len(cascade) \in Nat
    BY LenProperties
  <1>3. CASE act.kind = "install"
    <2>1. NewCascade(act, base.cascade) = Append(cascade, act.source)
      BY <1>1, <1>3 DEF NewCascade
    <2>2. act.source \in Source
      BY <1>3, Bodies
    <2>3. /\ Append(cascade, act.source) \in Seq(Source)
          /\ Len(Append(cascade, act.source)) = Len(cascade) + 1
          /\ \A i \in 1..Len(cascade) : Append(cascade, act.source)[i] = cascade[i]
          /\ Append(cascade, act.source)[Len(cascade) + 1] = act.source
      BY <2>2, AppendProperties
    <2>4. PICK more \in Seq(Source) : more = Append(cascade, act.source)
      BY <2>3
    <2>5. DOMAIN more = 1..(Len(cascade) + 1)
      BY <2>3, <2>4, LenProperties
    <2>6. Range(more) = Range(cascade) \cup {act.source}
      <3>1. \A i \in 1..(Len(cascade) + 1) : i \in 1..Len(cascade) \/ i = Len(cascade) + 1
        BY <1>2
      <3>2. /\ \A i \in 1..Len(cascade) : i \in DOMAIN more /\ more[i] = cascade[i]
            /\ Len(cascade) + 1 \in DOMAIN more /\ more[Len(cascade) + 1] = act.source
        BY <1>2, <2>3, <2>4, <2>5
      <3>3. Range(more) \subseteq Range(cascade) \cup {act.source}
        BY <1>2, <2>5, <3>1, <3>2 DEF Range
      <3>4. Range(cascade) \cup {act.source} \subseteq Range(more)
        BY <1>2, <3>2 DEF Range
      <3> QED
        BY <3>3, <3>4
    <2>7. base.contracted => act.source \in Contractual
      BY <1>3, Accepted DEF MayInstall
    <2> QED
      BY <1>1, <2>1, <2>4, <2>6, <2>7 DEF Installed
  <1>4. CASE act.kind = "reorder"
    <2>1. NewCascade(act, base.cascade) = act.order
      BY <1>4 DEF NewCascade
    <2>2. act.order \in Seq(Source) /\ Installed(act.order) = Installed(base.cascade)
      BY <1>4, Bodies, Accepted
    <2> QED
      BY <2>1, <2>2
  <1>5. CASE act.kind = "remove"
    <2>1. act.source \in Range(cascade) /\ act.source \notin CitedBy(rev.codes)
      BY <1>1, <1>5, Accepted DEF MayRemove, Installed
    <2>2. PICK i : i = CHOOSE n \in DOMAIN cascade : cascade[n] = act.source
      OBVIOUS
    <2>3. i \in 1..Len(cascade) /\ cascade[i] = act.source
      BY <1>2, <2>1, <2>2 DEF Range
    <2>4. NewCascade(act, base.cascade) = RemoveAt(cascade, i)
      BY <1>1, <1>5, <2>2 DEF NewCascade
    <2>5. /\ RemoveAt(cascade, i) \in Seq(Source)
          /\ Range(RemoveAt(cascade, i)) \subseteq Range(cascade)
          /\ Range(cascade) \ {cascade[i]} \subseteq Range(RemoveAt(cascade, i))
      BY <2>3, Removing
    <2> QED
      BY <1>1, <1>5, <2>1, <2>3, <2>4, <2>5 DEF Installed
  <1> QED
    BY <1>3, <1>4, <1>5

LEMMA CascadeEffect ==
    ASSUME ConstantsAssumption, IInv, NEW r \in Request, CommitCascade(r)
    PROVE  Effect(r)
  <1>1. PICK cascade :
           /\ cascade = NewCascade(request[r].act, request[r].root.cascade)
           /\ request[r].pc = "ready" /\ Tells(r)
           /\ request[r].act.kind \in {"install", "reorder", "remove"}
           /\ request' = [request EXCEPT ![r] = Waiting] /\ setting' = setting /\ left' = left
           /\ root' = [root EXCEPT !.version = NextVersion(r), !.cascade = cascade]
           /\ crossed' = crossed \cup Crosses(r)
           /\ head' = head /\ precedents' = precedents /\ built' = built /\ signed' = signed
    BY DEF CommitCascade, Ready, Recorded, Done, Tells
  <1>2. /\ root \in Roots /\ request[r].root \in Roots /\ request[r].view \in Revisions
        /\ request[r].act \in Act
        /\ Accepts(request[r].act, request[r].root, request[r].view)
    BY <1>1, AtCommit DEF IInv, Typed
  <1>3. PICK act \in Act, base \in Roots, rev \in Revisions :
           /\ act = request[r].act /\ base = request[r].root /\ rev = request[r].view
           /\ Accepts(act, base, rev)
    BY <1>2
  <1>4. /\ cascade \in Seq(Source)
        /\ CitedBy(rev.codes) \subseteq Installed(base.cascade) =>
              CitedBy(rev.codes) \subseteq Installed(cascade)
        /\ act.kind # "remove" => Installed(base.cascade) \subseteq Installed(cascade)
        /\ base.contracted /\ Installed(base.cascade) \subseteq Contractual =>
              Installed(cascade) \subseteq Contractual
    BY <1>1, <1>3, CascadeMoves
  <1>5. NextVersion(r) \in Nat
    BY <1>2 DEF NextVersion, Roots
  <1>6. root' \in Roots /\ root'.cascade = cascade /\ root'.contracted = root.contracted
    BY <1>1, <1>2, <1>4, <1>5 DEF Roots
  <1>7. CodesAreGrounded'
    <2>1. "sources" \notin crossed' =>
             root.cascade = base.cascade /\ root.contracted = base.contracted
      BY <1>1, <1>3, Uncrossed DEF OfTheSources
    <2>2. "citations" \notin crossed' /\ act.kind = "remove" => head.codes = rev.codes
      BY <1>1, <1>3, Uncrossed
    <2>3. ContractedIsClean'
      BY <1>1, <1>4, <1>6, <2>1 DEF IInv, CodesAreGrounded, ContractedIsClean
    <2>4. CitedIsInstalled'
      <3> SUFFICES ASSUME crossed' = {} PROVE CitedBy(head.codes) \subseteq Installed(cascade)
        BY <1>1, <1>6 DEF CitedIsInstalled, CitedBy
      <3>1. crossed = {} /\ root.cascade = base.cascade
        BY <1>1, <2>1
      <3>2. CitedBy(head.codes) \subseteq Installed(base.cascade)
        BY <3>1 DEF IInv, CodesAreGrounded, CitedIsInstalled
      <3> QED
        BY <1>4, <2>2, <3>2
    <2> QED
      BY <1>1, <2>3, <2>4 DEF IInv, CodesAreGrounded, PrecedentIsConfirmed
  <1>8. head' \in Revisions /\ precedents' \in SUBSET Pairs
    BY <1>1 DEF IInv, Typed
  <1> QED
    BY <1>1, <1>6, <1>7, <1>8, SameContents DEF Effect

LEMMA SuggestionsEffect ==
    ASSUME IInv, NEW r \in Request, CommitSuggestions(r)
    PROVE  Effect(r)
  <1>1. /\ request[r].pc = "ready" /\ Tells(r)
        /\ request' = [request EXCEPT ![r] = Waiting] /\ setting' = setting /\ left' = left
        /\ \/ head' = [head EXCEPT !.version = @ + 1, !.shortlist = TRUE]
           \/ head' = head
        /\ root' = root /\ precedents' = precedents /\ built' = built /\ signed' = signed
        /\ crossed' = crossed
    BY DEF CommitSuggestions, Ready, Done, Tells
  <1>2. head \in Revisions /\ root \in Roots
    BY DEF IInv, Typed
  <1>3. /\ head' \in Revisions /\ head'.codes = head.codes /\ head'.estimate = head.estimate
        /\ head'.builder = head.builder /\ head'.approval = head.approval
        /\ head'.workbook = head.workbook
    <2>1. CASE head' = [head EXCEPT !.version = @ + 1, !.shortlist = TRUE]
      <3>1. PICK v \in Nat : v = head.version + 1
        BY <1>2 DEF Revisions
      <3>2. head' = [head EXCEPT !.version = v, !.shortlist = TRUE]
        BY <2>1, <3>1
      <3> QED
        BY <1>2, <3>2 DEF Revisions
    <2> QED
      BY <1>1, <1>2, <2>1
  <1>4. root' \in Roots /\ precedents' \in SUBSET Pairs
    BY <1>1 DEF IInv, Typed
  <1>5. CodesAreGrounded'
    BY <1>1, <1>3, StaysGrounded
  <1> QED
    BY <1>1, <1>3, <1>4, <1>5, SameContents DEF Effect

LEMMA RecomputeEffect ==
    ASSUME IInv, NEW r \in Request, CommitRecompute(r)
    PROVE  Effect(r)
  <1>1. PICK rev : rev = [head EXCEPT !.shortlist = TRUE]
    OBVIOUS
  <1>2. /\ request[r].pc = "ready" /\ CommitRevision(r, rev)
        /\ precedents' = precedents /\ built' = built /\ signed' = signed
    BY <1>1 DEF CommitRecompute, Ready, CommitRevision
  <1>3. /\ rev \in Revisions /\ rev.codes = head.codes /\ rev.estimate = head.estimate
        /\ rev.builder = head.builder /\ rev.approval = head.approval
        /\ rev.workbook = head.workbook
    BY <1>1 DEF IInv, Typed, Revisions
  <1>4. /\ request' = [request EXCEPT ![r] = Waiting] /\ setting' = setting /\ left' = left
        /\ Tells(r)
        /\ root' \in Roots
        /\ root'.cascade = root.cascade /\ root'.contracted = root.contracted
        /\ head' \in Revisions
        /\ head'.codes = head.codes /\ head'.estimate = head.estimate
        /\ head'.builder = head.builder /\ head'.approval = head.approval
        /\ head'.workbook = head.workbook /\ crossed \subseteq crossed'
    BY <1>2, <1>3, Committing
  <1>5. CodesAreGrounded' /\ precedents' \in SUBSET Pairs
    BY <1>2, <1>4, StaysGrounded DEF IInv, Typed
  <1> QED
    BY <1>2, <1>4, <1>5, SameContents DEF Effect

\* Other codes over the head, grounded if they fit what the request saw, or if the act
\* crosses another one.
LEMMA NewCodes ==
    ASSUME IInv, NEW r \in Request, request[r].pc = "ready", NEW codes \in Codes,
           CommitRevision(r, [head EXCEPT !.codes = codes]),
           built' = built, signed' = signed, precedents' \in SUBSET Pairs,
           head.version # request[r].at => precedents' = precedents,
           head.version = request[r].at =>
              /\ crossed \cup Crosses(r) = {} => CitedBy(codes) \subseteq Installed(root.cascade)
              /\ "codes" \notin crossed \cup Crosses(r) => precedents' \subseteq codes.confirmed
    PROVE  Effect(r)
  <1>1. PICK rev : rev = [head EXCEPT !.codes = codes]
    OBVIOUS
  <1>2. CommitRevision(r, rev)
    BY <1>1 DEF CommitRevision
  <1>3. /\ rev \in Revisions /\ rev.codes = codes /\ rev.estimate = head.estimate
        /\ rev.builder = head.builder /\ rev.approval = head.approval
        /\ rev.workbook = head.workbook
    BY <1>1 DEF IInv, Typed, Revisions
  <1>4. /\ request' = [request EXCEPT ![r] = Waiting] /\ setting' = setting /\ left' = left
        /\ Tells(r)
        /\ root' \in Roots
        /\ root'.cascade = root.cascade /\ root'.contracted = root.contracted
        /\ head' \in Revisions
        /\ head'.estimate = head.estimate
        /\ head'.builder = head.builder /\ head'.approval = head.approval
        /\ head'.workbook = head.workbook
        /\ crossed \subseteq crossed'
        /\ head.version = request[r].at => crossed' = crossed \cup Crosses(r)
        /\ \/ head.version = request[r].at /\ head'.codes = codes
           \/ head.version # request[r].at /\ head' = head
    BY <1>2, <1>3, Committing
  <1>5. CodesAreGrounded'
    <2>1. CASE head.version # request[r].at
      <3>1. head' = head
        BY <1>4, <2>1
      <3> QED
        BY <1>4, <2>1, <3>1, StaysGrounded
    <2>2. CASE head.version = request[r].at
      <3>1. head'.codes = codes
        BY <1>4, <2>2
      <3> QED
        BY <1>4, <2>2, <3>1 DEF IInv, CodesAreGrounded, ContractedIsClean, CitedIsInstalled,
           PrecedentIsConfirmed
    <2> QED
      BY <2>1, <2>2
  <1> QED
    BY <1>4, <1>5, SameContents DEF Effect

\* A decision cites a source of the cascade the request saw.
LEMMA DecisionEffect ==
    ASSUME ConstantsAssumption, IInv, NEW r \in Request, CommitDecision(r)
    PROVE  Effect(r)
  <1>1. request[r].pc = "ready"
    BY DEF CommitDecision, Ready
  <1>2. PICK act \in Act, base \in Roots, rev \in Revisions :
           /\ act = request[r].act /\ base = request[r].root /\ rev = request[r].view
           /\ Accepts(act, base, rev)
    BY <1>1, AtCommit
  <1>3. PICK codes : codes = [rev.codes EXCEPT !.anchor = base.cascade[1]]
    OBVIOUS
  <1>4. precedents' = precedents /\ built' = built /\ signed' = signed
    BY DEF CommitDecision
  <1>5. \/ /\ act.kind = "confirm"
           /\ CommitRevision(r, [head EXCEPT !.codes =
                 [codes EXCEPT !.confirmed = @ \cup {<<act.item, act.source>>}]])
        \/ /\ act.kind = "reject"
           /\ CommitRevision(r, [head EXCEPT !.codes =
                 [codes EXCEPT !.rejected = @ \cup {act.item}]])
    BY <1>2, <1>3 DEF CommitDecision, Ready, CommitRevision
  <1>6. Open(act.item, rev.codes, base.cascade)
    BY <1>2, <1>5, Accepted DEF MayReject
  <1>7. base.cascade[1] \in Source
    <2>1. base.cascade \in Seq(Source) /\ base.cascade # <<>>
      BY <1>6 DEF Open, Roots
    <2> QED
      BY <2>1, EmptySeq, LenProperties, ElementOfSeq
  <1>8. codes \in Codes /\ codes.confirmed = rev.codes.confirmed
    BY <1>3, <1>7 DEF Revisions, Codes
  <1>9. /\ crossed \cup Crosses(r) = {} =>
              /\ CitedBy(rev.codes) \subseteq Installed(root.cascade)
              /\ act.kind = "confirm" => base.cascade = root.cascade
        /\ "codes" \notin crossed \cup Crosses(r) => precedents \subseteq rev.codes.confirmed
    BY <1>2, <1>5, Uncrossed DEF OfTheCodes, IInv, CodesAreGrounded, CitedIsInstalled,
       PrecedentIsConfirmed, CitedBy
  <1>10. precedents \in SUBSET Pairs
    BY DEF IInv, Typed
  <1>11. CASE act.kind = "confirm"
    <2>1. act.item \in Item /\ act.source \in Source /\ act.source \in Installed(base.cascade)
      BY <1>2, <1>11, Bodies, Accepted
    <2>2. PICK next : next = [codes EXCEPT !.confirmed = @ \cup {<<act.item, act.source>>}]
      OBVIOUS
    <2>3. next \in Codes /\ next.confirmed = rev.codes.confirmed \cup {<<act.item, act.source>>}
      BY <1>8, <2>1, <2>2 DEF Codes, Pairs
    <2>4. CommitRevision(r, [head EXCEPT !.codes = next])
      BY <1>5, <1>11, <2>2 DEF CommitRevision
    <2>5. /\ crossed \cup Crosses(r) = {} => CitedBy(next) \subseteq Installed(root.cascade)
          /\ "codes" \notin crossed \cup Crosses(r) => precedents \subseteq next.confirmed
      <3>1. CitedBy(next) \subseteq CitedBy(rev.codes) \cup {act.source}
        BY <2>3 DEF CitedBy
      <3> QED
        BY <1>9, <1>11, <2>1, <2>3, <3>1
    <2> QED
      BY <1>1, <1>4, <1>10, <2>3, <2>4, <2>5, NewCodes
  <1>12. CASE act.kind = "reject"
    <2>1. act.item \in Item
      BY <1>2, <1>12, Bodies
    <2>2. PICK next : next = [codes EXCEPT !.rejected = @ \cup {act.item}]
      OBVIOUS
    <2>3. next \in Codes /\ next.confirmed = rev.codes.confirmed
      BY <1>8, <2>1, <2>2 DEF Codes
    <2>4. CommitRevision(r, [head EXCEPT !.codes = next])
      BY <1>5, <1>12, <2>2 DEF CommitRevision
    <2>5. /\ crossed \cup Crosses(r) = {} => CitedBy(next) \subseteq Installed(root.cascade)
          /\ "codes" \notin crossed \cup Crosses(r) => precedents \subseteq next.confirmed
      BY <1>9, <2>3 DEF CitedBy
    <2> QED
      BY <1>1, <1>4, <1>10, <2>3, <2>4, <2>5, NewCodes
  <1> QED
    BY <1>5, <1>11, <1>12

\* A closure teaches the codes in force.
LEMMA ClosureEffect ==
    ASSUME ConstantsAssumption, IInv, NEW r \in Request, CommitClosure(r)
    PROVE  Effect(r)
  <1>1. request[r].pc = "ready" /\ request[r].act.kind = "close"
    BY DEF CommitClosure, Ready
  <1>2. PICK act \in Act, rev \in Revisions :
           /\ act = request[r].act /\ rev = request[r].view
    BY <1>1, AtCommit
  <1>3. PICK next : next = [rev.codes EXCEPT !.closed = @ \cup {act.item}]
    OBVIOUS
  <1>4. CommitRevision(r, [head EXCEPT !.codes = next])
    BY <1>2, <1>3 DEF CommitClosure, CommitRevision
  <1>5. /\ built' = built /\ signed' = signed
        /\ precedents' = IF head.version = request[r].at
                         THEN precedents \cup {c \in rev.codes.confirmed : c[1] = act.item}
                         ELSE precedents
    BY <1>2 DEF CommitClosure
  <1>6. act.item \in Item
    BY <1>1, <1>2, Bodies
  <1>7. /\ next \in Codes /\ next.confirmed = rev.codes.confirmed
        /\ rev.codes.confirmed \in SUBSET Pairs
    BY <1>3, <1>6 DEF Revisions, Codes
  <1>8. precedents' \in SUBSET Pairs
    BY <1>5, <1>7 DEF IInv, Typed
  <1>9. /\ crossed \cup Crosses(r) = {} => CitedBy(next) \subseteq Installed(root.cascade)
        /\ "codes" \notin crossed \cup Crosses(r) => precedents \subseteq next.confirmed
    BY <1>1, <1>2, <1>7, Uncrossed DEF OfTheCodes, IInv, CodesAreGrounded, CitedIsInstalled,
       PrecedentIsConfirmed, CitedBy
  <1>10. "codes" \notin crossed \cup Crosses(r) => precedents' \subseteq next.confirmed
    BY <1>5, <1>7, <1>9
  <1> QED
    BY <1>1, <1>4, <1>5, <1>7, <1>8, <1>9, <1>10, NewCodes

\* A code that is revoked is forgotten by the index.
LEMMA RevocationEffect ==
    ASSUME ConstantsAssumption, IInv, NEW r \in Request, CommitRevocation(r)
    PROVE  Effect(r)
  <1>1. request[r].pc = "ready" /\ request[r].act.kind = "revoke"
    BY DEF CommitRevocation, Ready
  <1>2. PICK act \in Act, rev \in Revisions :
           /\ act = request[r].act /\ rev = request[r].view
    BY <1>1, AtCommit
  <1>3. PICK next : next = [rev.codes EXCEPT !.confirmed = @ \ {<<act.item, act.source>>},
                                             !.closed = @ \ {act.item}]
    OBVIOUS
  <1>4. CommitRevision(r, [head EXCEPT !.codes = next])
    BY <1>2, <1>3 DEF CommitRevocation, CommitRevision
  <1>5. /\ built' = built /\ signed' = signed
        /\ precedents' = IF head.version = request[r].at
                         THEN precedents \ {<<act.item, act.source>>} ELSE precedents
    BY <1>2 DEF CommitRevocation, Forget
  <1>6. /\ next \in Codes
        /\ next.confirmed = rev.codes.confirmed \ {<<act.item, act.source>>}
    BY <1>3 DEF Revisions, Codes
  <1>7. precedents' \in SUBSET Pairs
    BY <1>5 DEF IInv, Typed
  <1>8. /\ crossed \cup Crosses(r) = {} => CitedBy(rev.codes) \subseteq Installed(root.cascade)
        /\ "codes" \notin crossed \cup Crosses(r) => precedents \subseteq rev.codes.confirmed
    BY <1>1, <1>2, Uncrossed DEF OfTheCodes, IInv, CodesAreGrounded, CitedIsInstalled,
       PrecedentIsConfirmed, CitedBy
  <1>9. crossed \cup Crosses(r) = {} => CitedBy(next) \subseteq Installed(root.cascade)
    <2>1. CitedBy(next) \subseteq CitedBy(rev.codes)
      BY <1>6 DEF CitedBy
    <2> QED
      BY <1>8, <2>1
  <1>10. head.version = request[r].at /\ "codes" \notin crossed \cup Crosses(r) =>
            precedents' \subseteq next.confirmed
    BY <1>5, <1>6, <1>8
  <1> QED
    BY <1>1, <1>4, <1>5, <1>6, <1>7, <1>9, <1>10, NewCodes

\* Contents over the head: the codes stay as they were.
LEMMA NewContents ==
    ASSUME IInv, NEW r \in Request, request[r].pc = "ready", NEW rev \in Revisions,
           rev.codes = head.codes, CommitRevision(r, rev), precedents' = precedents,
           built \subseteq built', built' \in SUBSET (Contents \X Subject),
           signed \subseteq signed', signed' \in SUBSET (Contents \X Subject),
           head.version = request[r].at => Vouched(built', signed', rev)
    PROVE  Effect(r)
  <1>1. /\ request' = [request EXCEPT ![r] = Waiting] /\ setting' = setting /\ left' = left
        /\ Tells(r)
        /\ root' \in Roots
        /\ root'.cascade = root.cascade /\ root'.contracted = root.contracted
        /\ head' \in Revisions /\ crossed \subseteq crossed'
        /\ \/ /\ head.version = request[r].at
              /\ head'.codes = rev.codes /\ head'.estimate = rev.estimate
              /\ head'.builder = rev.builder /\ head'.approval = rev.approval
              /\ head'.workbook = rev.workbook
           \/ head.version # request[r].at /\ head' = head
    BY Committing
  <1>2. Vouched(built', signed', head')
    <2>1. CASE head.version = request[r].at
      <3>1. /\ head'.estimate = rev.estimate
            /\ head'.builder = rev.builder /\ head'.approval = rev.approval
            /\ head'.workbook = rev.workbook
        BY <1>1, <2>1
      <3> QED
        BY <2>1, <3>1 DEF Vouched
    <2>2. CASE head.version # request[r].at
      <3>1. head' = head
        BY <1>1, <2>2
      <3>2. Vouched(built, signed, head)
        BY DEF IInv, Witnessed
      <3>3. built \in SUBSET built' /\ signed \in SUBSET signed'
        OBVIOUS
      <3> QED
        BY <3>1, <3>2, <3>3, VouchedStays
    <2> QED
      BY <2>1, <2>2
  <1>3. CodesAreGrounded'
    <2>1. head'.codes = head.codes
      BY <1>1
    <2> QED
      BY <1>1, <2>1, StaysGrounded
  <1>4. precedents' \in SUBSET Pairs
    BY DEF IInv, Typed
  <1> QED
    BY <1>1, <1>2, <1>3, <1>4 DEF Effect

\* The estimate of a build has its builder; the approval it carries was vouched for when the
\* request read it.
LEMMA EstimateEffect ==
    ASSUME ConstantsAssumption, IInv, NEW r \in Request, CommitEstimate(r)
    PROVE  Effect(r)
  <1>1. request[r].pc = "ready" /\ request[r].act.kind = "build"
    BY DEF CommitEstimate, Ready
  <1>2. PICK act \in Act, view \in Revisions :
           /\ act = request[r].act /\ view = request[r].view
           /\ Vouched(built, signed, view)
    BY <1>1, AtCommit
  <1>3. PICK content : content = [lines |-> view.codes.confirmed,
                                  unpriced |-> view.codes.rejected, bdi |-> act.bdi]
    OBVIOUS
  <1>4. PICK rev : rev = [head EXCEPT !.estimate = content, !.builder = act.by,
                                      !.approval = view.approval]
    OBVIOUS
  <1>5. /\ CommitRevision(r, rev)
        /\ built' = IF head.version = request[r].at
                    THEN built \cup {<<content, act.by>>} ELSE built
        /\ precedents' = precedents /\ signed' = signed
    BY <1>2, <1>3, <1>4 DEF CommitEstimate, CommitRevision
  <1>6. act.bdi \in 0..2 /\ act.by \in Subject
    BY <1>1, <1>2, Bodies
  <1>7. content \in Contents
    BY <1>3, <1>6 DEF Contents, Revisions, Codes
  <1>8. head \in Revisions /\ view.approval \in [by : Subjects, of : Contents]
    BY DEF IInv, Typed, Revisions
  <1>9. /\ rev \in Revisions /\ rev.codes = head.codes /\ rev.estimate = content
        /\ rev.builder = act.by /\ rev.approval = view.approval
        /\ rev.workbook = head.workbook
    BY <1>4, <1>6, <1>7, <1>8 DEF Revisions, Subjects
  <1>10. /\ built \subseteq built' /\ built' \in SUBSET (Contents \X Subject)
         /\ signed \subseteq signed' /\ signed' \in SUBSET (Contents \X Subject)
    BY <1>5, <1>6, <1>7 DEF IInv, Typed
  <1>11. ASSUME head.version = request[r].at PROVE Vouched(built', signed', rev)
    <2>1. <<rev.estimate, rev.builder>> \in built'
      BY <1>5, <1>9, <1>11
    <2>2. built \in SUBSET built' /\ signed \in SUBSET signed'
      BY <1>10
    <2>3. Vouched(built', signed', view)
      BY <1>2, <2>2, VouchedStays
    <2>4. Vouched(built', signed', head)
      BY <2>2, VouchedStays DEF IInv, Witnessed
    <2> QED
      BY <1>9, <2>1, <2>3, <2>4 DEF Vouched
  <1> QED
    BY <1>1, <1>5, <1>9, <1>10, <1>11, NewContents

\* Whoever approves did not build what the request read: four eyes, or four there already.
LEMMA ApprovalEffect ==
    ASSUME ConstantsAssumption, IInv, NEW r \in Request, CommitApproval(r)
    PROVE  Effect(r)
  <1>1. request[r].pc = "ready" /\ request[r].act.kind = "approve"
    BY DEF CommitApproval, Ready
  <1>2. PICK act \in Act, view \in Revisions :
           /\ act = request[r].act /\ view = request[r].view
           /\ Vouched(built, signed, view)
           /\ MayApprove(act.by, view)
    BY <1>1, AtCommit, Accepted
  <1>3. PICK content \in Contents : content = view.estimate
    BY DEF Revisions
  <1>4. PICK rev : rev = [head EXCEPT !.estimate = content,
                                      !.approval = [by |-> act.by, of |-> content]]
    OBVIOUS
  <1>5. /\ CommitRevision(r, rev)
        /\ signed' = IF head.version = request[r].at
                     THEN signed \cup {<<content, act.by>>} ELSE signed
        /\ precedents' = precedents /\ built' = built
    BY <1>2, <1>3, <1>4 DEF CommitApproval, CommitRevision
  <1>6. act.by \in Subject
    BY <1>1, <1>2, Bodies
  <1>7. head \in Revisions
    BY DEF IInv, Typed
  <1>8. [by |-> act.by, of |-> content] \in [by : Subjects, of : Contents]
    BY <1>3, <1>6 DEF Subjects
  <1>9. /\ rev \in Revisions /\ rev.codes = head.codes /\ rev.estimate = content
        /\ rev.builder = head.builder /\ rev.approval.of = content
        /\ rev.workbook = head.workbook
    BY <1>3, <1>4, <1>7, <1>8 DEF Revisions
  <1>10. /\ built \subseteq built' /\ built' \in SUBSET (Contents \X Subject)
         /\ signed \subseteq signed' /\ signed' \in SUBSET (Contents \X Subject)
    BY <1>3, <1>5, <1>6 DEF IInv, Typed
  <1>11. ASSUME head.version = request[r].at PROVE Vouched(built', signed', rev)
    <2>1. <<content, act.by>> \in signed'
      BY <1>5, <1>11
    <2>2. built \in SUBSET built' /\ signed \in SUBSET signed'
      BY <1>10
    <2>3. Vouched(built', signed', view) /\ Vouched(built', signed', head)
      BY <1>2, <2>2, VouchedStays DEF IInv, Witnessed
    <2>4. content # NoContent /\ act.by # view.builder
      BY <1>2, <1>3 DEF MayApprove
    <2>5. FourEyes(built', signed', content)
      <3>1. CASE <<content, view.builder>> \in built'
        BY <2>1, <2>4, <3>1 DEF FourEyes
      <3>2. CASE FourEyes(built', signed', content)
        BY <3>2
      <3> QED
        BY <1>3, <2>3, <2>4, <3>1, <3>2 DEF Vouched
    <2> QED
      BY <1>9, <2>3, <2>5 DEF Vouched
  <1> QED
    BY <1>1, <1>5, <1>9, <1>10, <1>11, NewContents

\* The workbook of what the request read with its own approval.
LEMMA ExportEffect ==
    ASSUME IInv, NEW r \in Request, CommitExport(r)
    PROVE  Effect(r)
  <1>1. request[r].pc = "ready" /\ request[r].act.kind = "export"
    BY DEF CommitExport, Ready
  <1>2. PICK view \in Revisions :
           /\ view = request[r].view
           /\ Vouched(built, signed, view)
           /\ MayExport(view)
    BY <1>1, AtCommit, Accepted
  <1>3. PICK rev : rev = [head EXCEPT !.workbook = view.estimate]
    OBVIOUS
  <1>4. /\ CommitRevision(r, rev)
        /\ precedents' = precedents /\ built' = built /\ signed' = signed
    BY <1>2, <1>3 DEF CommitExport, CommitRevision
  <1>5. head \in Revisions /\ view.estimate \in Contents
    BY DEF IInv, Typed, Revisions
  <1>6. /\ rev \in Revisions /\ rev.codes = head.codes /\ rev.estimate = head.estimate
        /\ rev.builder = head.builder /\ rev.approval = head.approval
        /\ rev.workbook = view.estimate
    BY <1>3, <1>5 DEF Revisions
  <1>7. FourEyes(built, signed, view.estimate) /\ Vouched(built, signed, head)
    BY <1>2 DEF MayExport, Vouched, IInv, Witnessed
  <1>8. Vouched(built', signed', rev)
    BY <1>4, <1>6, <1>7 DEF Vouched
  <1>9. /\ built \subseteq built' /\ built' \in SUBSET (Contents \X Subject)
        /\ signed \subseteq signed' /\ signed' \in SUBSET (Contents \X Subject)
    BY <1>4 DEF IInv, Typed
  <1> QED
    BY <1>1, <1>4, <1>6, <1>8, <1>9, NewContents

-----------------------------------------------------------------------------
(* The round.                                                               *)

\* A request moves on without a commit: it takes what is there.
LEMMA RequestMoves ==
    ASSUME IInv, NEW r \in Request, NEW next \in RequestState,
           request' = [request EXCEPT ![r] = next], setting' = setting,
           left' \in [Kind -> Nat], UNCHANGED <<roundVars, outboxVars>>,
           Served(next),
           next.pc \in {"read", "ready"} => Vouched(built, signed, next.view)
    PROVE  IInv'
  <1>1. /\ root' = root /\ head' = head /\ precedents' = precedents
        /\ built' = built /\ signed' = signed /\ crossed' = crossed
        /\ UNCHANGED outboxVars /\ stored' = stored
    BY DEF roundVars, outboxVars
  <1>2. OInv'
    BY <1>1, OutboxRests DEF IInv
  <1>3. \A q \in Request : request'[q] = IF q = r THEN next ELSE request[q]
    BY DEF IInv, Typed
  <1>4. Typed'
    <2>1. request' \in [Request -> RequestState]
      BY DEF IInv, Typed
    <2> QED
      BY <1>1, <2>1 DEF IInv, Typed
  <1>5. Serving'
    <2> SUFFICES ASSUME NEW q \in Request PROVE Served(request[q])'
      BY DEF Serving
    <2>1. PICK state \in RequestState : state = request'[q]
      BY <1>4 DEF Typed
    <2>2. Served(state)
      BY <1>3, <2>1 DEF IInv, Serving
    <2>3. Len(stored) \in Nat
      BY PlaceInOrder DEF IInv, OInv, OutboxTyped
    <2>4. Served(state)'
      <3>1. Len(stored') = Len(stored) /\ Len(stored') \in Nat /\ Len(stored) <= Len(stored')
        BY <1>1, <2>3
      <3> QED
        BY <2>2, <2>3, <3>1, ServedStays
    <2> QED
      BY <2>1, <2>4 DEF Served, Accepts, Open, MayReject, MayBuild
  <1>6. Witnessed'
    <2> SUFFICES ASSUME NEW q \in Request, request'[q].pc \in {"read", "ready"}
                 PROVE  Vouched(built, signed, request'[q].view)
      BY <1>1 DEF IInv, Witnessed
    <2> QED
      BY <1>3 DEF IInv, Witnessed
  <1>7. CodesAreGrounded'
    BY <1>1, StaysGrounded
  <1> QED
    BY <1>2, <1>4, <1>5, <1>6, <1>7 DEF IInv

LEMMA LoadStep ==
    ASSUME ConstantsAssumption, IInv, NEW r \in Request, NEW act \in Act, Load(r, act)
    PROVE  IInv'
  <1>1. r \in Request
    OBVIOUS
  <1>2. PICK next : next = [Waiting EXCEPT !.pc = "loaded", !.act = act, !.root = root,
                                           !.events = Len(stored)]
    OBVIOUS
  <1>3. Waiting \in RequestState /\ root \in Roots /\ Len(stored) \in Nat
    BY Blank, PlaceInOrder DEF IInv, Typed, OInv, OutboxTyped
  <1>4. /\ next \in RequestState
        /\ next.pc = "loaded" /\ next.act = act /\ next.root = root
        /\ next.events = Len(stored)
    BY <1>2, <1>3 DEF RequestState
  <1>5. Served(next)
    BY <1>3, <1>4 DEF Served
  <1>6. left' \in [Kind -> Nat]
    <2>1. act.kind \in Kind
      BY Bodies
    <2>2. left \in [Kind -> Nat] /\ left[act.kind] > 0
      BY DEF Load, IInv, Typed
    <2>3. left[act.kind] - 1 \in Nat
      BY <2>1, <2>2
    <2> QED
      BY <2>1, <2>2, <2>3 DEF Load
  <1>7. /\ request' = [request EXCEPT ![r] = next] /\ setting' = setting
        /\ UNCHANGED <<roundVars, outboxVars>>
    BY <1>2 DEF Load
  <1> QED
    BY <1>1, <1>4, <1>5, <1>6, <1>7, RequestMoves

LEMMA ReadStep ==
    ASSUME ConstantsAssumption, IInv, NEW r \in Request, Read(r)
    PROVE  IInv'
  <1>1. PICK q \in RequestState : q = request[r]
    BY DEF IInv, Typed
  <1>2. q.pc = "loaded" /\ q.act \in Act /\ q.events <= Len(stored)
    BY <1>1 DEF Read, IInv, Serving, Served
  <1>3. setting' = setting /\ UNCHANGED <<roundVars, outboxVars>>
    BY DEF Read
  <1>4. left \in [Kind -> Nat] /\ head \in Revisions /\ Vouched(built, signed, head)
    BY DEF IInv, Typed, Witnessed
  <1>5. CASE Accepts(q.act, q.root, head)
    <2>1. PICK pc \in {"read", "ready"} :
             request' = [request EXCEPT ![r] = [q EXCEPT !.pc = pc, !.view = head]]
      BY <1>1, <1>5 DEF Read
    <2>2. PICK next : next = [q EXCEPT !.pc = pc, !.view = head]
      OBVIOUS
    <2>3. /\ next \in RequestState /\ next.pc = pc /\ next.view = head
          /\ next.act = q.act /\ next.root = q.root /\ next.events = q.events
      BY <1>4, <2>2 DEF RequestState
    <2>4. request' = [request EXCEPT ![r] = next] /\ left' = left
      BY <1>1, <1>5, <2>1, <2>2 DEF Read
    <2>5. Served(next)
      BY <1>2, <1>5, <2>3 DEF Served
    <2> QED
      BY <1>2, <1>3, <1>4, <2>3, <2>4, <2>5, RequestMoves
  <1>6. CASE ~Accepts(q.act, q.root, head)
    <2>1. /\ request' = [request EXCEPT ![r] = Waiting]
          /\ left' = [left EXCEPT ![q.act.kind] = @ + 1]
      BY <1>1, <1>6 DEF Read
    <2>2. left' \in [Kind -> Nat]
      BY <1>2, <1>4, <2>1, Bodies
    <2>3. Waiting \in RequestState /\ Waiting.pc = "idle" /\ Served(Waiting)
      BY Blank DEF Served
    <2> QED
      BY <1>3, <2>1, <2>2, <2>3, RequestMoves
  <1> QED
    BY <1>5, <1>6

LEMMA CarryStep ==
    ASSUME IInv, NEW r \in Request, Carry(r)
    PROVE  IInv'
  <1>1. PICK q \in RequestState : q = request[r]
    BY DEF IInv, Typed
  <1>2. q.pc = "read" /\ Served(q) /\ Vouched(built, signed, q.view)
    BY <1>1 DEF Carry, IInv, Serving, Witnessed
  <1>3. setting' = setting /\ left' = left /\ UNCHANGED <<roundVars, outboxVars>>
    BY DEF Carry
  <1>4. PICK next : next = [q EXCEPT !.pc = "ready", !.at = head.version]
    OBVIOUS
  <1>5. /\ next \in RequestState /\ next.pc = "ready" /\ next.act = q.act
        /\ next.root = q.root /\ next.view = q.view /\ next.events = q.events
    BY <1>4 DEF RequestState, IInv, Typed, Revisions
  <1>6. request' = [request EXCEPT ![r] = next]
    BY <1>1, <1>4 DEF Carry
  <1>7. Served(next)
    BY <1>2, <1>5 DEF Served
  <1>8. left' \in [Kind -> Nat]
    BY <1>3 DEF IInv, Typed
  <1> QED
    BY <1>2, <1>3, <1>5, <1>6, <1>7, <1>8, RequestMoves

\* A run of the relay leaves the round alone.
LEMMA RelaysStep ==
    ASSUME ConstantsAssumption, IInv, NEW k \in Relay, Relays(k)
    PROVE  IInv'
  <1>1. OInv' /\ stored' = stored
    BY Draining DEF Relays, IInv, ConstantsAssumption
  <1>2. /\ setting' = setting /\ left' = left /\ root' = root /\ head' = head
        /\ precedents' = precedents /\ request' = request
        /\ built' = built /\ signed' = signed /\ crossed' = crossed
    BY DEF Relays, RoundUnchanged, roundVars
  <1>3. Typed' /\ Witnessed'
    BY <1>2 DEF IInv, Typed, Witnessed
  <1>4. CodesAreGrounded'
    BY <1>2, StaysGrounded
  <1>5. Serving'
    <2>1. Len(stored) \in Nat
      BY PlaceInOrder DEF IInv, OInv, OutboxTyped
    <2>2. Len(stored') \in Nat /\ Len(stored) <= Len(stored')
      BY <1>1, <2>1
    <2> QED
      BY <1>2, <2>1, <2>2, ServingStays
  <1> QED
    BY <1>1, <1>3, <1>4, <1>5 DEF IInv

LEMMA InitIsSafe ==
    ASSUME ConstantsAssumption, Init
    PROVE  IInv
  <1>1. OInv
    BY OutboxStarts DEF Init
  <1>2. /\ setting.accepts \in [Kind -> Nat] /\ setting.cascade \in Seq(Source)
    BY DEF Init, ConstantsAssumption
  <1>3. /\ Waiting \in RequestState /\ Waiting.pc = "idle" /\ NoRevision \in Revisions
    BY Blank
  <1>4. Typed
    <2>1. Len(setting.cascade) + 1 \in Nat
      BY <1>2, LenProperties
    <2>2. root \in Roots
      BY <1>2, <2>1 DEF Init, Roots
    <2> QED
      BY <1>2, <1>3, <2>2 DEF Init, Typed
  <1>5. \A r \in Request : request[r] = Waiting
    BY DEF Init
  <1>6. Serving
    BY <1>3, <1>5 DEF Serving, Served
  <1>7. Witnessed
    BY <1>3, <1>5 DEF Witnessed, Vouched, Init, NoRevision, NoApproval
  <1>8. CodesAreGrounded
    BY DEF CodesAreGrounded, ContractedIsClean, CitedIsInstalled, PrecedentIsConfirmed,
       CitedBy, Init, NoRevision, NoCodes
  <1> QED
    BY <1>1, <1>4, <1>6, <1>7, <1>8 DEF IInv

LEMMA NextIsSafe ==
    ASSUME ConstantsAssumption, IInv, [Next]_vars
    PROVE  IInv'
  <1>1. CASE UNCHANGED vars
    <2>1. OInv'
      BY <1>1, OutboxRests DEF vars, IInv
    <2>2. /\ setting' = setting /\ left' = left /\ root' = root /\ head' = head
          /\ precedents' = precedents /\ request' = request
          /\ built' = built /\ signed' = signed /\ crossed' = crossed /\ stored' = stored
      BY <1>1 DEF vars, roundVars, outboxVars
    <2>3. Typed' /\ Witnessed'
      BY <2>2 DEF IInv, Typed, Witnessed
    <2>4. CodesAreGrounded'
      BY <2>2, StaysGrounded
    <2>5. Serving'
      <3>1. Len(stored) \in Nat
        BY PlaceInOrder DEF IInv, OInv, OutboxTyped
      <3>2. Len(stored') \in Nat /\ Len(stored) <= Len(stored')
        BY <2>2, <3>1
      <3> QED
        BY <2>2, <3>1, <3>2, ServingStays
    <2> QED
      BY <2>1, <2>3, <2>4, <2>5 DEF IInv
  <1>2. ASSUME NEW k \in Relay, Relays(k) PROVE IInv'
    BY <1>2, RelaysStep
  <1>3. ASSUME NEW r \in Request, NEW act \in Act, Load(r, act) PROVE IInv'
    BY <1>3, LoadStep
  <1>4. ASSUME NEW r \in Request, Handle(r) PROVE IInv'
    <2>1. CASE Read(r)
      BY <2>1, ReadStep
    <2>2. CASE Carry(r)
      BY <2>2, CarryStep
    <2>3. CASE CommitTarget(r)
      BY <2>3, TargetEffect, CommitStep
    <2>4. CASE CommitRegime(r)
      BY <2>4, RegimeEffect, CommitStep
    <2>5. CASE CommitCascade(r)
      BY <2>5, CascadeEffect, CommitStep
    <2>6. CASE CommitSuggestions(r)
      BY <2>6, SuggestionsEffect, CommitStep
    <2>7. CASE CommitRecompute(r)
      BY <2>7, RecomputeEffect, CommitStep
    <2>8. CASE CommitDecision(r)
      BY <2>8, DecisionEffect, CommitStep
    <2>9. CASE CommitClosure(r)
      BY <2>9, ClosureEffect, CommitStep
    <2>10. CASE CommitRevocation(r)
      BY <2>10, RevocationEffect, CommitStep
    <2>11. CASE CommitEstimate(r)
      BY <2>11, EstimateEffect, CommitStep
    <2>12. CASE CommitApproval(r)
      BY <2>12, ApprovalEffect, CommitStep
    <2>13. CASE CommitExport(r)
      BY <2>13, ExportEffect, CommitStep
    <2> QED
      BY <1>4, <2>1, <2>2, <2>3, <2>4, <2>5, <2>6, <2>7, <2>8, <2>9, <2>10, <2>11, <2>12,
         <2>13 DEF Handle
  <1> QED
    BY <1>1, <1>2, <1>3, <1>4 DEF Next

-----------------------------------------------------------------------------
(* What is proved.                                                          *)

\* The inductive invariant: what every request has in its hands, and what every run of the
\* relay has, is as sound as what is committed.
THEOREM Invariance == Spec => []IInv
  <1>1. Init => IInv
    BY ConstantsAssumption, InitIsSafe
  <1>2. IInv /\ [Next]_vars => IInv'
    BY ConstantsAssumption, NextIsSafe
  <1> QED
    BY <1>1, <1>2, PTL DEF Spec

\* A workbook leaves only with a content somebody built and somebody else signed, for any
\* number of instances committing over each other.
THEOREM FourEyesHold == Spec => []DispatchedUnderFourEyes
  <1>1. IInv => DispatchedUnderFourEyes
    BY DEF IInv, Witnessed, Vouched, FourEyes, DispatchedUnderFourEyes
  <1> QED
    BY <1>1, Invariance, PTL

\* However many instances serve the round, the codes, the cascade, the regime and the index
\* stay in step until an act is written over what it had not read.
THEOREM CodesStayGrounded == Spec => []CodesAreGrounded
  <1>1. IInv => CodesAreGrounded
    BY DEF IInv
  <1> QED
    BY <1>1, Invariance, PTL

\* However many runs of the relay overlap, die or are refused, and however late an event is
\* stored, the broker never hears of an event before those its transaction had seen.
THEOREM DeliveryInOrder == Spec => []DeliveredInOrder
  <1>1. IInv => DeliveredInOrder
    <2> SUFFICES ASSUME IInv, NEW i \in DOMAIN delivered, NEW j \in DOMAIN delivered,
                        delivered[j] <= seen[delivered[i]]
                 PROVE  j < i
      BY DEF DeliveredInOrder, Outbox!DeliveredInOrder
    <2>1. /\ delivered[i] \in Events /\ delivered[j] \in Events
          /\ \A f \in 1..seen[delivered[i]] :
                \E m \in DOMAIN delivered : m < i /\ delivered[m] = f
          /\ \A m, l \in DOMAIN delivered : delivered[m] = delivered[l] => m = l
      BY DEF IInv, OInv, OutboxTyped, Told
    <2>2. seen[delivered[i]] \in Nat
      <3>1. seen \in Seq(Nat) /\ Len(seen) = Len(stored)
        BY DEF IInv, OInv, OutboxTyped
      <3> QED
        BY <2>1, <3>1, ElementOfSeq DEF Events
    <2>3. delivered[j] \in 1..seen[delivered[i]]
      BY <2>1, <2>2 DEF Events
    <2>4. PICK m \in DOMAIN delivered : m < i /\ delivered[m] = delivered[j]
      BY <2>1, <2>3
    <2> QED
      BY <2>1, <2>4
  <1> QED
    BY <1>1, Invariance, PTL

\* Under an approval no code leaves and no closure falls, and with every package closed no
\* code moves, however many instances serve the round, as long as no decision is written over
\* codes or an approval it had not read.
THEOREM SignedCodesStand == Spec => SignedCodesHold
  <1> DEFINE Holds ==
        "codes" \notin crossed' /\ head.approval # NoApproval =>
          /\ head.codes.confirmed \subseteq head'.codes.confirmed
          /\ Closed(head.codes) \subseteq Closed(head'.codes)
          /\ setting.items \subseteq Closed(head.codes) => head'.codes = head.codes
  <1>1. ASSUME IInv, [Next]_vars PROVE [Holds]_vars
    <2> SUFFICES ASSUME Next PROVE Holds
      BY <1>1
    <2>1. head'.codes = head.codes => Holds
      BY DEF Closed
    <2>2. ASSUME NEW r \in Request, Handle(r) PROVE Holds
      <3>1. CASE Read(r) \/ Carry(r) \/ CommitTarget(r) \/ CommitRegime(r) \/ CommitCascade(r)
        <4>1. head' = head
          BY <3>1 DEF Read, Carry, CommitTarget, CommitRegime, CommitCascade, roundVars
        <4> QED
          BY <2>1, <4>1
      <3>2. CASE CommitSuggestions(r) \/ CommitRecompute(r) \/ CommitEstimate(r)
                 \/ CommitApproval(r) \/ CommitExport(r)
        <4>1. head \in Revisions
          BY <1>1 DEF IInv, Typed
        <4>2. head'.codes = head.codes
          BY <3>2, <4>1 DEF CommitSuggestions, CommitRecompute, CommitEstimate,
             CommitApproval, CommitExport, CommitRevision, Revisions
        <4> QED
          BY <2>1, <4>2
      <3>3. CASE CommitDecision(r) \/ CommitClosure(r) \/ CommitRevocation(r)
        <4>1. request[r].pc = "ready" /\ request[r].act.kind \in OfTheCodes
          BY <3>3 DEF CommitDecision, CommitClosure, CommitRevocation, Ready, OfTheCodes
        <4>2. CASE head.version # request[r].at
          <5>1. head' = head
            BY <3>3, <4>2 DEF CommitDecision, CommitClosure, CommitRevocation, CommitRevision
          <5> QED
            BY <2>1, <5>1
        <4>3. CASE head.version = request[r].at
          <5>1. crossed' = crossed \cup Crosses(r)
            BY <3>3, <4>3 DEF CommitDecision, CommitClosure, CommitRevocation, CommitRevision
          <5> SUFFICES ASSUME "codes" \notin crossed', head.approval # NoApproval
                       PROVE  Holds
            OBVIOUS
          <5>2. PICK act \in Act, base \in Roots, rev \in Revisions :
                   /\ act = request[r].act /\ base = request[r].root /\ rev = request[r].view
                   /\ Accepts(act, base, rev)
            BY <1>1, <4>1, AtCommit
          <5>3. rev.codes = head.codes /\ rev.approval = head.approval
            BY <4>1, <5>1, <5>2, Uncrossed
          <5>4. act.kind # "revoke"
            BY <5>2, <5>3, Accepted DEF MayRevoke
          <5>5. Open(act.item, head.codes, base.cascade)
            BY <4>1, <5>2, <5>3, <5>4, Accepted DEF MayReject, OfTheCodes
          <5>6. act.item \in setting.items /\ act.item \notin Closed(head.codes)
            BY <5>5 DEF Open
          <5>7. PICK codes \in Codes : codes = head.codes
            BY <5>3 DEF Revisions
          <5>8. /\ codes.confirmed \subseteq head'.codes.confirmed
                /\ codes.closed \subseteq head'.codes.closed
                /\ codes.rejected \subseteq head'.codes.rejected
            <6>1. CASE CommitDecision(r)
              <7>1. PICK base1, next :
                       /\ \/ next = [[codes EXCEPT !.anchor = base1] EXCEPT
                                      !.confirmed = @ \cup {<<act.item, act.source>>}]
                          \/ next = [[codes EXCEPT !.anchor = base1] EXCEPT
                                      !.rejected = @ \cup {act.item}]
                       /\ CommitRevision(r, [head EXCEPT !.codes = next])
                BY <5>2, <5>3, <5>7, <6>1 DEF CommitDecision, CommitRevision
              <7>2. head'.codes = next
                BY <1>1, <4>3, <7>1 DEF CommitRevision, IInv, Typed, Revisions
              <7> QED
                BY <7>1, <7>2 DEF Codes
            <6>2. CASE CommitClosure(r)
              <7>1. PICK next :
                       /\ next = [codes EXCEPT !.closed = @ \cup {act.item}]
                       /\ CommitRevision(r, [head EXCEPT !.codes = next])
                BY <5>2, <5>3, <5>7, <6>2 DEF CommitClosure, CommitRevision
              <7>2. head'.codes = next
                BY <1>1, <4>3, <7>1 DEF CommitRevision, IInv, Typed, Revisions
              <7> QED
                BY <7>1, <7>2 DEF Codes
            <6>3. ~CommitRevocation(r)
              BY <5>2, <5>4 DEF CommitRevocation, Ready
            <6> QED
              BY <3>3, <6>1, <6>2, <6>3
          <5> QED
            BY <5>6, <5>7, <5>8 DEF Closed
        <4> QED
          BY <4>2, <4>3
      <3> QED
        BY <2>2, <3>1, <3>2, <3>3 DEF Handle
    <2>3. ASSUME NEW r \in Request, NEW act \in Act, Load(r, act) PROVE head' = head
      BY <2>3 DEF Load, roundVars
    <2>4. ASSUME NEW k \in Relay, Relays(k) PROVE head' = head
      BY <2>4 DEF Relays, RoundUnchanged, roundVars
    <2> QED
      BY <2>1, <2>2, <2>3, <2>4 DEF Next
  <1> QED
    BY <1>1, Invariance, PTL DEF Spec, SignedCodesHold
=============================================================================
