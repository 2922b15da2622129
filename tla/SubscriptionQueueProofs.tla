------------------------ MODULE SubscriptionQueueProofs ------------------------
(***************************************************************************)
(* Proofs about SubscriptionQueue, for every max_pending and any number of *)
(* events and control items.                                               *)
(***************************************************************************)
EXTENDS SubscriptionQueue, FiniteSetTheorems, FunctionTheorems, SequenceTheorems, TLAPS

USE PendingAssumption, QueueBoundAssumption
USE DEF readerVars, consumerVars

-------------------------------------------------------------------------------
(* Counting the items of a kind in a sequence.                             *)

LEMMA PositionsFinite ==
    ASSUME NEW k, NEW s \in Seq(Items)
    PROVE  /\ IsFiniteSet(Positions(k, s)) /\ Count(k, s) \in Nat
           /\ Count(k, s) <= Len(s)
<1>1. DOMAIN s = 1..Len(s) /\ Len(s) \in Nat
  BY LenProperties
<1>2. IsFiniteSet(1..Len(s)) /\ Cardinality(1..Len(s)) = Len(s)
  BY <1>1, FS_Interval, SMTT(60)
<1>3. Positions(k, s) \subseteq 1..Len(s)
  BY <1>1 DEF Positions
<1>4. IsFiniteSet(Positions(k, s)) /\ Cardinality(Positions(k, s)) <= Len(s)
  BY <1>2, <1>3, FS_Subset
<1> QED
  BY <1>4, FS_CardinalityType DEF Count

LEMMA CountEmpty == ASSUME NEW k PROVE Count(k, <<>>) = 0
<1>1. Positions(k, <<>>) = {}
  BY DEF Positions
<1> QED
  BY <1>1, FS_EmptySet DEF Count

LEMMA CountAppend ==
    ASSUME NEW k, NEW s \in Seq(Items), NEW e \in Items
    PROVE  Count(k, Append(s, e)) = Count(k, s) + (IF e.kind = k THEN 1 ELSE 0)
<1> DEFINE t == Append(s, e)
           n == Len(s) + 1
<1>1. /\ DOMAIN s = 1..Len(s) /\ DOMAIN t = 1..n /\ Len(s) \in Nat
      /\ \A i \in 1..Len(s) : t[i] = s[i]
      /\ t[n] = e
  BY LenProperties, AppendProperties
<1>2. CASE e.kind = k
  <2>1. Positions(k, t) = Positions(k, s) \cup {n}
    BY <1>1, <1>2 DEF Positions
  <2>2. n \notin Positions(k, s)
    BY <1>1 DEF Positions
  <2>3. Cardinality(Positions(k, t)) = Cardinality(Positions(k, s)) + 1
    BY <2>1, <2>2, PositionsFinite, FS_AddElement
  <2> QED
    BY <1>2, <2>3 DEF Count
<1>3. CASE e.kind # k
  <2>1. Positions(k, t) = Positions(k, s)
    BY <1>1, <1>3 DEF Positions
  <2> QED
    BY <1>3, <2>1, PositionsFinite DEF Count
<1> QED
  BY <1>2, <1>3

LEMMA CountTail ==
    ASSUME NEW k, NEW s \in Seq(Items), s # <<>>
    PROVE  Count(k, s) = Count(k, Tail(s)) + (IF Head(s).kind = k THEN 1 ELSE 0)
<1> DEFINE t == Tail(s)
           P == Positions(k, s) \ {1}
           shift == [i \in Positions(k, t) |-> i + 1]
<1>1. /\ DOMAIN s = 1..Len(s) /\ Len(s) \in Nat \ {0}
      /\ t \in Seq(Items) /\ DOMAIN t = 1..(Len(s) - 1)
      /\ \A i \in 1..(Len(s) - 1) : t[i] = s[i + 1]
      /\ Head(s) = s[1]
  BY LenProperties, HeadTailProperties, EmptySeq
<1>2. Positions(k, t) \subseteq Nat /\ P = {i + 1 : i \in Positions(k, t)}
  <2>1. ASSUME NEW i \in P PROVE i - 1 \in Positions(k, t)
    BY <1>1, <2>1 DEF Positions
  <2>2. \A i \in Positions(k, t) : i + 1 \in P
    BY <1>1 DEF Positions
  <2>3. P \subseteq Nat /\ Positions(k, t) \subseteq Nat
    BY <1>1 DEF Positions
  <2>4. \A i \in P : i = (i - 1) + 1
    BY <2>3
  <2> QED
    BY <2>1, <2>2, <2>3, <2>4
<1>3. shift \in Bijection(Positions(k, t), P)
  <2>1. shift \in [Positions(k, t) -> P]
    BY <1>2
  <2>2. \A i, j \in Positions(k, t) : shift[i] = shift[j] => i = j
    BY <1>2
  <2>3. \A p \in P : \E i \in Positions(k, t) : shift[i] = p
    BY <1>2
  <2> QED
    BY <2>1, <2>2, <2>3 DEF Bijection, Injection, IsInjective, Surjection
<1>4. IsFiniteSet(P) /\ Cardinality(P) = Count(k, t)
  <2>1. ExistsBijection(Positions(k, t), P)
    BY <1>3 DEF ExistsBijection
  <2> QED
    BY <1>1, <2>1, PositionsFinite, FS_Bijection, ZenonT(60) DEF Count
<1>5. CASE Head(s).kind = k
  <2>1. 1 \in Positions(k, s)
    BY <1>1, <1>5 DEF Positions
  <2>2. Cardinality(P) = Cardinality(Positions(k, s)) - 1
    BY <2>1, PositionsFinite, FS_RemoveElement
  <2> QED
    BY <1>4, <1>5, <2>2, PositionsFinite DEF Count
<1>6. CASE Head(s).kind # k
  <2>1. P = Positions(k, s)
    BY <1>1, <1>6 DEF Positions
  <2>2. Count(k, s) = Count(k, t) /\ Count(k, t) \in Nat
    BY <1>1, <1>4, <2>1, PositionsFinite DEF Count
  <2> QED
    BY <1>6, <2>2
<1> QED
  BY <1>5, <1>6

-------------------------------------------------------------------------------
(* Types, the bound and the count.                                         *)

InHand == offer.pc \in {"check", "full", "room", "put"}

\* Once the reader has found room for its event, there is room until it puts
\* it: nobody else puts events.
RoomLeft == offer.pc \in {"room", "put"} => Count("event", buffer) < MaxPending

\* The event in the reader's hand is the latest.
Latest == offer.n = arrivals

CountInv == TypeOK /\ EventsBounded /\ EveryEventCounted /\ RoomLeft /\ Latest

\* What is put into a queue.
LEMMA ItemTypes ==
    /\ \A n \in Nat : Event(n) \in Items /\ Event(n).kind = "event" /\ Event(n).n = n
    /\ Marker \in Items /\ Marker.kind = "overflow"
    /\ Control \in Items /\ Control.kind = "control"
    /\ \A k \in {"stop", "lost"} : Final(k) \in Items /\ Final(k).kind = k
  BY DEF Items, Event, Marker, Control, Final

LEMMA InitCountInv == Init => CountInv
<1> SUFFICES ASSUME Init PROVE CountInv
  OBVIOUS
<1>1. TypeOK
  <2>1. open \in BOOLEAN /\ finished \in BOOLEAN /\ drained \in BOOLEAN
    BY Zenon DEF Init
  <2> QED
    BY <2>1, EmptySeq DEF Init, TypeOK
<1> QED
  BY <1>1, CountEmpty DEF Init, CountInv, EventsBounded, EveryEventCounted, RoomLeft,
         Latest

\* The flags stay Boolean.
LEMMA FlagTypes ==
    TypeOK /\ [Next]_vars =>
        open' \in BOOLEAN /\ finished' \in BOOLEAN /\ drained' \in BOOLEAN
<1> SUFFICES ASSUME TypeOK, [Next]_vars
             PROVE  open' \in BOOLEAN /\ finished' \in BOOLEAN /\ drained' \in BOOLEAN
  OBVIOUS
<1>1. open' \in BOOLEAN
  BY Zenon DEF TypeOK, Next, vars, Arrive, FrameDone, OfferCheck, OfferDrop, OfferSettle,
         OfferPut, PutControl, Pop, PutLast, Close, EnterNext, Get
<1>2. finished' \in BOOLEAN
  BY Zenon DEF TypeOK, Next, vars, Arrive, FrameDone, OfferCheck, OfferDrop, OfferSettle,
         OfferPut, PutControl, Pop, PutLast, Close, EnterNext, Get
<1>3. drained' \in BOOLEAN
  BY Zenon DEF TypeOK, Next, vars, Arrive, FrameDone, OfferCheck, OfferDrop, OfferSettle,
         OfferPut, PutControl, Pop, PutLast, Close, EnterNext, Get
<1> QED
  BY <1>1, <1>2, <1>3

\* The counts of the two sequences are naturals.
LEMMA CountTypes ==
    TypeOK => /\ Count("event", buffer) \in Nat /\ Count("event", taken) \in Nat
              /\ Count("event", buffer) <= Len(buffer)
  BY PositionsFinite DEF TypeOK

\* Items other than events leave the count as it is.
LEMMA AppendOther ==
    ASSUME TypeOK
    PROVE  /\ Append(buffer, Marker) \in Seq(Items) /\ Append(buffer, Control) \in Seq(Items)
           /\ \A k \in {"stop", "lost"} : Append(buffer, Final(k)) \in Seq(Items)
           /\ Count("event", Append(buffer, Marker)) = Count("event", buffer)
           /\ Count("event", Append(buffer, Control)) = Count("event", buffer)
           /\ \A k \in {"stop", "lost"} :
                 Count("event", Append(buffer, Final(k))) = Count("event", buffer)
<1>1. buffer \in Seq(Items) /\ Count("event", buffer) \in Nat
  BY PositionsFinite DEF TypeOK
<1>2. ASSUME NEW e \in Items, e.kind # "event"
      PROVE  /\ Append(buffer, e) \in Seq(Items)
             /\ Count("event", Append(buffer, e)) = Count("event", buffer)
  <2>1. Append(buffer, e) \in Seq(Items)
    BY <1>1, AppendProperties
  <2>2. Count("event", Append(buffer, e)) = Count("event", buffer) + 0
    BY <1>1, <1>2, CountAppend
  <2> QED
    BY <1>1, <2>1, <2>2
<1> QED
  BY <1>2, ItemTypes

LEMMA NextCountInv == CountInv /\ [Next]_vars => CountInv'
<1> SUFFICES ASSUME CountInv, [Next]_vars PROVE CountInv'
  OBVIOUS
<1>0. open' \in BOOLEAN /\ finished' \in BOOLEAN /\ drained' \in BOOLEAN
  BY FlagTypes DEF CountInv
<1>c. /\ Count("event", buffer) \in Nat /\ Count("event", taken) \in Nat
      /\ Count("event", buffer) <= Len(buffer)
  BY CountTypes DEF CountInv
<1> USE <1>0, <1>c
<1> USE DEF CountInv, TypeOK, EventsBounded, EveryEventCounted, RoomLeft, Latest, At
<1>1. CASE Arrive
  BY <1>1, SMTT(60) DEF Arrive
<1>2. CASE FrameDone
  BY <1>2 DEF FrameDone
<1>3. CASE OfferCheck
  <2>1. offer' = At("full") \/ (Len(buffer) < MaxPending /\ offer' = At("room"))
    <3>1. Len(buffer) \in Nat
      BY LenProperties
    <3>2. CASE Len(buffer) >= MaxPending
      BY <1>3, <3>2 DEF OfferCheck
    <3>3. CASE ~(Len(buffer) >= MaxPending)
      <4>1. offer' = At("room")
        BY <1>3, <3>3 DEF OfferCheck
      <4> QED
        BY <3>1, <3>3, <4>1
    <3> QED
      BY <3>2, <3>3
  <2>2. /\ offer.pc = "check"
        /\ UNCHANGED <<buffer, dropped, firstLost, arrivals, taken, consumer, stream, controls>>
    BY <1>3, Zenon DEF OfferCheck, consumerVars
  <2> QED
    BY <2>1, <2>2, SMTT(60)
<1>4. CASE OfferDrop
  <2>1. buffer' = buffer \/ buffer' = Append(buffer, Marker)
    BY <1>4, Zenon DEF OfferDrop
  <2>2. buffer' \in Seq(Items) /\ Count("event", buffer') = Count("event", buffer)
    BY <2>1, AppendOther
  <2>3. dropped + 1 <= MaxArrivals
    BY <1>4, SMTT(60) DEF OfferDrop
  <2>4. /\ offer.pc = "full" /\ offer' = At("frame") /\ dropped' = dropped + 1
        /\ firstLost' \in {firstLost, offer.n}
        /\ UNCHANGED <<arrivals, taken, consumer, stream, controls>>
    BY <1>4, Zenon DEF OfferDrop
  <2>5. TypeOK'
    <3>1. dropped' \in 0..MaxArrivals /\ firstLost' \in 0..MaxArrivals
      BY <2>3, <2>4, SMTT(60)
    <3> QED
      BY <2>2, <2>4, <3>1
  <2>6. EventsBounded' /\ RoomLeft' /\ Latest'
    BY <2>2, <2>3, <2>4
  <2>7. EveryEventCounted'
    BY <2>2, <2>3, <2>4, SMTT(60)
  <2> QED
    BY <2>5, <2>6, <2>7
<1>5. CASE OfferSettle
  BY <1>5 DEF OfferSettle
<1>6. CASE OfferPut
  <2>1. buffer' \in Seq(Items) /\ Count("event", buffer') = Count("event", buffer) + 1
    BY <1>6, ItemTypes, AppendProperties, CountAppend DEF OfferPut
  <2>2. /\ offer.pc = "put" /\ offer' = At("frame")
        /\ UNCHANGED <<dropped, firstLost, arrivals, taken, consumer, stream, controls>>
    BY <1>6, Zenon DEF OfferPut
  <2>3. TypeOK'
    BY <2>1, <2>2
  <2>4. EventsBounded' /\ RoomLeft' /\ Latest'
    BY <2>1, <2>2
  <2>5. EveryEventCounted'
    BY <2>1, <2>2, SMTT(60)
  <2> QED
    BY <2>3, <2>4, <2>5
<1>7. CASE PutControl
  <2>1. buffer' \in Seq(Items) /\ Count("event", buffer') = Count("event", buffer)
    <3>1. buffer' = Append(buffer, Control)
      BY <1>7, Zenon DEF PutControl
    <3> QED
      BY <3>1, AppendOther
  <2> QED
    BY <1>7, <2>1 DEF PutControl
<1>8. ASSUME NEW k \in {"stop", "lost"}, Pop(k) PROVE CountInv'
  BY <1>8 DEF Pop
<1>9. CASE PutLast
  <2>1. buffer' \in Seq(Items) /\ Count("event", buffer') = Count("event", buffer)
    <3>1. stream \in {"stop", "lost"} /\ buffer' = Append(buffer, Final(stream))
      BY <1>9, Zenon DEF PutLast
    <3> QED
      BY <3>1, AppendOther
  <2> QED
    BY <1>9, <2>1 DEF PutLast
<1>10. CASE Close
  BY <1>10 DEF Close
<1>11. CASE EnterNext
  BY <1>11 DEF EnterNext
<1>12. CASE Get
  <2>1. Head(buffer) \in Items /\ buffer' \in Seq(Items)
    BY <1>12, HeadTailProperties DEF Get
  <2>2. Count("event", buffer) = Count("event", buffer')
                                   + (IF Head(buffer).kind = "event" THEN 1 ELSE 0)
    BY <1>12, CountTail DEF Get
  <2>3. Append(taken, Head(buffer)) \in Seq(Items)
    BY <2>1, AppendProperties
  <2>4. Count("event", taken') = Count("event", taken)
                                   + (IF Head(buffer).kind = "event" THEN 1 ELSE 0)
    BY <1>12, <2>1, CountAppend, SMTT(60) DEF Get
  <2>5. /\ taken' \in Seq(Items)
        /\ Count("event", buffer') \in Nat /\ Count("event", taken') \in Nat
    BY <1>12, <2>1, <2>3, PositionsFinite DEF Get
  <2>6. consumer' = "out" /\ UNCHANGED <<offer, dropped, firstLost, arrivals, stream, controls>>
    BY <1>12, Zenon DEF Get
  <2>n. Count("event", buffer') <= Count("event", buffer)
    BY <2>2, <2>5, SMTT(60)
  <2>7. TypeOK'
    <3>1. buffer' \in Seq(Items)
      BY <2>1
    <3> QED
      BY <2>5, <2>6, <3>1
  <2>8. EventsBounded' /\ RoomLeft' /\ Latest'
    BY <2>n, <2>5, <2>6, SMTT(60)
  <2>9. EveryEventCounted'
    <3>1. Count("event", buffer') + Count("event", taken')
             = Count("event", buffer) + Count("event", taken)
      <4> HIDE DEF CountInv, TypeOK, EventsBounded, EveryEventCounted, RoomLeft, Latest, At
      <4> QED
        BY <2>2, <2>4, <2>5
    <3>2. dropped \in Nat /\ arrivals \in Nat /\ EveryEventCounted
      OBVIOUS
    <3> HIDE DEF CountInv, TypeOK, EventsBounded, RoomLeft, Latest, At
    <3> QED
      BY <2>5, <2>6, <3>1, <3>2, SMTT(60)
  <2> QED
    BY <2>7, <2>8, <2>9
<1>13. CASE UNCHANGED vars
  BY <1>13 DEF vars
<1> QED
  BY <1>1, <1>2, <1>3, <1>4, <1>5, <1>6, <1>7, <1>8, <1>9, <1>10, <1>11, <1>12, <1>13
  DEF Next

-------------------------------------------------------------------------------
(* The place of the marker in the stream: what the consumer was given, then *)
(* what is buffered.                                                       *)

\* The marker of the episode whose first lost event is f stands in its place.
Placed(all, f) ==
    \E m \in DOMAIN all :
       /\ all[m] = Marker
       /\ \A i \in DOMAIN all : all[i].kind = "event" =>
             IF all[i].n < f THEN i < m ELSE i > m

\* The events of a sequence are among the first n.
Upto(s, n) == \A i \in DOMAIN s : s[i].kind = "event" => s[i].n <= n

\* How many events the reader has put or dropped.
Dealt == IF InHand THEN arrivals - 1 ELSE arrivals

StreamInv == /\ Upto(taken, Dealt) /\ Upto(buffer, Dealt)
             /\ firstLost <= Dealt
             /\ MarkerInPlace

\* A marker keeps its place when anything but an earlier event follows.
LEMMA PlacedAppend ==
    ASSUME NEW s \in Seq(Items), NEW e \in Items, NEW f \in Nat, Placed(s, f),
           e.kind = "event" => e.n > f
    PROVE  Placed(Append(s, e), f)
<1> DEFINE t == Append(s, e)
<1>1. /\ DOMAIN s = 1..Len(s) /\ DOMAIN t = 1..(Len(s) + 1) /\ Len(s) \in Nat
      /\ \A i \in 1..Len(s) : t[i] = s[i]
      /\ t[Len(s) + 1] = e
  BY LenProperties, AppendProperties
<1>2. PICK m \in DOMAIN s :
          /\ s[m] = Marker
          /\ \A i \in DOMAIN s : s[i].kind = "event" =>
                IF s[i].n < f THEN i < m ELSE i > m
  BY DEF Placed
<1>3. m \in DOMAIN t /\ t[m] = Marker
  BY <1>1, <1>2
<1>4. ASSUME NEW i \in DOMAIN t, t[i].kind = "event"
      PROVE  IF t[i].n < f THEN i < m ELSE i > m
  <2>1. CASE i \in DOMAIN s
    BY <1>1, <1>2, <1>4, <2>1
  <2>2. CASE i = Len(s) + 1
    <3>1. ~(t[i].n < f) /\ i > m
      BY <1>1, <1>4, <2>2 DEF Items
    <3> QED
      BY <3>1
  <2> QED
    BY <1>1, <2>1, <2>2
<1> QED
  BY <1>3, <1>4 DEF Placed

\* A marker put after earlier events only is in its place.
LEMMA PlacedFresh ==
    ASSUME NEW s \in Seq(Items), NEW f \in Nat,
           \A i \in DOMAIN s : s[i].kind = "event" => s[i].n < f
    PROVE  Placed(Append(s, Marker), f)
<1> DEFINE t == Append(s, Marker)
<1>1. /\ DOMAIN s = 1..Len(s) /\ DOMAIN t = 1..(Len(s) + 1) /\ Len(s) \in Nat
      /\ \A i \in 1..Len(s) : t[i] = s[i]
      /\ t[Len(s) + 1] = Marker
  BY ItemTypes, LenProperties, AppendProperties
<1>2. \A i \in DOMAIN t : t[i].kind = "event" => t[i].n < f /\ i < Len(s) + 1
  BY <1>1, ItemTypes
<1> QED
  BY <1>1, <1>2 DEF Placed

\* The two sequences the stream is made of.
LEMMA Joined ==
    ASSUME NEW a \in Seq(Items), NEW b \in Seq(Items)
    PROVE  /\ a \o b \in Seq(Items)
           /\ Len(a) \in Nat /\ Len(b) \in Nat
           /\ DOMAIN (a \o b) = 1..(Len(a) + Len(b))
           /\ \A i \in 1..(Len(a) + Len(b)) :
                 (a \o b)[i] = IF i <= Len(a) THEN a[i] ELSE b[i - Len(a)]
  BY ConcatProperties, LenProperties

LEMMA JoinedAppend ==
    ASSUME NEW a \in Seq(Items), NEW b \in Seq(Items), NEW e \in Items
    PROVE  a \o Append(b, e) = Append(a \o b, e)
<1>1. Append(b, e) = b \o <<e>> /\ Append(a \o b, e) = (a \o b) \o <<e>>
  BY Joined, AppendIsConcat
<1>2. <<e>> \in Seq(Items)
  OBVIOUS
<1> QED
  BY <1>1, <1>2, ConcatAssociative

\* What get() takes and the consumer is given stays in its place in the stream.
LEMMA JoinedMove ==
    ASSUME NEW a \in Seq(Items), NEW b \in Seq(Items), b # <<>>
    PROVE  Append(a, Head(b)) \o Tail(b) = a \o b
<1> DEFINE h == <<Head(b)>>
<1>1. h \in Seq(Items) /\ Tail(b) \in Seq(Items) /\ Head(b) \in Items
  BY HeadTailProperties
<1>2. h \o Tail(b) = b
  BY HeadTailProperties
<1>3. Append(a, Head(b)) = a \o h
  BY <1>1, AppendIsConcat
<1> QED
  BY <1>1, <1>2, <1>3, ConcatAssociative, SMTT(60)

\* A control or terminal item that get() takes out moves what follows it up.
LEMMA PlacedTake ==
    ASSUME NEW a \in Seq(Items), NEW b \in Seq(Items), b # <<>>, NEW f \in Nat,
           Head(b).kind \notin {"event", "overflow"}, Placed(a \o b, f)
    PROVE  Placed(a \o Tail(b), f)
<1> DEFINE s == a \o b
           t == a \o Tail(b)
           n == Len(a)
           k == Len(b)
<1>1. /\ Tail(b) \in Seq(Items) /\ Len(Tail(b)) = k - 1 /\ k \in Nat \ {0} /\ n \in Nat
      /\ \A i \in 1..(k - 1) : Tail(b)[i] = b[i + 1]
      /\ Head(b) = b[1]
  BY HeadTailProperties, LenProperties, EmptySeq
<1>2. DOMAIN s = 1..(n + k) /\ DOMAIN t = 1..(n + k - 1)
  BY <1>1, Joined
<1>3. \A i \in DOMAIN t : t[i] = IF i <= n THEN s[i] ELSE s[i + 1]
  <2>1. \A i \in DOMAIN s : s[i] = IF i <= n THEN a[i] ELSE b[i - n]
    BY <1>1, <1>2, Joined
  <2>2. \A i \in DOMAIN t : t[i] = IF i <= n THEN a[i] ELSE Tail(b)[i - n]
    BY <1>1, <1>2, Joined
  <2> TAKE i \in DOMAIN t
  <2>3. CASE i <= n
    BY <1>1, <1>2, <2>1, <2>2, <2>3
  <2>4. CASE i > n
    <3>1. i - n \in 1..(k - 1) /\ i + 1 \in DOMAIN s /\ i + 1 - n = (i - n) + 1
      BY <1>1, <1>2, <2>4, SMTT(60)
    <3> QED
      BY <1>1, <1>2, <2>1, <2>2, <2>4, <3>1, SMTT(60)
  <2> QED
    BY <1>1, <1>2, <2>3, <2>4, SMTT(60)
<1>4. s[n + 1] = Head(b)
  BY <1>1, Joined
<1>5. PICK m \in DOMAIN s :
          /\ s[m] = Marker
          /\ \A i \in DOMAIN s : s[i].kind = "event" =>
                IF s[i].n < f THEN i < m ELSE i > m
  BY DEF Placed
<1>6. m # n + 1
  BY <1>4, <1>5, ItemTypes
<1> DEFINE m2 == IF m <= n THEN m ELSE m - 1
<1>7. m2 \in DOMAIN t /\ t[m2] = Marker
  BY <1>1, <1>2, <1>3, <1>5, <1>6, SMTT(60)
<1>8. ASSUME NEW i \in DOMAIN t, t[i].kind = "event"
      PROVE  IF t[i].n < f THEN i < m2 ELSE i > m2
  <2>1. CASE i <= n
    <3>1. i \in DOMAIN s /\ t[i] = s[i]
      BY <1>1, <1>2, <1>3, <2>1
    <3>2. IF t[i].n < f THEN i < m ELSE i > m
      BY <1>5, <1>8, <3>1
    <3> QED
      BY <1>1, <1>2, <1>6, <2>1, <3>2
  <2>2. CASE i > n
    <3>1. i + 1 \in DOMAIN s /\ t[i] = s[i + 1]
      BY <1>1, <1>2, <1>3, <2>2, SMTT(60)
    <3>2. IF t[i].n < f THEN i + 1 < m ELSE i + 1 > m
      BY <1>5, <1>8, <3>1
    <3> QED
      BY <1>1, <1>2, <1>6, <2>2, <3>2, SMTT(60)
  <2> QED
    BY <1>1, <1>2, <2>1, <2>2, SMTT(60)
<1> QED
  BY <1>7, <1>8 DEF Placed

\* Sequences with events among the first n.
LEMMA UptoAppend ==
    ASSUME NEW s \in Seq(Items), NEW e \in Items, NEW n \in Nat, NEW m \in Nat,
           Upto(s, n), n <= m, e.kind = "event" => e.n <= m
    PROVE  Upto(Append(s, e), m)
<1>1. /\ DOMAIN s = 1..Len(s) /\ DOMAIN Append(s, e) = 1..(Len(s) + 1)
      /\ Len(s) \in Nat /\ Append(s, e)[Len(s) + 1] = e
      /\ \A i \in 1..Len(s) : Append(s, e)[i] = s[i] /\ s[i] \in Items
  BY LenProperties, AppendProperties, ElementOfSeq
<1> QED
  BY <1>1 DEF Upto, Items

LEMMA UptoTail ==
    ASSUME NEW s \in Seq(Items), s # <<>>, NEW n \in Nat, Upto(s, n)
    PROVE  /\ Upto(Tail(s), n)
           /\ Head(s).kind = "event" => Head(s).n <= n
<1>1. /\ DOMAIN s = 1..Len(s) /\ Len(s) \in Nat \ {0} /\ Head(s) = s[1]
      /\ DOMAIN Tail(s) = 1..(Len(s) - 1)
      /\ \A i \in 1..(Len(s) - 1) : Tail(s)[i] = s[i + 1]
  BY LenProperties, HeadTailProperties, EmptySeq
<1> QED
  BY <1>1 DEF Upto

LEMMA NumbersAreNatural ==
    ASSUME NEW s \in Seq(Items)
    PROVE  /\ DOMAIN s = 1..Len(s) /\ Len(s) \in Nat
           /\ \A i \in 1..Len(s) : s[i].n \in Nat
<1>1. DOMAIN s = 1..Len(s) /\ Len(s) \in Nat
  BY LenProperties
<1>2. ASSUME NEW i \in 1..Len(s) PROVE s[i].n \in Nat
  <2>1. s[i] \in Items
    BY ElementOfSeq
  <2> QED
    BY <2>1 DEF Items
<1> QED
  BY <1>1, <1>2

LEMMA UptoMore ==
    ASSUME NEW s \in Seq(Items), NEW n \in Nat, NEW m \in Nat, n <= m, Upto(s, n)
    PROVE  Upto(s, m)
  BY NumbersAreNatural DEF Upto

LEMMA MarkerPlaced ==
    MarkerInPlace <=> (firstLost > 0 => Placed(taken \o buffer, firstLost))
  BY DEF MarkerInPlace, Placed

LEMMA InitStreamInv == Init => StreamInv
<1> SUFFICES ASSUME Init PROVE StreamInv
  OBVIOUS
<1>1. taken = <<>> /\ buffer = <<>> /\ firstLost = 0 /\ arrivals = 0 /\ ~InHand
  BY Zenon DEF Init, InHand
<1>2. DOMAIN <<>> = {}
  OBVIOUS
<1> QED
  BY <1>1, <1>2 DEF StreamInv, Upto, Dealt, MarkerInPlace

LEMMA DealtType == CountInv /\ StreamInv => Dealt \in Nat
  BY DEF CountInv, TypeOK, StreamInv, Dealt

\* A step that neither puts nor drops an event changes nothing here.
LEMMA SameStream ==
    ASSUME CountInv, StreamInv, Dealt' = Dealt, UNCHANGED <<buffer, taken, firstLost>>
    PROVE  StreamInv'
<1>1. MarkerInPlace'
  BY MarkerPlaced DEF MarkerInPlace, StreamInv
<1> QED
  BY <1>1 DEF StreamInv, Upto

\* Nor does a control or a terminal item.
LEMMA ControlInStream ==
    ASSUME CountInv, StreamInv, Dealt' = Dealt, UNCHANGED <<taken, firstLost>>,
           NEW e \in Items, e.kind # "event", buffer' = Append(buffer, e)
    PROVE  StreamInv'
<1> USE DEF CountInv, TypeOK, StreamInv
<1>1. Upto(buffer', Dealt)
  BY UptoAppend, DealtType
<1>2. firstLost > 0 => Placed(taken \o buffer', firstLost)
  <2> SUFFICES ASSUME firstLost > 0 PROVE Placed(taken \o buffer', firstLost)
    OBVIOUS
  <2>1. Placed(taken \o buffer, firstLost)
    BY MarkerPlaced
  <2>2. taken \o buffer' = Append(taken \o buffer, e) /\ taken \o buffer \in Seq(Items)
    BY JoinedAppend, Joined, SMTT(60)
  <2> QED
    <3>1. firstLost \in Nat
      OBVIOUS
    <3>2. Placed(Append(taken \o buffer, e), firstLost)
      BY <2>1, <2>2, <3>1, PlacedAppend
    <3> QED
      BY <2>2, <3>2
<1>3. MarkerInPlace'
  BY <1>2, ZenonT(60) DEF MarkerInPlace, Placed
<1>4. Upto(taken', Dealt') /\ Upto(buffer', Dealt')
  BY <1>1
<1> QED
  BY <1>3, <1>4 DEF Upto

LEMMA NextStreamInv == CountInv /\ StreamInv /\ [Next]_vars => StreamInv'
<1> SUFFICES ASSUME CountInv, StreamInv, [Next]_vars PROVE StreamInv'
  OBVIOUS
<1>0. Dealt \in Nat
  BY DealtType
<1>t. /\ buffer \in Seq(Items) /\ taken \in Seq(Items) /\ arrivals \in Nat
      /\ firstLost \in Nat /\ offer.n = arrivals
  BY DEF CountInv, TypeOK, Latest
<1>1. CASE Arrive
  <2>1. ~InHand /\ InHand' /\ arrivals' = arrivals + 1
    BY <1>1 DEF Arrive, InHand
  <2>2. Dealt' = Dealt
    BY <1>t, <2>1 DEF Dealt
  <2> QED
    BY <1>1, <2>2, SameStream DEF Arrive
<1>2. CASE FrameDone
  BY <1>2, SameStream DEF FrameDone, Dealt, InHand, At, CountInv, TypeOK
<1>3. CASE OfferCheck
  BY <1>3, SameStream DEF OfferCheck, Dealt, InHand, At, CountInv, TypeOK
<1>4. CASE OfferDrop
  <2>1. InHand /\ ~InHand' /\ arrivals' = arrivals
    BY <1>4 DEF OfferDrop, InHand, At, CountInv, TypeOK
  <2>2. Dealt = arrivals - 1 /\ Dealt' = arrivals /\ Dealt <= Dealt' /\ Dealt' \in Nat
    BY <1>t, <2>1 DEF Dealt
  <2>3. taken' = taken /\ Upto(taken', Dealt')
    BY <1>0, <1>4, <1>t, <2>2, UptoMore DEF OfferDrop, StreamInv
  <2>4. CASE open
    <3>1. buffer' = buffer /\ firstLost' = firstLost
      BY <1>4, <2>4, Zenon DEF OfferDrop
    <3>2. Upto(buffer', Dealt') /\ firstLost' <= Dealt'
      BY <1>0, <1>t, <2>2, <3>1, UptoMore DEF StreamInv
    <3>3. MarkerInPlace'
      BY <2>3, <3>1 DEF MarkerInPlace, StreamInv
    <3> QED
      BY <2>3, <3>2, <3>3 DEF StreamInv, Upto
  <2>5. CASE ~open
    <3>1. buffer' = Append(buffer, Marker) /\ firstLost' = arrivals
      BY <1>4, <1>t, <2>5, Zenon DEF OfferDrop
    <3>2. Upto(buffer', Dealt') /\ firstLost' <= Dealt'
      BY <1>0, <1>t, <2>2, <3>1, ItemTypes, UptoAppend DEF StreamInv
    <3>3. taken \o buffer' = Append(taken \o buffer, Marker)
          /\ taken \o buffer \in Seq(Items)
      BY <1>t, <3>1, ItemTypes, JoinedAppend, Joined
    <3>4. \A i \in DOMAIN (taken \o buffer) :
              (taken \o buffer)[i].kind = "event" =>
                  (taken \o buffer)[i].n < arrivals
      <4>1. ASSUME NEW s \in Seq(Items), Upto(s, Dealt), NEW i \in 1..Len(s),
                   s[i].kind = "event"
            PROVE  s[i].n < arrivals
        <5>1. DOMAIN s = 1..Len(s) /\ s[i].n \in Nat
          BY NumbersAreNatural
        <5> QED
          BY <1>t, <2>2, <4>1, <5>1, SMTT(60) DEF Upto
      <4>2. /\ Len(taken) \in Nat /\ Len(buffer) \in Nat
            /\ DOMAIN (taken \o buffer) = 1..(Len(taken) + Len(buffer))
            /\ \A i \in 1..(Len(taken) + Len(buffer)) :
                  (taken \o buffer)[i] = IF i <= Len(taken) THEN taken[i]
                                          ELSE buffer[i - Len(taken)]
        BY <1>t, Joined
      <4> QED
        BY <1>t, <4>1, <4>2 DEF StreamInv
    <3>5. Placed(taken \o buffer', arrivals)
      BY <1>t, <3>3, <3>4, PlacedFresh
    <3>6. MarkerInPlace'
      BY <2>3, <3>1, <3>5 DEF MarkerInPlace, Placed
    <3> QED
      BY <2>3, <3>2, <3>6 DEF StreamInv, Upto
  <2> QED
    BY <2>4, <2>5
<1>5. CASE OfferSettle
  <2>1. offer.pc = "room" /\ offer' = At("put") /\ UNCHANGED <<buffer, taken, firstLost, arrivals>>
    BY <1>5, Zenon DEF OfferSettle
  <2> QED
    BY <2>1, SameStream DEF Dealt, InHand, At, CountInv, TypeOK
<1>6. CASE OfferPut
  <2>1. InHand /\ ~InHand' /\ UNCHANGED <<arrivals, taken, firstLost>>
    BY <1>6 DEF OfferPut, InHand, At, CountInv, TypeOK
  <2>2. Dealt = arrivals - 1 /\ Dealt' = arrivals /\ Dealt <= Dealt' /\ Dealt' \in Nat
    BY <1>t, <2>1 DEF Dealt
  <2> DEFINE e == Event(arrivals)
  <2>3. buffer' = Append(buffer, e) /\ e \in Items /\ e.n = arrivals
    BY <1>6, <1>t, ItemTypes DEF OfferPut
  <2>4. Upto(taken', Dealt') /\ firstLost' <= Dealt' /\ firstLost < arrivals
    BY <1>0, <1>t, <2>1, <2>2, UptoMore DEF StreamInv
  <2>5. Upto(buffer', Dealt')
    BY <1>0, <1>t, <2>2, <2>3, UptoAppend DEF StreamInv
  <2>6. firstLost > 0 => Placed(taken \o buffer', firstLost)
    <3> SUFFICES ASSUME firstLost > 0 PROVE Placed(taken \o buffer', firstLost)
      OBVIOUS
    <3>1. Placed(taken \o buffer, firstLost)
      BY MarkerPlaced DEF StreamInv
    <3>2. taken \o buffer' = Append(taken \o buffer, e) /\ taken \o buffer \in Seq(Items)
      BY <1>t, <2>3, JoinedAppend, Joined
    <3>3. Placed(Append(taken \o buffer, e), firstLost)
      BY <1>t, <2>3, <2>4, <3>1, <3>2, PlacedAppend
    <3> QED
      BY <3>2, <3>3
  <2>7. MarkerInPlace'
    BY <2>1, <2>6 DEF MarkerInPlace, Placed
  <2> QED
    BY <2>4, <2>5, <2>7 DEF StreamInv, Upto
<1>7. CASE PutControl
  <2>1. Dealt' = Dealt
    BY <1>7 DEF PutControl, Dealt, InHand
  <2> QED
    BY <1>7, <2>1, ItemTypes, ControlInStream DEF PutControl
<1>8. ASSUME NEW k \in {"stop", "lost"}, Pop(k) PROVE StreamInv'
  BY <1>8, SameStream DEF Pop, Dealt, InHand
<1>9. CASE PutLast
  <2>1. Dealt' = Dealt
    BY <1>9 DEF PutLast, Dealt, InHand
  <2> QED
    BY <1>9, <2>1, ItemTypes, ControlInStream DEF PutLast
<1>10. CASE Close
  BY <1>10, SameStream DEF Close, Dealt, InHand
<1>11. CASE EnterNext
  BY <1>11, SameStream DEF EnterNext, Dealt, InHand
<1>12. CASE Get
  <2>1. buffer # <<>> /\ buffer' = Tail(buffer) /\ UNCHANGED <<offer, firstLost, arrivals>>
    BY <1>12, Zenon DEF Get
  <2>2. Dealt' = Dealt
    BY <2>1 DEF Dealt, InHand
  <2>3. Head(buffer) \in Items /\ Upto(buffer', Dealt)
        /\ (Head(buffer).kind = "event" => Head(buffer).n <= Dealt)
    BY <1>0, <1>t, <2>1, HeadTailProperties, UptoTail DEF StreamInv
  <2>4. CASE Head(buffer).kind \in {"event", "overflow"}
    <3>1. taken' = Append(taken, Head(buffer))
      BY <1>12, <2>4, Zenon DEF Get
    <3>2. Upto(taken', Dealt)
      BY <1>0, <1>t, <2>3, <3>1, UptoAppend DEF StreamInv
    <3>3. taken' \o buffer' = taken \o buffer
      BY <1>t, <2>1, <3>1, JoinedMove
    <3>4. MarkerInPlace'
      BY <2>1, <3>3 DEF MarkerInPlace, StreamInv
    <3> QED
      BY <2>1, <2>2, <2>3, <3>2, <3>4 DEF StreamInv, Upto
  <2>5. CASE Head(buffer).kind \notin {"event", "overflow"}
    <3>1. taken' = taken
      BY <1>12, <2>5, Zenon DEF Get
    <3>2. firstLost > 0 => Placed(taken \o buffer', firstLost)
      BY <1>t, <2>1, <2>5, PlacedTake, MarkerPlaced DEF StreamInv
    <3>3. MarkerInPlace'
      BY <2>1, <3>1, <3>2 DEF MarkerInPlace, Placed
    <3> QED
      BY <2>1, <2>2, <2>3, <3>1, <3>3 DEF StreamInv, Upto
  <2> QED
    BY <2>4, <2>5
<1>13. CASE UNCHANGED vars
  BY <1>13, SameStream DEF vars, Dealt, InHand
<1> QED
  BY <1>1, <1>2, <1>3, <1>4, <1>5, <1>6, <1>7, <1>8, <1>9, <1>10, <1>11, <1>12, <1>13
  DEF Next

-------------------------------------------------------------------------------
LEMMA SpecInv == Spec => [](CountInv /\ StreamInv)
<1>1. Init => CountInv /\ StreamInv
  BY InitCountInv, InitStreamInv
<1>2. CountInv /\ StreamInv /\ [Next]_vars => (CountInv /\ StreamInv)'
  BY NextCountInv, NextStreamInv
<1> QED
  BY <1>1, <1>2, PTL DEF Spec

\* Every variable keeps its type; in particular the loss counter never runs
\* ahead of the events.
THEOREM TypeCorrect == Spec => []TypeOK
<1>1. CountInv => TypeOK
  BY DEF CountInv
<1> QED
  BY <1>1, SpecInv, PTL

\* At most max_pending events are buffered, although _offer() reads the length
\* of the queue before it puts, and other threads put and take in between.
THEOREM BoundKept == Spec => []EventsBounded
<1>1. CountInv => EventsBounded
  BY DEF CountInv
<1> QED
  BY <1>1, SpecInv, PTL

\* dropped_total is the exact number of lost events: every other one was
\* delivered, is buffered, or is in the reader's hand.
THEOREM LossesCounted == Spec => []EveryEventCounted
<1>1. CountInv => EveryEventCounted
  BY DEF CountInv
<1> QED
  BY <1>1, SpecInv, PTL

\* The overflow marker stands in the stream where the first event it reports
\* lost would have stood.
THEOREM MarkerStands == Spec => []MarkerInPlace
<1>1. StreamInv => MarkerInPlace
  BY DEF StreamInv
<1> QED
  BY <1>1, SpecInv, PTL
===============================================================================
