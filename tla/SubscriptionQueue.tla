--------------------------- MODULE SubscriptionQueue ---------------------------
(***************************************************************************)
(* One subscription's queue, from the reader's _offer() to the consumer's  *)
(* RawSubscription.__next__(): the bound on buffered events, the overflow  *)
(* marker with its hysteresis, and how a blocked consumer gets out.  The   *)
(* registration, as SubscriptionSocket models it, is one flag here: open   *)
(* until some thread pops it and puts its terminal item.                   *)
(***************************************************************************)
EXTENDS Naturals, Sequences, FiniteSets

CONSTANTS
    MaxPending,     \* max_pending
    MaxArrivals,    \* bound: events the reader ever offers
    MaxControls     \* bound: gap and refresh-failure items ever put

ASSUME PendingAssumption == MaxPending \in Nat \ {0}
ASSUME QueueBoundAssumption == MaxArrivals \in Nat /\ MaxControls \in Nat

VARIABLES
    buffer,      \* reg.queue
    offer,       \* where the reader stands in _offer(), and with which event
    dropped,     \* reg.dropped_total
    open,        \* reg.overflow_open
    stream,      \* registered, popped by some thread, or given its last item
    finished,    \* RawSubscription._closed
    consumer,    \* the thread in __next__(): outside, or blocked in get()
    arrivals,    \* events offered so far
    controls     \* gap and refresh-failure items put so far

\* What happened, for the properties.
VARIABLES
    taken,       \* events and overflow markers the consumer was given
    firstLost,   \* the event whose loss opened the latest episode, or 0
    drained      \* the buffer was below half the bound since the last marker

readerVars   == <<offer, dropped, open, arrivals, firstLost>>
consumerVars == <<finished, consumer, taken>>
vars == <<buffer, readerVars, consumerVars, stream, controls, drained>>

Event(n) == [kind |-> "event", n |-> n]
Marker   == [kind |-> "overflow", n |-> 0]
Control  == [kind |-> "control", n |-> 0]
Final(k) == [kind |-> k, n |-> 0]

Positions(k, s) == {i \in DOMAIN s : s[i].kind = k}
Count(k, s) == Cardinality(Positions(k, s))
BelowHalf(s) == 2 * Len(s) < MaxPending

At(p) == [offer EXCEPT !.pc = p]

-------------------------------------------------------------------------------
(* The reader: _dispatch() captures the registration while it is tracked,  *)
(* then offers it the frame's events one by one, whatever happens to the   *)
(* registration meanwhile.                                                 *)

Arrive ==
    /\ (offer.pc = "idle" /\ stream = "open") \/ offer.pc = "frame"
    /\ arrivals < MaxArrivals
    /\ arrivals' = arrivals + 1
    /\ offer' = [pc |-> "check", n |-> arrivals + 1]
    /\ UNCHANGED <<buffer, dropped, open, firstLost, consumerVars, stream,
                   controls, drained>>

FrameDone ==
    /\ offer.pc = "frame"
    /\ offer' = At("idle")
    /\ UNCHANGED <<buffer, dropped, open, arrivals, firstLost, consumerVars,
                   stream, controls, drained>>

\* Mutant: the bound is one too high.
OfferCheckLate ==
    /\ offer.pc = "check"
    /\ offer' = At(IF Len(buffer) > MaxPending THEN "full" ELSE "room")
    /\ UNCHANGED <<buffer, dropped, open, arrivals, firstLost, consumerVars,
                   stream, controls, drained>>

OfferCheck ==
    /\ offer.pc = "check"
    /\ offer' = At(IF Len(buffer) >= MaxPending THEN "full" ELSE "room")
    /\ UNCHANGED <<buffer, dropped, open, arrivals, firstLost, consumerVars,
                   stream, controls, drained>>

\* Mutant: count the episode's first loss only.
OfferDropOnce ==
    /\ offer.pc = "full"
    /\ dropped' = IF open THEN dropped ELSE dropped + 1
    /\ open' = TRUE
    /\ buffer' = IF open THEN buffer ELSE Append(buffer, Marker)
    /\ firstLost' = IF open THEN firstLost ELSE offer.n
    /\ drained' = IF open THEN drained ELSE FALSE
    /\ offer' = At("frame")
    /\ UNCHANGED <<arrivals, consumerVars, stream, controls>>

\* Mutant: count the loss both when the queue is found full and here.
OfferDropTwice ==
    /\ offer.pc = "full"
    /\ dropped' = dropped + 2
    /\ open' = TRUE
    /\ buffer' = IF open THEN buffer ELSE Append(buffer, Marker)
    /\ firstLost' = IF open THEN firstLost ELSE offer.n
    /\ drained' = IF open THEN drained ELSE FALSE
    /\ offer' = At("frame")
    /\ UNCHANGED <<arrivals, consumerVars, stream, controls>>

\* Mutant: open the episode without telling the consumer.
OfferDropSilent ==
    /\ offer.pc = "full"
    /\ dropped' = dropped + 1
    /\ open' = TRUE
    /\ firstLost' = IF open THEN firstLost ELSE offer.n
    /\ offer' = At("frame")
    /\ UNCHANGED <<buffer, drained, arrivals, consumerVars, stream, controls>>

OfferDrop ==
    /\ offer.pc = "full"
    /\ dropped' = dropped + 1
    /\ open' = TRUE
    /\ buffer' = IF open THEN buffer ELSE Append(buffer, Marker)
    /\ firstLost' = IF open THEN firstLost ELSE offer.n
    /\ drained' = IF open THEN drained ELSE FALSE
    /\ offer' = At("frame")
    /\ UNCHANGED <<arrivals, consumerVars, stream, controls>>

\* Hysteresis: the episode ends when an event finds the buffer half empty.
OfferSettle ==
    /\ offer.pc = "room"
    /\ open' = (open /\ Len(buffer) > MaxPending \div 2)
    /\ offer' = At("put")
    /\ UNCHANGED <<buffer, dropped, arrivals, firstLost, consumerVars, stream,
                   controls, drained>>

OfferPut ==
    /\ offer.pc = "put"
    /\ buffer' = Append(buffer, Event(offer.n))
    /\ offer' = At("frame")
    /\ UNCHANGED <<dropped, open, arrivals, firstLost, consumerVars, stream,
                   controls, drained>>

-------------------------------------------------------------------------------
(* Everybody else who puts: control items are never bounded nor dropped,   *)
(* and may come after the terminal item.                                   *)

PutControl ==
    /\ controls < MaxControls
    /\ controls' = controls + 1
    /\ buffer' = Append(buffer, Control)
    /\ UNCHANGED <<readerVars, consumerVars, stream, drained>>

\* unsubscribe(), a lost registration, close(): pop under the lock ...
Pop(k) ==
    /\ stream = "open"
    /\ stream' = k
    /\ UNCHANGED <<buffer, readerVars, consumerVars, controls, drained>>

\* ... then put the terminal item.
PutLast ==
    /\ stream \in {"stop", "lost"}
    /\ buffer' = Append(buffer, Final(stream))
    /\ stream' = "ended"
    /\ UNCHANGED <<readerVars, consumerVars, controls, drained>>

\* RawSubscription.close(), from any thread.
Close ==
    /\ ~finished
    /\ finished' = TRUE
    /\ stream' = IF stream = "open" THEN "stop" ELSE stream
    /\ UNCHANGED <<buffer, readerVars, consumer, taken, controls, drained>>

-------------------------------------------------------------------------------
(* The consumer: __next__().                                               *)

\* Mutant: call get() on a stream that is over.
EnterNextUnchecked ==
    /\ consumer = "out"
    /\ consumer' = "get"
    /\ UNCHANGED <<buffer, readerVars, finished, taken, stream, controls, drained>>

\* A finished stream raises StopIteration at once, which changes nothing.
EnterNext ==
    /\ consumer = "out" /\ ~finished
    /\ consumer' = "get"
    /\ UNCHANGED <<buffer, readerVars, finished, taken, stream, controls, drained>>

Get ==
    /\ consumer = "get" /\ buffer # <<>>
    /\ buffer' = Tail(buffer)
    /\ consumer' = "out"
    /\ finished' = (finished \/ Head(buffer).kind \in {"stop", "lost"})
    /\ taken' = IF Head(buffer).kind \in {"event", "overflow"}
                THEN Append(taken, Head(buffer)) ELSE taken
    /\ drained' = (drained \/ BelowHalf(buffer'))
    /\ UNCHANGED <<readerVars, stream, controls>>

-------------------------------------------------------------------------------
Init ==
    /\ buffer = <<>> /\ offer = [pc |-> "idle", n |-> 0]
    /\ dropped = 0 /\ open = FALSE
    /\ stream = "open" /\ finished = FALSE /\ consumer = "out"
    /\ arrivals = 0 /\ controls = 0
    /\ taken = <<>> /\ firstLost = 0 /\ drained = TRUE

Next ==
    \/ Arrive \/ FrameDone \/ OfferCheck \/ OfferDrop \/ OfferSettle \/ OfferPut
    \/ PutControl \/ \E k \in {"stop", "lost"} : Pop(k)
    \/ PutLast \/ Close
    \/ EnterNext \/ Get

\* The thread that popped puts the terminal item, and a get() that finds an
\* item returns.  Nobody has to call __next__() or close().
Fairness == WF_vars(PutLast) /\ WF_vars(Get)

Spec == Init /\ [][Next]_vars /\ Fairness

-------------------------------------------------------------------------------
(* Properties.                                                             *)

Items == [kind : {"event", "overflow", "control", "stop", "lost"}, n : Nat]

\* Every variable stays within its type.
TypeOK ==
    /\ buffer \in Seq(Items) /\ taken \in Seq(Items)
    /\ offer \in [pc : {"idle", "frame", "check", "full", "room", "put"}, n : Nat]
    /\ dropped \in 0..MaxArrivals /\ open \in BOOLEAN /\ firstLost \in 0..MaxArrivals
    /\ stream \in {"open", "stop", "lost", "ended"} /\ finished \in BOOLEAN
    /\ consumer \in {"out", "get"} /\ drained \in BOOLEAN
    /\ arrivals \in 0..MaxArrivals /\ controls \in 0..MaxControls

\* Never more than max_pending events are buffered, although the length is
\* read before the put and other threads put and take in between.
EventsBounded == Count("event", buffer) <= MaxPending

\* Every event offered was delivered, dropped and counted, is buffered, or is
\* in the reader's hand: dropped is the exact number of lost events.
EveryEventCounted ==
    arrivals = dropped + Count("event", buffer) + Count("event", taken)
                 + (IF offer.pc \in {"check", "full", "room", "put"} THEN 1 ELSE 0)

\* The marker of an episode stands in the stream where the first event it
\* lost would have stood: after all earlier events, before all later ones.
MarkerInPlace ==
    LET all == taken \o buffer
    IN firstLost > 0 =>
          \E m \in DOMAIN all :
             /\ all[m] = Marker
             /\ \A i \in DOMAIN all : all[i].kind = "event" =>
                   IF all[i].n < firstLost THEN i < m ELSE i > m

\* A consumer blocked in get() when its stream ends is released.
ConsumerReleased == (consumer = "get" /\ stream # "open") ~> (consumer = "out")

\* Exactly one marker per overload episode, an episode being over once the
\* consumer has drained the buffer below half the bound: an event that finds
\* the buffer of a live stream full after that opens one, with its marker.
MarkerPerEpisode ==
    [][stream = "open" /\ drained /\ offer.pc = "check" /\ offer'.pc = "full"
           => ~open]_vars
===============================================================================
