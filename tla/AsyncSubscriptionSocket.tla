----------------------- MODULE AsyncSubscriptionSocket ------------------------
(***************************************************************************)
(* The asyncio twin of the subscription socket: AsyncSubscriptionSocket of *)
(* transport/_subscription_socket_async.py.                                *)
(*                                                                         *)
(* One event loop runs every coroutine, so a step is everything between    *)
(* two awaits: a critical section and the queue puts after it are one      *)
(* action, and so are an await that completes and the section that follows *)
(* it when the lock is free.  What the threaded socket does not have is    *)
(* modelled here: the connection made outside the lock, asyncio.Lock's     *)
(* first-come-first-served queue, the lock held across an await, and       *)
(* cancellation, which aclose() relies on and any user task may suffer.    *)
(***************************************************************************)
EXTENDS Naturals, Sequences

CONSTANTS
    Subs,                 \* local ids: one subscribe() call each
    NoSub,                \* no subscription
    MaxConn,              \* bound: WebSocket connections ever opened, in any case
    MaxWire,              \* bound: wire subscriptionIds ever given out, in any case
    MaxWaiting,           \* bound: coroutines in the lock's queue at once
    ReconnectAttempts,    \* _RECONNECT_ATTEMPTS
    EscalationThreshold,  \* _REFRESH_FAILURE_ESCALATION_THRESHOLD
    Cases                 \* each run is about one of them: the misbehaviours that
                          \* may happen in it, and its share of MaxConn and MaxWire

\* "outage": a connect may fail; "reject": the APIC may reject a subscribe;
\* "refresh": it may reject a refresh; "crash": a background task may raise
\* outside its typed nets; "abandon": a consumer may be garbage-collected;
\* "cancel": the task awaiting subscribe() may be cancelled.
AllFaults == {"outage", "reject", "refresh", "crash", "abandon", "cancel"}

ASSUME SubAssumption   == NoSub \notin Subs
ASSUME BoundAssumption == MaxConn \in Nat /\ MaxWire \in Nat
                          /\ MaxWaiting \in Nat
ASSUME LimitAssumption == ReconnectAttempts \in Nat \ {0}
                          /\ EscalationThreshold \in Nat \ {0}
ASSUME CaseAssumption  == Cases \subseteq [faults : SUBSET AllFaults,
                                           conns : 0..MaxConn, wires : 0..MaxWire]

NoConn == 0
NoWire == 0

\* A reader/sweep pair is named by the connection _ensure_open() started it on.
Pairs == 1..MaxConn

VARIABLES
    closed,    \* _closed
    dead,      \* _dead
    gen,       \* _generation
    ws,        \* _ws: the connection, or NoConn
    holder,    \* the coroutine that awaits something inside _state_lock
    waiting,   \* the coroutines queued for _state_lock
    regs,      \* the local ids in _registrations
    route,     \* _wire_to_local, as pairs <<wire id, local id>>
    wire,      \* reg.wire_id
    failures,  \* reg.consecutive_refresh_failures, saturating at the threshold
    caller,    \* where each subscribe() call and its AsyncRawSubscription stand
    hand,      \* the connection a subscribe() call has made and not yet settled
    reader,    \* the reader task of each pair
    sweep,     \* the refresh task of each pair
    genOf,     \* the generation each pair was started with
    latest,    \* the pair _reader_task and _refresh_task name, or NoConn
    up,        \* connections open at both ends
    conns,     \* how many connections were ever opened
    closing,   \* connections whose ws.close() is awaited outside the lock
    bound,     \* the connection the APIC pushes each wire id on
    wires,     \* how many wire ids the APIC has given out
    case       \* which of Cases this run is about; never changes

\* What happened; read by properties only.
VARIABLES
    ends,      \* how many terminal items (_STOP or _Fatal) each queue was given
    late,      \* registrations whose wire id was adopted for another connection
    strays     \* connections no variable of the socket names any more, and why
               \* is known: see Cancel, AClose and AdoptReconnect

stateVars == <<closed, dead, gen, ws>>
lockVars  == <<holder, waiting>>
regVars   == <<regs, route, wire, failures>>
userVars  == <<caller, hand>>
pairVars  == <<genOf, latest>>
taskVars  == <<reader, sweep, pairVars>>
netVars   == <<up, conns, closing>>
apicVars  == <<bound, wires, case>>
seenVars  == <<ends, late, strays>>
vars == <<stateVars, lockVars, regVars, userVars, taskVars, netVars, apicVars,
          seenVars>>

-------------------------------------------------------------------------------
(* Coroutines and asyncio.Lock.                                            *)

NoTask    == <<"none", NoConn>>
Client    == <<"client", NoConn>>    \* close_all_subscriptions()
Closer    == <<"aclose", NoConn>>    \* aclose()
Sub(s)    == <<"sub", s>>            \* subscribe(), then close() on its result
Reader(p) == <<"reader", p>>
Sweep(p)  == <<"sweep", p>>
Tasks     == {Client, Closer} \cup {Sub(s) : s \in Subs}
             \cup {Reader(p) : p \in Pairs} \cup {Sweep(p) : p \in Pairs}

Queued(t) == \E i \in DOMAIN waiting : waiting[i] = t

\* The queue q once t has left it; a task queues at most once.
Without(q, t) ==
    IF \E i \in DOMAIN q : q[i] = t
    THEN LET at == CHOOSE i \in DOMAIN q : q[i] = t
         IN  [i \in 1..(Len(q) - 1) |-> IF i < at THEN q[i] ELSE q[i + 1]]
    ELSE q

\* acquire() goes through at once only if nobody holds the lock or queues.
Free(t) == holder = NoTask /\ \A i \in DOMAIN waiting : waiting[1] = t

\* A critical section of t without an await in it.
Section(t) == /\ Free(t)
              /\ waiting' = Without(waiting, t)
              /\ UNCHANGED holder

\* A critical section of t that goes on awaiting while it holds the lock.
Acquire(t) == /\ Free(t)
              /\ waiting' = Without(waiting, t)
              /\ holder' = t

Release(t) == holder = t /\ holder' = NoTask /\ UNCHANGED waiting

-------------------------------------------------------------------------------
(* What the environment does.                                              *)

\* A handshake that succeeds gives connection conns + 1.
Connect == /\ conns < case.conns
           /\ conns' = conns + 1
           /\ up' = up \cup {conns + 1}

MayFailToConnect == "outage" \in case.faults \/ conns = case.conns

\* The APIC pushes on the session's newest connection that is still open.
Newest == IF up = {} THEN NoConn ELSE CHOOSE c \in up : \A d \in up : d <= c

Grant == /\ wires < case.wires
         /\ wires' = wires + 1
         /\ bound' = [bound EXCEPT ![wires + 1] = Newest]
         /\ UNCHANGED case

MayReject == "reject" \in case.faults \/ wires = case.wires

\* _do_subscribe from a background task: the answer, NoWire when rejected.
Resubscribe(answer) ==
    \/ Grant /\ answer = wires + 1
    \/ MayReject /\ answer = NoWire /\ UNCHANGED apicVars

\* Which registrations are late once s runs under wire id w.
LateWith(s, w) == IF ws # NoConn /\ bound[w] = ws THEN late \ {s}
                  ELSE late \cup {s}

-------------------------------------------------------------------------------
(* subscribe(): _ensure_open() with its two sections around the connect,   *)
(* the REST subscribe, and the insertion.                                  *)

CheckOpen(s) ==
    /\ caller[s] = "new"
    /\ Section(Sub(s))
    /\ caller' = [caller EXCEPT ![s] = IF closed THEN "refused"
                                       ELSE IF ws # NoConn THEN "rest"
                                       ELSE "connect"]
    /\ UNCHANGED <<stateVars, regVars, hand, taskVars, netVars, apicVars, seenVars>>

ConnectFailed(s) ==
    /\ caller[s] = "connect"
    /\ MayFailToConnect
    /\ caller' = [caller EXCEPT ![s] = "refused"]
    /\ UNCHANGED <<stateVars, lockVars, regVars, hand, taskVars, netVars, apicVars,
                   seenVars>>

\* The second section, with connection c in hand: redundant, in which case its
\* close is awaited under the lock, or adopted with a fresh pair of tasks.
SettleConnection(s, c) ==
    \/ /\ closed \/ ws # NoConn
       /\ Acquire(Sub(s))
       /\ caller' = [caller EXCEPT ![s] = "redundant"]
       /\ hand' = [hand EXCEPT ![s] = c]
       /\ UNCHANGED <<stateVars, taskVars>>
    \/ /\ ~closed /\ ws = NoConn
       /\ Section(Sub(s))
       /\ ws' = c /\ dead' = FALSE /\ gen' = gen + 1
       /\ genOf' = [genOf EXCEPT ![c] = gen + 1]
       /\ latest' = c
       /\ reader' = [reader EXCEPT ![c].pc = "top"]
       /\ sweep' = [sweep EXCEPT ![c].pc = "sleep"]
       /\ caller' = [caller EXCEPT ![s] = "rest"]
       /\ hand' = [hand EXCEPT ![s] = NoConn]
       /\ UNCHANGED closed

\* The connect returns: straight into the second section, or into the queue.
Connected(s) ==
    /\ caller[s] = "connect"
    /\ Connect
    /\ \/ SettleConnection(s, conns + 1)
       \/ /\ ~Free(Sub(s)) /\ Len(waiting) < MaxWaiting
          /\ waiting' = Append(waiting, Sub(s))
          /\ caller' = [caller EXCEPT ![s] = "connected"]
          /\ hand' = [hand EXCEPT ![s] = conns + 1]
          /\ UNCHANGED <<stateVars, holder, taskVars>>
    /\ UNCHANGED <<regVars, closing, apicVars, seenVars>>

ConnectedResumes(s) ==
    /\ caller[s] = "connected"
    /\ SettleConnection(s, hand[s])
    /\ UNCHANGED <<regVars, netVars, apicVars, seenVars>>

\* Mutant: the redundant connection is forgotten instead of closed.
RedundantForgotten(s) ==
    /\ caller[s] = "redundant"
    /\ Release(Sub(s))
    /\ hand' = [hand EXCEPT ![s] = NoConn]
    /\ caller' = [caller EXCEPT ![s] = IF closed THEN "refused" ELSE "rest"]
    /\ UNCHANGED <<stateVars, regVars, taskVars, netVars, apicVars, seenVars>>

\* Mutant: the way out of the redundant close does not release the lock.
RedundantKeepsLock(s) ==
    /\ caller[s] = "redundant"
    /\ up' = up \ {hand[s]}
    /\ hand' = [hand EXCEPT ![s] = NoConn]
    /\ caller' = [caller EXCEPT ![s] = IF closed THEN "refused" ELSE "rest"]
    /\ UNCHANGED <<stateVars, lockVars, regVars, taskVars, conns, closing,
                   apicVars, seenVars>>

RedundantClosed(s) ==
    /\ caller[s] = "redundant"
    /\ Release(Sub(s))
    /\ up' = up \ {hand[s]}
    /\ hand' = [hand EXCEPT ![s] = NoConn]
    /\ caller' = [caller EXCEPT ![s] = IF closed THEN "refused" ELSE "rest"]
    /\ UNCHANGED <<stateVars, regVars, taskVars, conns, closing, apicVars, seenVars>>

RestSubscribe(s) ==
    /\ caller[s] = "rest"
    /\ \/ /\ Grant
          /\ wire' = [wire EXCEPT ![s] = wires + 1]
          /\ caller' = [caller EXCEPT ![s] = "insert"]
       \/ /\ MayReject
          /\ caller' = [caller EXCEPT ![s] = "refused"]
          /\ UNCHANGED <<wire, apicVars>>
    /\ UNCHANGED <<stateVars, lockVars, regs, route, failures, hand, taskVars,
                   netVars, seenVars>>

\* Mutant: register without looking at _closed again.
InsertUnchecked(s) ==
    /\ caller[s] = "insert"
    /\ Section(Sub(s))
    /\ regs' = regs \cup {s}
    /\ route' = route \cup {<<wire[s], s>>}
    /\ late' = LateWith(s, wire[s])
    /\ caller' = [caller EXCEPT ![s] = "live"]
    /\ UNCHANGED <<stateVars, wire, failures, hand, taskVars, netVars, apicVars,
                   ends, strays>>

Insert(s) ==
    /\ caller[s] = "insert"
    /\ Section(Sub(s))
    /\ \/ /\ closed
          /\ caller' = [caller EXCEPT ![s] = "refused"]
          /\ UNCHANGED <<regs, route, late>>
       \/ /\ ~closed
          /\ regs' = regs \cup {s}
          /\ route' = route \cup {<<wire[s], s>>}
          /\ late' = LateWith(s, wire[s])
          /\ caller' = [caller EXCEPT ![s] = "live"]
    /\ UNCHANGED <<stateVars, wire, failures, hand, taskVars, netVars, apicVars,
                   ends, strays>>

\* Mutant: the cancelled task stays in the lock's queue.
CancelStillQueued(s) ==
    /\ "cancel" \in case.faults
    /\ caller[s] \in {"connect", "connected", "rest", "insert"}
    /\ caller' = [caller EXCEPT ![s] = "refused"]
    /\ hand' = [hand EXCEPT ![s] = NoConn]
    /\ strays' = strays \cup ({hand[s]} \ {NoConn})
    /\ UNCHANGED <<stateVars, lockVars, regVars, taskVars, netVars, apicVars,
                   ends, late>>

\* The task awaiting subscribe() is cancelled.  A connect that is under way
\* cleans up behind itself; a connection already in hand, while the task waits
\* for the lock again, is nobody's any more.
Cancel(s) ==
    /\ "cancel" \in case.faults
    /\ caller[s] \in {"connect", "connected", "rest", "insert"}
    /\ caller' = [caller EXCEPT ![s] = "refused"]
    /\ hand' = [hand EXCEPT ![s] = NoConn]
    /\ strays' = strays \cup ({hand[s]} \ {NoConn})
    /\ waiting' = Without(waiting, Sub(s))
    /\ UNCHANGED <<stateVars, holder, regVars, taskVars, netVars, apicVars,
                   ends, late>>

-------------------------------------------------------------------------------
(* The user's side: close() and garbage collection of one subscription,    *)
(* manual refreshes, close_all_subscriptions().                            *)

\* What unsubscribe() and _drop_registration_nowait() do with s.
Forget(s) ==
    /\ regs' = regs \ {s}
    /\ route' = IF s \in regs THEN {r \in route : r[1] # wire[s]} ELSE route
    /\ ends' = IF s \in regs THEN [ends EXCEPT ![s] = @ + 1] ELSE ends
    /\ UNCHANGED <<wire, failures>>

CloseOne(s) ==
    /\ caller[s] = "live"
    /\ Section(Sub(s))
    /\ Forget(s)
    /\ UNCHANGED <<stateVars, userVars, taskVars, netVars, apicVars, late, strays>>

\* The finalizer of an AsyncRawSubscription dropped without close().
Abandon(s) ==
    /\ "abandon" \in case.faults
    /\ caller[s] = "live" /\ ~Queued(Sub(s))
    /\ caller' = [caller EXCEPT ![s] = "gone"]
    /\ UNCHANGED <<stateVars, lockVars, regVars, hand, taskVars, netVars, apicVars,
                   seenVars>>

\* The callback the finalizer scheduled on the loop: no lock.
DropRegistration(s) ==
    /\ caller[s] = "gone" /\ s \in regs
    /\ Forget(s)
    /\ UNCHANGED <<stateVars, lockVars, userVars, taskVars, netVars, apicVars,
                   late, strays>>

\* refresh_now(), refresh_all_subscriptions(): only a success changes anything.
ManualRefresh(s) ==
    /\ s \in regs /\ failures[s] # 0
    /\ Free(NoTask)
    /\ failures' = [failures EXCEPT ![s] = 0]
    /\ UNCHANGED <<stateVars, lockVars, regs, route, wire, userVars, taskVars,
                   netVars, apicVars, seenVars>>

EndAll == /\ ends' = [s \in Subs |-> IF s \in regs THEN ends[s] + 1 ELSE ends[s]]
          /\ regs' = {} /\ route' = {}
          /\ UNCHANGED <<wire, failures>>

CloseAllSubscriptions ==
    /\ Section(Client)
    /\ EndAll
    /\ UNCHANGED <<stateVars, userVars, taskVars, netVars, apicVars, late, strays>>

-------------------------------------------------------------------------------
(* What the background tasks share: a finished resubscribe, the end of a   *)
(* generation, the check that a pair is still the current one.             *)

\* Mutant: a resubscribe that only checks that s is still registered.
SettleUnguarded(s, old, new, reset) ==
    IF s \notin regs THEN UNCHANGED <<regVars, ends, late>>
    ELSE IF new = NoWire
    THEN /\ Forget(s)
         /\ UNCHANGED late
    ELSE /\ route' = {r \in route : r[1] # old} \cup {<<new, s>>}
         /\ wire' = [wire EXCEPT ![s] = new]
         /\ late' = LateWith(s, new)
         /\ UNCHANGED <<regs, failures, ends>>

\* Mutant: a rejected resubscribe leaves the registration as it was.
SettleIgnoringReject(s, old, new, reset) ==
    IF new = NoWire THEN UNCHANGED <<regVars, ends, late>>
    ELSE SettleUnguarded(s, old, new, reset)

\* s was resubscribed: its wire id was old when the request left, new is the
\* answer (NoWire when it was rejected); reset: the failure counter restarts.
Settle(s, old, new, reset) ==
    \/ /\ s \notin regs \/ wire[s] # old
       /\ UNCHANGED <<regVars, ends, late>>
    \/ /\ s \in regs /\ wire[s] = old /\ new = NoWire
       /\ Forget(s)
       /\ UNCHANGED late
    \/ /\ s \in regs /\ wire[s] = old /\ new # NoWire
       /\ route' = {r \in route : r[1] # old} \cup {<<new, s>>}
       /\ wire' = [wire EXCEPT ![s] = new]
       /\ failures' = IF reset THEN [failures EXCEPT ![s] = 0] ELSE failures
       /\ late' = LateWith(s, new)
       /\ UNCHANGED <<regs, ends>>

\* Mutant: the connection is dropped from _ws but not closed.
FailAllKeepingConn ==
    /\ EndAll
    /\ ws' = NoConn
    /\ dead' = TRUE
    /\ gen' = gen + 1
    /\ UNCHANGED <<closed, closing>>

\* _fail_all: the section, the _Fatal items, and the start of ws.close().
FailAll ==
    /\ EndAll
    /\ ws' = NoConn
    /\ closing' = closing \cup ({ws} \ {NoConn})
    /\ dead' = TRUE
    /\ gen' = gen + 1
    /\ UNCHANGED closed

Superseded(p) == closed \/ genOf[p] # gen

-------------------------------------------------------------------------------
(* The reader task.                                                        *)

ReaderIdle == [pc |-> "none", conn |-> NoConn, todo |-> {}, sub |-> NoSub,
               old |-> NoWire, new |-> NoWire, tries |-> 0]
ReaderAt(pc) == [ReaderIdle EXCEPT !.pc = pc]
ReaderWith(pc, c) == [ReaderIdle EXCEPT !.pc = pc, !.conn = c]

\* Go through the registrations S, then receive again.
Resubscribing(S) == IF S = {} THEN ReaderAt("top")
                    ELSE [ReaderIdle EXCEPT !.pc = "resub", !.todo = S]

ReaderTop(p) ==
    /\ reader[p].pc = "top"
    /\ Section(Reader(p))
    /\ reader' = [reader EXCEPT ![p] =
           IF Superseded(p) THEN ReaderAt("done")
           ELSE IF ws = NoConn THEN ReaderAt("failall")
           ELSE ReaderWith("recv", ws)]
    /\ UNCHANGED <<stateVars, regVars, userVars, sweep, pairVars, netVars, apicVars,
                   seenVars>>

\* recv() returns a frame of this connection; _dispatch fills the queues,
\* which SubscriptionQueue models.
ReaderRecv(p) ==
    /\ reader[p].pc = "recv" /\ ~Queued(Reader(p))
    /\ \E w \in 1..wires : bound[w] = reader[p].conn
    /\ reader' = [reader EXCEPT ![p] = ReaderAt("top")]
    /\ UNCHANGED <<stateVars, lockVars, regVars, userVars, sweep, pairVars, netVars,
                   apicVars, seenVars>>

\* recv() has raised.
ReaderLost(p) ==
    /\ reader[p].pc = "recv"
    /\ reader[p].conn \notin up
    /\ Section(Reader(p))
    /\ reader' = [reader EXCEPT ![p] =
           ReaderAt(IF Superseded(p) THEN "done" ELSE "connect")]
    /\ UNCHANGED <<stateVars, regVars, userVars, sweep, pairVars, netVars, apicVars,
                   seenVars>>

ReaderConnectFailed(p) ==
    /\ reader[p].pc = "connect"
    /\ MayFailToConnect
    /\ reader' = [reader EXCEPT ![p].tries = @ + 1,
                      ![p].pc = IF reader[p].tries + 1 = ReconnectAttempts
                                THEN "giveup" ELSE "connect"]
    /\ UNCHANGED <<stateVars, lockVars, regVars, userVars, sweep, pairVars, netVars,
                   apicVars, seenVars>>

ReaderGiveUp(p) ==
    /\ reader[p].pc = "giveup"
    /\ Section(Reader(p))
    /\ reader' = [reader EXCEPT ![p] = ReaderAt(IF closed THEN "done"
                                                ELSE "failall")]
    /\ UNCHANGED <<stateVars, regVars, userVars, sweep, pairVars, netVars, apicVars,
                   seenVars>>

ReaderFailAll(p) ==
    /\ reader[p].pc = "failall"
    /\ Section(Reader(p))
    /\ FailAll
    /\ reader' = [reader EXCEPT ![p] = ReaderAt("done")]
    /\ UNCHANGED <<userVars, sweep, pairVars, up, conns, apicVars, late, strays>>

\* The section after a successful reconnect, with connection c in hand: closed
\* under the lock if aclose() won, otherwise adopted, whatever the generation.
AdoptReconnect(p, c) ==
    \/ /\ closed
       /\ Acquire(Reader(p))
       /\ reader' = [reader EXCEPT ![p] = ReaderWith("discard", c)]
       /\ UNCHANGED <<stateVars, strays>>
    \/ /\ ~closed
       /\ Section(Reader(p))
       /\ ws' = c
       /\ reader' = [reader EXCEPT ![p] = Resubscribing(regs)]
       /\ strays' = IF genOf[p] = gen THEN strays
                    ELSE strays \cup ({ws, c} \ {NoConn})
       /\ UNCHANGED <<closed, dead, gen>>

ReaderConnected(p) ==
    /\ reader[p].pc = "connect"
    /\ Connect
    /\ \/ AdoptReconnect(p, conns + 1)
       \/ /\ ~Free(Reader(p)) /\ Len(waiting) < MaxWaiting
          /\ waiting' = Append(waiting, Reader(p))
          /\ reader' = [reader EXCEPT ![p] = ReaderWith("connected", conns + 1)]
          /\ UNCHANGED <<stateVars, holder, strays>>
    /\ UNCHANGED <<regVars, userVars, sweep, pairVars, closing, apicVars, ends, late>>

ReaderConnectedResumes(p) ==
    /\ reader[p].pc = "connected"
    /\ AdoptReconnect(p, reader[p].conn)
    /\ UNCHANGED <<regVars, userVars, sweep, pairVars, netVars, apicVars, ends, late>>

ReaderDiscarded(p) ==
    /\ reader[p].pc = "discard"
    /\ Release(Reader(p))
    /\ up' = up \ {reader[p].conn}
    /\ reader' = [reader EXCEPT ![p] = ReaderAt("done")]
    /\ UNCHANGED <<stateVars, regVars, userVars, sweep, pairVars, conns, closing,
                   apicVars, seenVars>>

ReaderResub(p) ==
    /\ reader[p].pc = "resub"
    /\ \E s \in reader[p].todo, answer \in 0..MaxWire :
          /\ Resubscribe(answer)
          /\ reader' = [reader EXCEPT ![p].pc = "adopt", ![p].todo = @ \ {s},
                            ![p].sub = s, ![p].old = wire[s], ![p].new = answer]
    /\ UNCHANGED <<stateVars, lockVars, regVars, userVars, sweep, pairVars, netVars,
                   seenVars>>

ReaderAdopt(p) ==
    /\ reader[p].pc = "adopt"
    /\ Section(Reader(p))
    /\ Settle(reader[p].sub, reader[p].old, reader[p].new, FALSE)
    /\ reader' = [reader EXCEPT ![p] = Resubscribing(reader[p].todo)]
    /\ UNCHANGED <<stateVars, userVars, sweep, pairVars, netVars, apicVars, strays>>

\* An exception outside the typed nets, while talking to the APIC.
ReaderCrash(p) ==
    /\ "crash" \in case.faults
    /\ reader[p].pc \in {"connect", "resub"}
    /\ reader' = [reader EXCEPT ![p] = ReaderAt("failall")]
    /\ UNCHANGED <<stateVars, lockVars, regVars, userVars, sweep, pairVars, netVars,
                   apicVars, seenVars>>

-------------------------------------------------------------------------------
(* The refresh-sweep task.                                                 *)

SweepIdle == [pc |-> "none", due |-> {}, sub |-> NoSub,
              old |-> NoWire, new |-> NoWire]
SweepAt(pc) == [SweepIdle EXCEPT !.pc = pc]
Passing(S) == IF S = {} THEN SweepAt("sleep")
              ELSE [SweepIdle EXCEPT !.pc = "pass", !.due = S]

\* A wake-up that finds the registrations S due.
SweepTick(p, S) ==
    /\ sweep[p].pc = "sleep"
    /\ Section(Sweep(p))
    /\ S \subseteq regs
    /\ sweep' = [sweep EXCEPT ![p] = IF Superseded(p) \/ dead THEN SweepAt("done")
                                     ELSE Passing(S)]
    /\ UNCHANGED <<stateVars, regVars, userVars, reader, pairVars, netVars, apicVars,
                   seenVars>>

\* _refresh_one: the refresh was accepted (ok) or not, and is accounted.
SweepRefresh(p, s, ok) ==
    /\ sweep[p].pc = "pass"
    /\ Section(Sweep(p))
    /\ s \in sweep[p].due
    /\ ok \/ "refresh" \in case.faults
    /\ LET missed == IF failures[s] < EscalationThreshold
                     THEN failures[s] + 1 ELSE EscalationThreshold
           lapsed == s \in regs /\ ~ok /\ missed = EscalationThreshold
       IN /\ failures' = IF s \in regs
                         THEN [failures EXCEPT ![s] = IF ok THEN 0 ELSE missed]
                         ELSE failures
          /\ sweep' = [sweep EXCEPT ![p] =
                 IF lapsed THEN [SweepIdle EXCEPT !.pc = "escalate", !.sub = s,
                                                  !.due = sweep[p].due \ {s}]
                 ELSE Passing(sweep[p].due \ {s})]
    /\ UNCHANGED <<stateVars, regs, route, wire, userVars, reader, pairVars, netVars,
                   apicVars, seenVars>>

SweepEscalate(p) ==
    /\ sweep[p].pc = "escalate"
    /\ \E answer \in 0..MaxWire :
          /\ Resubscribe(answer)
          /\ sweep' = [sweep EXCEPT ![p].pc = "adopt", ![p].new = answer,
                                    ![p].old = wire[sweep[p].sub]]
    /\ UNCHANGED <<stateVars, lockVars, regVars, userVars, reader, pairVars, netVars,
                   seenVars>>

SweepAdopt(p) ==
    /\ sweep[p].pc = "adopt"
    /\ Section(Sweep(p))
    /\ Settle(sweep[p].sub, sweep[p].old, sweep[p].new, TRUE)
    /\ sweep' = [sweep EXCEPT ![p] = Passing(sweep[p].due)]
    /\ UNCHANGED <<stateVars, userVars, reader, pairVars, netVars, apicVars, strays>>

SweepCrash(p) ==
    /\ "crash" \in case.faults
    /\ sweep[p].pc \in {"pass", "escalate"} /\ ~Queued(Sweep(p))
    /\ sweep' = [sweep EXCEPT ![p] = SweepAt("failall")]
    /\ UNCHANGED <<stateVars, lockVars, regVars, userVars, reader, pairVars, netVars,
                   apicVars, seenVars>>

SweepFailAll(p) ==
    /\ sweep[p].pc = "failall"
    /\ Section(Sweep(p))
    /\ FailAll
    /\ sweep' = [sweep EXCEPT ![p] = SweepAt("done")]
    /\ UNCHANGED <<userVars, reader, pairVars, up, conns, apicVars, late, strays>>

-------------------------------------------------------------------------------
(* aclose(): its section, the _STOP items, and the cancellation of the     *)
(* latest pair.  A cancelled task ends at its next step and leaves the     *)
(* lock's queue; a reader queued with a fresh connection drops it.  The    *)
(* close of _ws, awaited last, is CloseConn.                               *)

AClose ==
    /\ ~closed
    /\ Free(Closer)
    /\ waiting' = Without(Without(Without(waiting, Closer), Reader(latest)),
                         Sweep(latest))
    /\ closed' = TRUE
    /\ EndAll
    /\ ws' = NoConn
    /\ closing' = closing \cup ({ws} \ {NoConn})
    /\ reader' = [p \in Pairs |-> IF p = latest THEN ReaderAt("done")
                                  ELSE reader[p]]
    /\ sweep' = [p \in Pairs |-> IF p = latest THEN SweepAt("done")
                                 ELSE sweep[p]]
    /\ strays' = strays \cup {reader[p].conn : p \in
                     {q \in Pairs : q = latest /\ reader[q].pc = "connected"}}
    /\ UNCHANGED <<dead, gen, holder, userVars, pairVars, up, conns, apicVars, late>>

-------------------------------------------------------------------------------
(* Steps no task chooses: the lock's queue, ws.close(), the network.       *)

\* t reaches `async with self._state_lock` without a connection in hand.
WantsLock(t) ==
    \/ t = Client
    \/ t = Closer /\ ~closed
    \/ \E s \in Subs : t = Sub(s) /\ caller[s] \in {"new", "insert", "live"}
    \/ \E p \in Pairs : t = Reader(p) /\
          \/ reader[p].pc \in {"top", "giveup", "failall", "adopt"}
          \/ reader[p].pc = "recv" /\ reader[p].conn \notin up
    \/ \E p \in Pairs : t = Sweep(p) /\
          sweep[p].pc \in {"sleep", "pass", "adopt", "failall"}

\* A task that finds the lock between two holders queues behind them, which is
\* the same as running once they are through.
Wait(t) ==
    /\ WantsLock(t)
    /\ holder # NoTask /\ ~Queued(t) /\ Len(waiting) < MaxWaiting
    /\ waiting' = Append(waiting, t)
    /\ UNCHANGED <<stateVars, holder, regVars, userVars, taskVars, netVars,
                   apicVars, seenVars>>

CloseConn(c) ==
    /\ c \in closing
    /\ closing' = closing \ {c}
    /\ up' = up \ {c}
    /\ UNCHANGED <<stateVars, lockVars, regVars, userVars, taskVars, conns,
                   apicVars, seenVars>>

Disconnect(c) ==
    /\ c \in up
    /\ up' = up \ {c}
    /\ UNCHANGED <<stateVars, lockVars, regVars, userVars, taskVars, conns,
                   closing, apicVars, seenVars>>

-------------------------------------------------------------------------------
Init ==
    /\ closed = FALSE /\ dead = FALSE /\ gen = 0 /\ ws = NoConn
    /\ holder = NoTask /\ waiting = <<>>
    /\ regs = {} /\ route = {}
    /\ wire = [s \in Subs |-> NoWire]
    /\ failures = [s \in Subs |-> 0]
    /\ caller = [s \in Subs |-> "new"]
    /\ hand = [s \in Subs |-> NoConn]
    /\ reader = [p \in Pairs |-> ReaderIdle]
    /\ sweep = [p \in Pairs |-> SweepIdle]
    /\ genOf = [p \in Pairs |-> 0] /\ latest = NoConn
    /\ up = {} /\ conns = 0 /\ closing = {}
    /\ bound = [w \in 1..MaxWire |-> NoConn] /\ wires = 0
    /\ case \in Cases
    /\ ends = [s \in Subs |-> 0] /\ late = {} /\ strays = {}

SubStep(s) ==
    \/ CheckOpen(s) \/ ConnectFailed(s) \/ Connected(s) \/ ConnectedResumes(s)
    \/ RedundantClosed(s) \/ RestSubscribe(s) \/ Insert(s)

ReaderStep(p) ==
    \/ ReaderTop(p) \/ ReaderLost(p) \/ ReaderConnectFailed(p) \/ ReaderGiveUp(p)
    \/ ReaderFailAll(p) \/ ReaderConnected(p) \/ ReaderConnectedResumes(p)
    \/ ReaderDiscarded(p) \/ ReaderResub(p) \/ ReaderAdopt(p)

SweepStep(p) ==
    \/ \E S \in SUBSET Subs : SweepTick(p, S)
    \/ \E s \in Subs, ok \in BOOLEAN : SweepRefresh(p, s, ok)
    \/ SweepEscalate(p) \/ SweepAdopt(p) \/ SweepFailAll(p)

UserStep(s) ==
    CloseOne(s) \/ Abandon(s) \/ DropRegistration(s) \/ ManualRefresh(s) \/ Cancel(s)

Next ==
    \/ \E s \in Subs : SubStep(s) \/ UserStep(s)
    \/ CloseAllSubscriptions \/ AClose
    \/ \E p \in Pairs :
          \/ ReaderStep(p) \/ ReaderRecv(p) \/ ReaderCrash(p)
          \/ SweepStep(p) \/ SweepCrash(p)
    \/ \E t \in Tasks : Wait(t)
    \/ \E c \in 1..MaxConn : CloseConn(c) \/ Disconnect(c)

Spec == Init /\ [][Next]_vars

-------------------------------------------------------------------------------
(* Properties.                                                             *)

Conns == 0..MaxConn

ReaderStates == [pc : {"none", "top", "recv", "connect", "connected", "giveup",
                       "failall", "discard", "resub", "adopt", "done"},
                 conn : Conns, todo : SUBSET Subs, sub : Subs \cup {NoSub},
                 old : Nat, new : Nat, tries : Nat]
SweepStates  == [pc : {"none", "sleep", "pass", "escalate", "adopt", "failall",
                       "done"},
                 due : SUBSET Subs, sub : Subs \cup {NoSub}, old : Nat, new : Nat]
CallerStates == {"new", "connect", "connected", "redundant", "rest", "insert",
                 "live", "gone", "refused"}

\* t waits in the lock's queue for a reason it still has.
StillWants(t) ==
    \/ WantsLock(t)
    \/ \E s \in Subs : t = Sub(s) /\ caller[s] = "connected"
    \/ \E p \in Pairs : t = Reader(p) /\ reader[p].pc = "connected"

StateType == closed \in BOOLEAN /\ dead \in BOOLEAN /\ gen \in Nat /\ ws \in Conns
LockType  == /\ holder \in Tasks \cup {NoTask}
             /\ waiting \in Seq(Tasks)
             /\ \A i \in DOMAIN waiting :
                   /\ StillWants(waiting[i])
                   /\ \A j \in DOMAIN waiting : waiting[i] = waiting[j] => i = j
RegType   == /\ regs \subseteq Subs /\ route \subseteq Nat \X Subs
             /\ wire \in [Subs -> Nat]
             /\ failures \in [Subs -> 0..EscalationThreshold]
UserType  == caller \in [Subs -> CallerStates] /\ hand \in [Subs -> Conns]
TaskType  == /\ reader \in [Pairs -> ReaderStates]
             /\ sweep \in [Pairs -> SweepStates]
             /\ genOf \in [Pairs -> Nat] /\ latest \in Conns
NetType   == up \subseteq Pairs /\ conns \in Conns /\ closing \subseteq Pairs
ApicType  == bound \in [1..MaxWire -> Conns] /\ wires \in 0..MaxWire
             /\ case \in Cases
SeenType  == /\ ends \in [Subs -> Nat] /\ late \subseteq Subs
             /\ strays \subseteq Pairs

\* Every variable stays within its type, and whoever queues for the lock is
\* suspended at a place where it wants it: a cancelled task leaves the queue.
TypeOK == /\ StateType /\ LockType /\ RegType /\ UserType /\ TaskType
          /\ NetType /\ ApicType /\ SeenType

\* The demux table is exactly the inverse of the registrations' current wire
\* ids, although escalation, reconnect, unsubscribe and the lock-free drop of
\* the finalizer change both around awaits of their own.
RouteIsInverse ==
    /\ route = {<<wire[s], s>> : s \in regs}
    /\ \A s, t \in regs : wire[s] = wire[t] => s = t

InHand == {hand[s] : s \in Subs} \cup {reader[p].conn : p \in
              {q \in Pairs : reader[q].pc \in {"connected", "discard"}}}

\* Every open connection is the socket's, is being closed, or is in the hands
\* of a coroutine that will adopt or close it.  The strays are the exception:
\* a task cancelled while it queued for the lock with a fresh connection (by
\* its owner, or by aclose()), and a reader that reconnected after another
\* task had ended its generation.  After aclose() there is no socket at all.
NoLeakedConnection ==
    /\ up \subseteq {ws} \cup closing \cup InHand \cup strays
    /\ closed => ws = NoConn

\* The current reader receives on the open socket, and no reader (one that was
\* superseded may run on) is still going through the registrations.
Receiving(p) == /\ reader[p].pc = "recv" /\ genOf[p] = gen
                /\ reader[p].conn = ws /\ ws \in up
                /\ \A q \in Pairs : reader[q].pc \notin {"resub", "adopt", "failall"}

\* Once the reader receives again, the APIC pushes every subscription on the
\* connection it reads, however many reconnects, rejections and escalations
\* there were: nobody is left waiting on a dead connection's id.  The late
\* ones are the exception: an id granted for one connection and adopted (by
\* the insertion of subscribe(), or by a resubscribe) when another was open.
SurvivorsHeard ==
    \A p \in Pairs : Receiving(p) => \A s \in regs \ late : bound[wire[s]] = ws

\* Whoever holds the lock between two steps awaits the close of its own spare
\* connection and then lets go: no task awaits the lock while it has it, so the
\* queue behind it always drains, cancelled tasks included.
LockIsReleased ==
    holder # NoTask =>
        /\ \/ \E s \in Subs : holder = Sub(s) /\ caller[s] = "redundant"
           \/ \E p \in Pairs : holder = Reader(p) /\ reader[p].pc = "discard"
        /\ ~Queued(holder)

\* After aclose() no reader stays parked in recv(): the latest was cancelled,
\* and the connection of an earlier one is down or is being closed, so that it
\* wakes, sees it is superseded, and stops.  The exception is again a stray: a
\* reader whose own connection a superseded one replaced has nobody to close it.
NobodyParked ==
    closed => \A p \in Pairs : reader[p].pc = "recv" =>
                  reader[p].conn \notin up \/ reader[p].conn \in closing \cup strays

-------------------------------------------------------------------------------
(* Refinement: the asyncio socket keeps the same promise as the threaded   *)
(* one.  The terminal item is put in the step that ends the stream.        *)

Phase(s) ==
    CASE caller[s] = "refused"         -> "refused"
      [] caller[s] \in {"live", "gone"} -> IF s \in regs THEN "open"
                                           ELSE IF ends[s] = 1 THEN "ended"
                                           ELSE "ending"
      [] OTHER -> "unborn"

Promise == INSTANCE Subscriptions
               WITH shutdown <- closed, phase <- [s \in Subs |-> Phase(s)]

\* The socket implements Subscriptions: no stream ends twice or reopens, the
\* step that ends it wakes its consumer, aclose() ends all of them at once,
\* and no subscribe() that was in flight opens one afterwards.
KeepsPromise == Promise!Spec

===============================================================================
