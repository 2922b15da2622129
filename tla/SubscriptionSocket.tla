-------------------------- MODULE SubscriptionSocket --------------------------
(***************************************************************************)
(* The session-shared WebSocket behind APIC object subscription: the       *)
(* threaded SubscriptionSocket of transport/_subscription_socket.py.       *)
(*                                                                         *)
(* Caller threads subscribe and unsubscribe, one reader thread and one     *)
(* refresh sweep per socket generation receive, reconnect and keep the     *)
(* subscriptions alive, and the user may close everything at any time.     *)
(* Each action is one critical section of _state_lock, or one call out of  *)
(* the lock (REST, recv, queue put) with the state it changes.  A queue is *)
(* seen from the putting side only; SubscriptionQueue models its bound and *)
(* its consumer.                                                           *)
(***************************************************************************)
EXTENDS Naturals

CONSTANTS
    Subs,                 \* local ids: one subscribe() call each
    NoSub,                \* no subscription
    MaxGen,               \* bound: _ensure_open starts no generation above it
    MaxConn,              \* bound: WebSocket connections ever opened
    MaxWire,              \* bound: wire subscriptionIds the APIC ever gives out
    MaxEvents,            \* bound: push frames the APIC ever sends
    ReconnectAttempts,    \* _RECONNECT_ATTEMPTS
    EscalationThreshold,  \* _REFRESH_FAILURE_ESCALATION_THRESHOLD
    Faults                \* which misbehaviours of the environment may happen

\* "outage": a connect may fail; "reject": the APIC may reject a subscribe;
\* "refresh": it may reject a refresh; "crash": a background thread may raise
\* outside its typed nets; "abandon": a consumer may be garbage-collected.
AllFaults == {"outage", "reject", "refresh", "crash", "abandon"}

ASSUME SubAssumption   == NoSub \notin Subs
ASSUME BoundAssumption == MaxGen \in Nat /\ MaxConn \in Nat /\ MaxWire \in Nat
                          /\ MaxEvents \in Nat
ASSUME LimitAssumption == ReconnectAttempts \in Nat \ {0}
                          /\ EscalationThreshold \in Nat \ {0}
ASSUME FaultAssumption == Faults \subseteq AllFaults

NoConn == 0
NoWire == 0
Gens   == 1..MaxGen

VARIABLES
    closed,    \* _closed
    dead,      \* _dead
    gen,       \* _generation
    ws,        \* _ws: the connection, or NoConn
    regs,      \* the local ids in _registrations
    route,     \* _wire_to_local, as pairs <<wire id, local id>>
    wire,      \* reg.wire_id
    failures,  \* reg.consecutive_refresh_failures, saturating at the threshold
    doomed,    \* _doomed: ids left by the garbage collector for the sweep
    caller,    \* where each subscribe() call and its RawSubscription stand
    reader,    \* the reader thread of each generation
    sweep,     \* the refresh thread of each generation
    owed,      \* items a thread has committed to put, after leaving the lock
    closing,   \* connections some thread has committed to ws.close()
    up,        \* connections open at both ends
    conns,     \* how many connections were ever opened
    bound,     \* the connection the APIC pushes each wire id on
    wires,     \* how many wire ids the APIC has given out
    events     \* how many frames it has sent

\* What a subscription has witnessed; read by properties only.
VARIABLES
    epoch,     \* the generation when _ensure_open() returned to subscribe()
    ends,      \* how many terminal items (_STOP or _Fatal) its queue was given
    told       \* the newest wire id its consumer was given: at first, or by a gap

lockVars   == <<closed, dead, gen, ws>>
regVars    == <<regs, route, wire, failures>>
userVars   == <<caller, epoch>>
threadVars == <<reader, sweep>>
queueVars  == <<ends, told>>
netVars    == <<up, conns>>
apicVars   == <<bound, wires, events>>
vars == <<lockVars, regVars, userVars, threadVars, queueVars, netVars, apicVars,
          doomed, owed, closing>>

-------------------------------------------------------------------------------
(* Items, threads, and what the environment does.                          *)

Kinds == {"event", "gap", "refreshFailed", "stop", "lost"}
Item(kind, w) == [kind |-> kind, wire |-> w]
Stop  == Item("stop", NoWire)
Fatal == Item("lost", NoWire)
Terminal(item) == item.kind \in {"stop", "lost"}

Client    == <<"client", 0>>      \* any user thread: close(), unsubscribe(), ...
Reader(g) == <<"reader", g>>
Sweep(g)  == <<"sweep", g>>

Owe(t, s, item) == [by |-> t, sub |-> s, item |-> item]
OweAll(t, S, item) == {Owe(t, s, item) : s \in S}
Busy(t) == \E o \in owed : o.by = t

\* A connection handshake that succeeds; the caller assigns ws.
Connect == /\ conns < MaxConn
           /\ conns' = conns + 1
           /\ up' = up \cup {conns + 1}

MayFailToConnect == "outage" \in Faults \/ conns = MaxConn

\* The subscription=yes GET answered with a fresh wire id: the APIC binds it
\* to the session's open connection, if it still has one.
Grant == /\ wires < MaxWire
         /\ wires' = wires + 1
         /\ bound' = [bound EXCEPT ![wires + 1] =
                         IF conns \in up THEN conns ELSE NoConn]
         /\ UNCHANGED events

MayReject == "reject" \in Faults \/ wires = MaxWire

-------------------------------------------------------------------------------
(* subscribe(): open the socket if needed, REST subscribe, register.       *)

OpenRefused(s) ==
    /\ caller[s] = "new"
    /\ closed \/ (ws = NoConn /\ MayFailToConnect)
    /\ caller' = [caller EXCEPT ![s] = "refused"]
    /\ UNCHANGED <<lockVars, regVars, epoch, threadVars, queueVars,
                   netVars, apicVars, doomed, owed, closing>>

OpenShared(s) ==
    /\ caller[s] = "new"
    /\ ~closed /\ ws # NoConn
    /\ caller' = [caller EXCEPT ![s] = "rest"]
    /\ epoch' = [epoch EXCEPT ![s] = gen]
    /\ UNCHANGED <<lockVars, regVars, threadVars, queueVars,
                   netVars, apicVars, doomed, owed, closing>>

\* Mutant: _ws is looked at before taking the lock, and not again.
OpenFreshRacing(s) ==
    /\ caller[s] = "new"
    /\ ~closed
    /\ gen < MaxGen
    /\ Connect
    /\ ws' = conns + 1
    /\ dead' = FALSE
    /\ gen' = gen + 1
    /\ reader' = [reader EXCEPT ![gen + 1].pc = "top"]
    /\ sweep' = [sweep EXCEPT ![gen + 1].pc = "sleep"]
    /\ caller' = [caller EXCEPT ![s] = "rest"]
    /\ epoch' = [epoch EXCEPT ![s] = gen + 1]
    /\ UNCHANGED <<closed, regVars, queueVars, apicVars,
                   doomed, owed, closing>>

OpenFresh(s) ==
    /\ caller[s] = "new"
    /\ ~closed /\ ws = NoConn
    /\ gen < MaxGen
    /\ Connect
    /\ ws' = conns + 1
    /\ dead' = FALSE
    /\ gen' = gen + 1
    /\ reader' = [reader EXCEPT ![gen + 1].pc = "top"]
    /\ sweep' = [sweep EXCEPT ![gen + 1].pc = "sleep"]
    /\ caller' = [caller EXCEPT ![s] = "rest"]
    /\ epoch' = [epoch EXCEPT ![s] = gen + 1]
    /\ UNCHANGED <<closed, regVars, queueVars, apicVars,
                   doomed, owed, closing>>

RestSubscribe(s) ==
    /\ caller[s] = "rest"
    /\ \/ /\ Grant
          /\ wire' = [wire EXCEPT ![s] = wires + 1]
          /\ caller' = [caller EXCEPT ![s] = "insert"]
       \/ /\ MayReject
          /\ caller' = [caller EXCEPT ![s] = "refused"]
          /\ UNCHANGED <<wire, apicVars>>
    /\ UNCHANGED <<lockVars, regs, route, failures, epoch,
                   threadVars, queueVars, netVars, doomed, owed, closing>>

\* Mutant: register without looking at _closed again.
InsertUnchecked(s) ==
    /\ caller[s] = "insert"
    /\ regs' = regs \cup {s}
    /\ route' = route \cup {<<wire[s], s>>}
    /\ caller' = [caller EXCEPT ![s] = "live"]
    /\ told' = [told EXCEPT ![s] = wire[s]]
    /\ UNCHANGED <<lockVars, wire, failures, epoch, threadVars, ends,
                   netVars, apicVars, doomed, owed, closing>>

Insert(s) ==
    /\ caller[s] = "insert"
    /\ \/ /\ closed
          /\ caller' = [caller EXCEPT ![s] = "refused"]
          /\ UNCHANGED <<regs, route, told>>
       \/ /\ ~closed
          /\ regs' = regs \cup {s}
          /\ route' = route \cup {<<wire[s], s>>}
          /\ caller' = [caller EXCEPT ![s] = "live"]
          /\ told' = [told EXCEPT ![s] = wire[s]]
    /\ UNCHANGED <<lockVars, wire, failures, epoch, threadVars, ends,
                   netVars, apicVars, doomed, owed, closing>>

-------------------------------------------------------------------------------
(* The user's side: RawSubscription.close(), garbage collection, and manual *)
(* refreshes.                                                              *)

\* Mutant: the registration is popped, and nobody told.
UnsubscribeSilent(t, s) ==
    /\ regs' = regs \ {s}
    /\ route' = IF s \in regs THEN {r \in route : r[1] # wire[s]} ELSE route
    /\ UNCHANGED <<owed, wire, failures>>

\* unsubscribe(s) as thread t runs it: pop under the lock, _STOP after it.
Unsubscribe(t, s) ==
    /\ regs' = regs \ {s}
    /\ route' = IF s \in regs THEN {r \in route : r[1] # wire[s]} ELSE route
    /\ owed' = IF s \in regs THEN owed \cup {Owe(t, s, Stop)} ELSE owed
    /\ UNCHANGED <<wire, failures>>

CloseOne(s) ==
    /\ caller[s] = "live"
    /\ Unsubscribe(Client, s)
    /\ UNCHANGED <<lockVars, userVars, threadVars, queueVars,
                   netVars, apicVars, doomed, closing>>

\* The finalizer of a RawSubscription dropped without close().
Abandon(s) ==
    /\ "abandon" \in Faults
    /\ caller[s] = "live"
    /\ caller' = [caller EXCEPT ![s] = "gone"]
    /\ doomed' = doomed \cup {s}
    /\ UNCHANGED <<lockVars, regVars, epoch, threadVars, queueVars,
                   netVars, apicVars, owed, closing>>

\* Mutant: a failed manual refresh feeds the escalation counter.
ManualRefreshCounted(s) ==
    /\ s \in regs /\ "refresh" \in Faults
    /\ failures' = [failures EXCEPT ![s] = @ + 1]
    /\ UNCHANGED <<lockVars, regs, route, wire, userVars, threadVars, queueVars,
                   netVars, apicVars, doomed, owed, closing>>

\* refresh_now(), refresh_all_subscriptions(): only a success changes anything.
ManualRefresh(s) ==
    /\ s \in regs /\ failures[s] # 0
    /\ failures' = [failures EXCEPT ![s] = 0]
    /\ UNCHANGED <<lockVars, regs, route, wire, userVars, threadVars, queueVars,
                   netVars, apicVars, doomed, owed, closing>>

-------------------------------------------------------------------------------
(* Closing: close_all_subscriptions() and close().                         *)

CloseAllSubscriptions ==
    /\ regs # {}
    /\ owed' = owed \cup OweAll(Client, regs, Stop)
    /\ regs' = {} /\ route' = {}
    /\ UNCHANGED <<lockVars, wire, failures, userVars, threadVars, queueVars,
                   netVars, apicVars, doomed, closing>>

\* Mutant: close() forgets the WebSocket itself.
CloseKeepingConn ==
    /\ ~closed
    /\ closed' = TRUE
    /\ owed' = owed \cup OweAll(Client, regs, Stop)
    /\ regs' = {} /\ route' = {}
    /\ ws' = NoConn
    /\ UNCHANGED <<dead, gen, wire, failures, userVars, threadVars, queueVars,
                   netVars, apicVars, doomed, closing>>

Close ==
    /\ ~closed
    /\ closed' = TRUE
    /\ owed' = owed \cup OweAll(Client, regs, Stop)
    /\ regs' = {} /\ route' = {}
    /\ ws' = NoConn
    /\ closing' = closing \cup ({ws} \ {NoConn})
    /\ UNCHANGED <<dead, gen, wire, failures, userVars, threadVars, queueVars,
                   netVars, apicVars, doomed>>

-------------------------------------------------------------------------------
(* What both background threads do with a finished resubscribe of s: the   *)
(* wire id was old when the request left, new is the answer (NoWire when   *)
(* it was rejected), and reset says whether the failure counter restarts.  *)

\* Mutant: a resubscribe that only checks that s is still registered.
SettleUnguarded(t, s, old, new, reset) ==
    IF s \notin regs THEN UNCHANGED <<regVars, owed>>
    ELSE IF new = NoWire
    THEN /\ regs' = regs \ {s}
         /\ route' = {r \in route : r[1] # old}
         /\ owed' = owed \cup {Owe(t, s, Fatal)}
         /\ UNCHANGED <<wire, failures>>
    ELSE /\ route' = {r \in route : r[1] # old} \cup {<<new, s>>}
         /\ wire' = [wire EXCEPT ![s] = new]
         /\ failures' = IF reset THEN [failures EXCEPT ![s] = 0] ELSE failures
         /\ owed' = owed \cup {Owe(t, s, Item("gap", new))}
         /\ UNCHANGED regs

\* Mutant: a failed resubscribe that does not look whether s is still there.
SettleUntracked(t, s, old, new, reset) ==
    IF new = NoWire
    THEN /\ regs' = regs \ {s}
         /\ route' = {r \in route : r[1] # old}
         /\ owed' = owed \cup {Owe(t, s, Fatal)}
         /\ UNCHANGED <<wire, failures>>
    ELSE SettleUnguarded(t, s, old, new, reset)

\* Mutant: a rejected resubscribe leaves the registration as it was.
SettleIgnoringReject(t, s, old, new, reset) ==
    IF new = NoWire \/ (s \in regs /\ wire[s] # old) THEN UNCHANGED <<regVars, owed>>
    ELSE SettleUnguarded(t, s, old, new, reset)

\* Mutant: the gap marker names the old id as the new one.
SettleSwapped(t, s, old, new, reset) ==
    IF s \in regs /\ wire[s] = old /\ new # NoWire
    THEN /\ route' = {r \in route : r[1] # old} \cup {<<new, s>>}
         /\ wire' = [wire EXCEPT ![s] = new]
         /\ owed' = owed \cup {Owe(t, s, Item("gap", old))}
         /\ UNCHANGED <<regs, failures>>
    ELSE UNCHANGED <<regVars, owed>>

Settle(t, s, old, new, reset) ==
    \/ /\ s \notin regs \/ wire[s] # old
       /\ UNCHANGED <<regVars, owed>>
    \/ /\ s \in regs /\ wire[s] = old /\ new = NoWire
       /\ regs' = regs \ {s}
       /\ route' = {r \in route : r[1] # old}
       /\ owed' = owed \cup {Owe(t, s, Fatal)}
       /\ UNCHANGED <<wire, failures>>
    \/ /\ s \in regs /\ wire[s] = old /\ new # NoWire
       /\ route' = {r \in route : r[1] # old} \cup {<<new, s>>}
       /\ wire' = [wire EXCEPT ![s] = new]
       /\ failures' = IF reset THEN [failures EXCEPT ![s] = 0] ELSE failures
       /\ owed' = owed \cup {Owe(t, s, Item("gap", new))}
       /\ UNCHANGED regs

\* _do_subscribe for s, from a background thread: the answer goes to new.
Resubscribe(answer) ==
    \/ Grant /\ answer = wires + 1
    \/ MayReject /\ answer = NoWire /\ UNCHANGED apicVars

\* Mutant: the dead connection stays in _ws.
FailKeepingSocket(t) ==
    /\ owed' = owed \cup OweAll(t, regs, Fatal)
    /\ regs' = {} /\ route' = {}
    /\ gen' = gen + 1
    /\ dead' = TRUE
    /\ UNCHANGED <<closed, ws, wire, failures, closing>>

FailAll(t) ==
    /\ owed' = owed \cup OweAll(t, regs, Fatal)
    /\ regs' = {} /\ route' = {}
    /\ gen' = gen + 1
    /\ dead' = TRUE
    /\ ws' = NoConn
    /\ closing' = closing \cup ({ws} \ {NoConn})
    /\ UNCHANGED <<closed, wire, failures>>

-------------------------------------------------------------------------------
(* The reader thread of generation g.                                      *)

ReaderIdle == [pc |-> "none", conn |-> NoConn, todo |-> {}, sub |-> NoSub,
               old |-> NoWire, new |-> NoWire, tries |-> 0]
ReaderAt(p) == [ReaderIdle EXCEPT !.pc = p]
Resubscribing(S) == [ReaderIdle EXCEPT !.pc = "resub", !.todo = S]

\* Top of the loop: superseded, or take the connection to receive on.
ReaderTop(g) ==
    /\ reader[g].pc = "top"
    /\ ~Busy(Reader(g))
    /\ reader' = [reader EXCEPT ![g] =
           IF closed \/ gen # g THEN ReaderAt("done")
           ELSE IF ws = NoConn THEN ReaderAt("failall")
           ELSE [ReaderIdle EXCEPT !.pc = "recv", !.conn = ws]]
    /\ UNCHANGED <<lockVars, regVars, userVars, sweep, queueVars,
                   netVars, apicVars, doomed, owed, closing>>

\* recv() returns a frame for the wire ids W (one already buffered, if the
\* connection is down by now); dispatch looks up its targets.
ReaderRecv(g, W) ==
    /\ reader[g].pc = "recv"
    /\ events < MaxEvents
    /\ W # {} /\ \A w \in W : w <= wires /\ bound[w] = reader[g].conn
    /\ events' = events + 1
    /\ owed' = owed \cup {Owe(Reader(g), r[2], Item("event", r[1])) :
                              r \in {r \in route : r[1] \in W /\ r[2] \in regs}}
    /\ reader' = [reader EXCEPT ![g].pc = "top"]
    /\ UNCHANGED <<lockVars, regVars, userVars, sweep, queueVars,
                   netVars, bound, wires, doomed, closing>>

\* recv() raises: stop if superseded, otherwise start reconnecting.
ReaderLost(g) ==
    /\ reader[g].pc = "recv"
    /\ reader[g].conn \notin up
    /\ reader' = [reader EXCEPT ![g] = ReaderAt(
                      IF closed \/ gen # g THEN "done" ELSE "retry")]
    /\ UNCHANGED <<lockVars, regVars, userVars, sweep, queueVars,
                   netVars, apicVars, doomed, owed, closing>>

\* One reconnect attempt, under the lock.
ReaderAttempt(g) ==
    /\ reader[g].pc = "retry"
    /\ \/ /\ closed
          /\ reader' = [reader EXCEPT ![g] = ReaderAt("done")]
          /\ UNCHANGED <<ws, netVars>>
       \/ /\ ~closed
          /\ Connect
          /\ ws' = conns + 1
          /\ reader' = [reader EXCEPT ![g].pc = "snapshot"]
       \/ /\ ~closed
          /\ MayFailToConnect
          /\ reader' = [reader EXCEPT ![g].tries = @ + 1,
                            ![g].pc = IF reader[g].tries + 1 = ReconnectAttempts
                                      THEN "giveup" ELSE "retry"]
          /\ UNCHANGED <<ws, netVars>>
    /\ UNCHANGED <<closed, dead, gen, regVars, userVars, sweep, queueVars,
                   apicVars, doomed, owed, closing>>

ReaderGiveUp(g) ==
    /\ reader[g].pc = "giveup"
    /\ reader' = [reader EXCEPT ![g] = ReaderAt(
                      IF closed THEN "done" ELSE "failall")]
    /\ UNCHANGED <<lockVars, regVars, userVars, sweep, queueVars,
                   netVars, apicVars, doomed, owed, closing>>

ReaderFailAll(g) ==
    /\ reader[g].pc = "failall"
    /\ FailAll(Reader(g))
    /\ reader' = [reader EXCEPT ![g] = ReaderAt("done")]
    /\ UNCHANGED <<userVars, sweep, queueVars, netVars, apicVars, doomed>>

\* The connection is back: which registrations are to be resubscribed.
ReaderSnapshot(g) ==
    /\ reader[g].pc = "snapshot"
    /\ \/ /\ closed
          /\ ws' = NoConn
          /\ closing' = closing \cup ({ws} \ {NoConn})
          /\ reader' = [reader EXCEPT ![g] = ReaderAt("done")]
       \/ /\ ~closed
          /\ reader' = [reader EXCEPT ![g] = Resubscribing(regs)]
          /\ UNCHANGED <<ws, closing>>
    /\ UNCHANGED <<closed, dead, gen, regVars, userVars, sweep, queueVars,
                   netVars, apicVars, doomed, owed>>

ReaderResub(g) ==
    /\ reader[g].pc = "resub"
    /\ ~Busy(Reader(g))
    /\ \E s \in reader[g].todo, answer \in 0..MaxWire :
          /\ Resubscribe(answer)
          /\ reader' = [reader EXCEPT ![g].pc = "adopt", ![g].todo = @ \ {s},
                            ![g].sub = s, ![g].old = wire[s], ![g].new = answer]
    /\ UNCHANGED <<lockVars, regVars, userVars, sweep, queueVars,
                   netVars, doomed, owed, closing>>

ReaderAdopt(g) ==
    /\ reader[g].pc = "adopt"
    /\ Settle(Reader(g), reader[g].sub, reader[g].old, reader[g].new, FALSE)
    /\ reader' = [reader EXCEPT ![g] = Resubscribing(reader[g].todo)]
    /\ UNCHANGED <<lockVars, userVars, sweep, queueVars, netVars, apicVars,
                   doomed, closing>>

ReaderResume(g) ==
    /\ reader[g].pc = "resub"
    /\ ~Busy(Reader(g))
    /\ reader[g].todo = {}
    /\ reader' = [reader EXCEPT ![g] = ReaderAt("top")]
    /\ UNCHANGED <<lockVars, regVars, userVars, sweep, queueVars,
                   netVars, apicVars, doomed, owed, closing>>

\* An exception outside the typed nets, anywhere in the loop.
ReaderCrash(g) ==
    /\ "crash" \in Faults
    /\ reader[g].pc \notin {"none", "failall", "done"}
    /\ ~Busy(Reader(g))
    /\ reader' = [reader EXCEPT ![g] = ReaderAt("failall")]
    /\ UNCHANGED <<lockVars, regVars, userVars, sweep, queueVars,
                   netVars, apicVars, doomed, owed, closing>>

ReaderStep(g) ==
    \/ ReaderTop(g) \/ ReaderLost(g) \/ ReaderAttempt(g) \/ ReaderGiveUp(g)
    \/ ReaderFailAll(g) \/ ReaderSnapshot(g) \/ ReaderResub(g)
    \/ ReaderAdopt(g) \/ ReaderResume(g)

-------------------------------------------------------------------------------
(* The refresh-sweep thread of generation g.                               *)

SweepIdle == [pc |-> "none", due |-> {}, sub |-> NoSub,
              old |-> NoWire, new |-> NoWire]
SweepAt(p) == [SweepIdle EXCEPT !.pc = p]
Passing(S) == [SweepIdle EXCEPT !.pc = "pass", !.due = S]

\* Mutant: a sweep does not look at the generation.
SweepTickBlind(g, S) ==
    /\ sweep[g].pc = "sleep"
    /\ S \subseteq regs
    /\ S # {} \/ doomed # {} \/ closed \/ dead
    /\ sweep' = [sweep EXCEPT ![g] =
           IF closed \/ dead THEN SweepAt("done") ELSE Passing(S)]
    /\ UNCHANGED <<lockVars, regVars, userVars, reader, queueVars,
                   netVars, apicVars, doomed, owed, closing>>

\* A wake-up: superseded, or take the registrations S that are due by now
\* (a wake-up that finds nothing to do changes nothing and is left out).
SweepTick(g, S) ==
    /\ sweep[g].pc = "sleep"
    /\ S \subseteq regs
    /\ S # {} \/ doomed # {} \/ closed \/ dead \/ gen # g
    /\ sweep' = [sweep EXCEPT ![g] =
           IF closed \/ dead \/ gen # g THEN SweepAt("done")
           ELSE Passing(S)]
    /\ UNCHANGED <<lockVars, regVars, userVars, reader, queueVars,
                   netVars, apicVars, doomed, owed, closing>>

\* _refresh_one: the refresh was accepted (ok) or not, and is accounted.
SweepRefresh(g, s, ok) ==
    /\ sweep[g].pc = "pass"
    /\ ~Busy(Sweep(g))
    /\ s \in sweep[g].due
    /\ ok \/ "refresh" \in Faults
    /\ LET missed == IF failures[s] < EscalationThreshold
                     THEN failures[s] + 1 ELSE EscalationThreshold
           lapsed == s \in regs /\ ~ok
       IN /\ failures' = IF s \in regs
                         THEN [failures EXCEPT ![s] = IF ok THEN 0 ELSE missed]
                         ELSE failures
          /\ sweep' = [sweep EXCEPT ![g].due = @ \ {s},
                 ![g].pc = IF lapsed /\ missed = EscalationThreshold
                           THEN "escalate" ELSE "pass",
                 ![g].sub = IF lapsed /\ missed = EscalationThreshold
                            THEN s ELSE NoSub]
          /\ owed' = IF lapsed /\ missed < EscalationThreshold
                     THEN owed \cup {Owe(Sweep(g), s, Item("refreshFailed", wire[s]))}
                     ELSE owed
    /\ UNCHANGED <<lockVars, regs, route, wire, userVars, reader, queueVars,
                   netVars, apicVars, doomed, closing>>

SweepEscalate(g) ==
    /\ sweep[g].pc = "escalate"
    /\ \E answer \in 0..MaxWire :
          /\ Resubscribe(answer)
          /\ sweep' = [sweep EXCEPT ![g].pc = "adopt", ![g].new = answer,
                                    ![g].old = wire[sweep[g].sub]]
    /\ UNCHANGED <<lockVars, regVars, userVars, reader, queueVars,
                   netVars, doomed, owed, closing>>

SweepAdopt(g) ==
    /\ sweep[g].pc = "adopt"
    /\ Settle(Sweep(g), sweep[g].sub, sweep[g].old, sweep[g].new, TRUE)
    /\ sweep' = [sweep EXCEPT ![g] = Passing(sweep[g].due)]
    /\ UNCHANGED <<lockVars, userVars, reader, queueVars, netVars, apicVars,
                   doomed, closing>>

\* After the due registrations, those the garbage collector left behind.  The
\* test of _doomed and the pop are one step here: of two sweeps that both find
\* the last id, the second one's pop(0) raises, a case of SweepCrash.
SweepReap(g) ==
    /\ sweep[g].pc = "pass"
    /\ ~Busy(Sweep(g))
    /\ sweep[g].due = {}
    /\ \/ /\ doomed = {}
          /\ sweep' = [sweep EXCEPT ![g] = SweepAt("sleep")]
          /\ UNCHANGED <<regVars, doomed, owed>>
       \/ \E s \in doomed :
             /\ doomed' = doomed \ {s}
             /\ Unsubscribe(Sweep(g), s)
             /\ UNCHANGED sweep
    /\ UNCHANGED <<lockVars, userVars, reader, queueVars, netVars, apicVars,
                   closing>>

SweepCrash(g) ==
    /\ "crash" \in Faults
    /\ sweep[g].pc \notin {"none", "failall", "done"}
    /\ ~Busy(Sweep(g))
    /\ sweep' = [sweep EXCEPT ![g] = SweepAt("failall")]
    /\ UNCHANGED <<lockVars, regVars, userVars, reader, queueVars,
                   netVars, apicVars, doomed, owed, closing>>

SweepFailAll(g) ==
    /\ sweep[g].pc = "failall"
    /\ FailAll(Sweep(g))
    /\ sweep' = [sweep EXCEPT ![g] = SweepAt("done")]
    /\ UNCHANGED <<userVars, reader, queueVars, netVars, apicVars, doomed>>

SweepStep(g) ==
    \/ \E S \in SUBSET Subs : SweepTick(g, S)
    \/ \E s \in Subs, ok \in BOOLEAN : SweepRefresh(g, s, ok)
    \/ SweepEscalate(g) \/ SweepAdopt(g) \/ SweepReap(g) \/ SweepFailAll(g)

-------------------------------------------------------------------------------
(* Steps no thread chooses: queue puts and ws.close() already committed    *)
(* to, and the network.                                                    *)

Put(o) ==
    /\ o \in owed
    /\ owed' = owed \ {o}
    /\ ends' = IF Terminal(o.item) THEN [ends EXCEPT ![o.sub] = @ + 1] ELSE ends
    /\ told' = IF o.item.kind = "gap" THEN [told EXCEPT ![o.sub] = o.item.wire]
               ELSE told
    /\ UNCHANGED <<lockVars, regVars, userVars, threadVars, netVars, apicVars,
                   doomed, closing>>

CloseConn(c) ==
    /\ c \in closing
    /\ closing' = closing \ {c}
    /\ up' = up \ {c}
    /\ UNCHANGED <<lockVars, regVars, userVars, threadVars, queueVars, conns,
                   apicVars, doomed, owed>>

Disconnect(c) ==
    /\ c \in up
    /\ up' = up \ {c}
    /\ UNCHANGED <<lockVars, regVars, userVars, threadVars, queueVars, conns,
                   apicVars, doomed, owed, closing>>

-------------------------------------------------------------------------------
Init ==
    /\ closed = FALSE /\ dead = FALSE /\ gen = 0 /\ ws = NoConn
    /\ regs = {} /\ route = {}
    /\ wire = [s \in Subs |-> NoWire]
    /\ failures = [s \in Subs |-> 0]
    /\ doomed = {} /\ owed = {} /\ closing = {}
    /\ ends = [s \in Subs |-> 0] /\ told = [s \in Subs |-> NoWire]
    /\ caller = [s \in Subs |-> "new"]
    /\ epoch = [s \in Subs |-> 0]
    /\ reader = [g \in Gens |-> ReaderIdle]
    /\ sweep = [g \in Gens |-> SweepIdle]
    /\ up = {} /\ conns = 0
    /\ bound = [w \in 1..MaxWire |-> NoConn]
    /\ wires = 0 /\ events = 0

SubStep(s) ==
    \/ OpenRefused(s) \/ OpenShared(s) \/ OpenFresh(s)
    \/ RestSubscribe(s) \/ Insert(s)

Next ==
    \/ \E s \in Subs :
          \/ SubStep(s)
          \/ CloseOne(s) \/ Abandon(s) \/ ManualRefresh(s)
    \/ CloseAllSubscriptions \/ Close
    \/ \E g \in Gens :
          \/ ReaderStep(g) \/ ReaderCrash(g)
          \/ \E W \in SUBSET (1..MaxWire) : ReaderRecv(g, W)
          \/ SweepStep(g) \/ SweepCrash(g)
    \/ \E o \in owed : Put(o)
    \/ \E c \in 1..MaxConn : CloseConn(c) \/ Disconnect(c)

Spec == Init /\ [][Next]_vars

-------------------------------------------------------------------------------
(* Fairness: the operating system runs every started thread, and a call of *)
(* subscribe() proceeds.  Nothing obliges the user to close, the APIC to   *)
(* push, or the network to fail.                                           *)

Fairness ==
    /\ \A g \in Gens : WF_vars(ReaderStep(g)) /\ WF_vars(SweepStep(g))
    /\ \A s \in Subs : WF_vars(SubStep(s))
    /\ WF_vars(\E o \in owed : Put(o))
    /\ WF_vars(\E c \in 1..MaxConn : CloseConn(c))

FairSpec == Spec /\ Fairness

-------------------------------------------------------------------------------
(* Properties.                                                             *)

Threads == {Client} \cup {Reader(g) : g \in Gens} \cup {Sweep(g) : g \in Gens}
Items   == [kind : Kinds, wire : Nat]
Conns   == 0..MaxConn

ReaderStates == [pc : {"none", "top", "recv", "retry", "giveup", "snapshot",
                       "resub", "adopt", "failall", "done"},
                 conn : Conns, todo : SUBSET Subs, sub : Subs \cup {NoSub},
                 old : Nat, new : Nat, tries : Nat]
SweepStates  == {r \in [pc : {"none", "sleep", "pass", "escalate", "adopt",
                              "failall", "done"},
                        due : SUBSET Subs, sub : Subs \cup {NoSub},
                        old : Nat, new : Nat] :
                    r.pc = "escalate" => r.sub \in Subs}

LockType   == /\ closed \in BOOLEAN /\ dead \in BOOLEAN
              /\ gen \in Nat /\ ws \in Conns
RegType    == /\ regs \subseteq Subs /\ route \subseteq Nat \X Subs
              /\ wire \in [Subs -> Nat]
              /\ failures \in [Subs -> 0..EscalationThreshold]
              /\ doomed \subseteq Subs
UserType   == /\ caller \in [Subs -> {"new", "rest", "insert", "live", "gone",
                                      "refused"}]
              /\ epoch \in [Subs -> Nat]
QueueType  == ends \in [Subs -> Nat] /\ told \in [Subs -> Nat]
OwedType   == owed \subseteq [by : Threads, sub : Subs, item : Items]
ReaderType == reader \in [Gens -> ReaderStates]
SweepType  == sweep \in [Gens -> SweepStates]
NetType    == /\ closing \subseteq 1..MaxConn /\ up \subseteq 1..MaxConn
              /\ conns \in Conns
ApicType   == /\ bound \in [1..MaxWire -> Conns]
              /\ wires \in 0..MaxWire /\ events \in 0..MaxEvents

\* Every variable stays within its type.
TypeOK == /\ LockType /\ RegType /\ UserType /\ QueueType /\ OwedType
          /\ ReaderType /\ SweepType /\ NetType /\ ApicType

\* The terminal items of s some thread still has to put.
Pending(s) == {o \in owed : o.sub = s /\ Terminal(o.item)}

\* subscribe() returned a RawSubscription.
Returned(s) == caller[s] \in {"live", "gone"}

\* A returned subscription is registered, or exactly one thread is about to
\* put its terminal item, or its queue was given exactly one: whoever pops a
\* registration under the lock ends it, and no second popper can (unsubscribe,
\* both closes, _escalate, the reconnect loop, _fail_all and the reaper race).
OneTerminal ==
    \A s \in Subs :
        /\ s \in regs => Returned(s)
        /\ s \in regs \/ ~Returned(s) => Pending(s) = {} /\ ends[s] = 0
        /\ Returned(s) /\ s \notin regs =>
              \/ ends[s] = 0 /\ \E o \in owed : Pending(s) = {o}
              \/ ends[s] = 1 /\ Pending(s) = {}

\* The demux table is exactly the inverse of the registrations' current wire
\* ids, and no two share one: an id left mapped after a resubscribe would
\* deliver every event carrying it twice (the race _escalate and the
\* reconnect loop guard against).
RouteIsInverse ==
    /\ route = {<<wire[s], s>> : s \in regs}
    /\ \A s, t \in regs : wire[s] = wire[t] => s = t

\* After close(), whatever was in flight (a subscribe, a reconnect, an
\* escalation), nothing is registered or mapped and no socket is opened.
ClosedForGood == closed => regs = {} /\ route = {} /\ ws = NoConn

\* Every connection still open is the current one or is about to be closed:
\* no reconnect, close or failure leaves a WebSocket behind.
NoLeakedConnection == \A c \in up : c = ws \/ c \in closing

\* The threads of the current generation are running.
Serving == /\ gen \in Gens
           /\ reader[gen].pc \notin {"none", "done"}
           /\ sweep[gen].pc \notin {"none", "done"}

\* An open socket has a reader and a sweep of the current generation, which
\* subscribe() relies on when it finds _ws set and starts no thread.
OpenSocketIsServed == ~closed /\ ws # NoConn => Serving

\* Every registration has a live reader and sweep: no consumer can wait on a
\* queue nothing will ever feed.
EveryConsumerServed == regs # {} => Serving

\* The sweep of generation g has s still to refresh, or is escalating it.
InHand(g, s) == \/ s \in sweep[g].due
                \/ sweep[g].pc \in {"escalate", "adopt"} /\ sweep[g].sub = s

\* The same for the registrations no _fail_all overtook inside subscribe(); and
\* whichever way a registration was made, only the sweep of the current
\* generation handles it: none of an earlier one lives on to refresh, and count
\* failures for, the streams of its successor.
ServedUnlessOvertaken ==
    \A s \in regs : /\ epoch[s] = gen => Serving
                    /\ \A g \in Gens : InHand(g, s) => g = gen

\* Within a stream, no event of a wire id comes before the gap marker that
\* announces the id: the reader delivers the marker before it receives again.
GapPrecedesItsEvents ==
    \A o \in owed : o.item.kind = "event" => o.item.wire <= told[o.sub]

\* Once the reader holds a new connection, every subscription it finds is
\* resubscribed under a new id or ends: none keeps the id of the dead socket.
ReconnectCoversAll ==
    \A s \in Subs, w \in 1..MaxWire :
        (\E g \in Gens : reader[g].pc = "resub" /\ s \in reader[g].todo
                         /\ s \in regs /\ wire[s] = w)
            ~> (s \notin regs \/ wire[s] # w)

\* After close(), both threads of every generation stop.
ThreadsStop ==
    closed ~> \A g \in Gens : reader[g].pc \in {"none", "done"}
                              /\ sweep[g].pc \in {"none", "done"}

-------------------------------------------------------------------------------
(* Refinement: a stream is open while it is registered, ending while its   *)
(* terminal item is still owed, and ended once its queue has it.           *)

Phase(s) ==
    CASE caller[s] = "refused"        -> "refused"
      [] ~Returned(s) /\ caller[s] # "refused" -> "unborn"
      [] Returned(s) /\ s \in regs    -> "open"
      [] OTHER -> IF ends[s] = 0 THEN "ending" ELSE "ended"

Promise == INSTANCE Subscriptions
               WITH shutdown <- closed, phase <- [s \in Subs |-> Phase(s)]

\* The socket implements Subscriptions, fairness included: each stream ends
\* at most once, every consumer of an ended stream is given its terminal item,
\* and close() atomically ends all streams, no subscribe() opening one later.
KeepsPromise == Promise!FairSpec

===============================================================================
