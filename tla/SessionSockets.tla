---------------------------- MODULE SessionSockets ----------------------------
(***************************************************************************)
(* The subscription socket a session creates on first use, and close().    *)
(* Nothing guards the attribute: the calls of several threads            *)
(* interleave at each of its reads and writes, those of several tasks (the *)
(* asyncio session) only where a coroutine awaits.  The inside of a socket *)
(* is SubscriptionSocket's and AsyncSubscriptionSocket's business; here it *)
(* connects, is shut, and ends its streams.                                *)
(***************************************************************************)
EXTENDS Naturals, FiniteSets

CONSTANTS
    Callers,        \* threads or tasks, one call each
    NoCaller,       \* nobody
    Plans           \* the assignments of calls to callers to consider

ASSUME PlanAssumption ==
    Plans \subseteq [Callers -> {"subscribe", "batch", "close", "page"}]
ASSUME CallerAssumption == IsFiniteSet(Callers) /\ NoCaller \notin Callers

None == 0
Sockets == 1..Cardinality(Callers)      \* in the order of their creation

VARIABLES
    call,           \* what each caller calls
    tasks,          \* they are tasks of one event loop
    loop,           \* the task that runs until it awaits, or NoCaller
    field,          \* _subscription_socket
    made,           \* how many sockets were created
    connected,      \* sockets with an open WebSocket
    shut,           \* sockets whose _closed is set
    clientOpen,     \* ~_client.is_closed
    pc,             \* where each caller stands
    sock,           \* the socket its call works on
    live            \* callers whose stream is registered, or being ended

\* What happened, for the properties.
VARIABLES
    lost,           \* sockets the attribute was overwritten over
    before,         \* at each close(): the sockets and streams there were
    overlaps,       \* callers whose call ran at the same time as a close()
    crashed         \* callers whose call met None in the attribute

sessionVars == <<call, tasks, loop, field, made, connected, shut, clientOpen, pc,
                 sock, live, lost, before, overlaps, crashed>>
history == <<lost, before, overlaps, crashed>>
socketVars == <<made, connected, shut, live>>

Over == {"stream", "refused", "error", "crashed", "done", "closed"}
Running(t) == pc[t] \notin Over \cup {"start"}

Turn(t) == loop \in {NoCaller, t}
Goto(t, p) == pc' = [pc EXCEPT ![t] = p]
KeepLoop(t) == loop' = IF tasks THEN t ELSE NoCaller
Await == loop' = NoCaller

\* A call begins: every close() that runs overlaps it, and it overlaps them.
Begin(t) ==
    /\ pc[t] = "start" /\ Turn(t)
    /\ LET others == {u \in Callers \ {t} : Running(u)}
           racing == {u \in others : call[u] = "close"}
       IN overlaps' = overlaps \cup (IF racing # {} THEN {t} ELSE {})
                               \cup (IF call[t] = "close" THEN others ELSE {})

\* An AttributeError of None: the call is over.
Crash(t) == Goto(t, "crashed") /\ crashed' = crashed \cup {t} /\ Await

-------------------------------------------------------------------------------
(* subscribe().                                                            *)

SubscribeCheck(t) ==
    /\ call[t] = "subscribe" /\ Begin(t)
    /\ Goto(t, IF field = None THEN "create" ELSE "use") /\ KeepLoop(t)
    /\ UNCHANGED <<call, tasks, field, socketVars, clientOpen, sock, lost, before,
                   crashed>>

Overwritten(new) == IF field \in {None, new} THEN {} ELSE {field}

SubscribeCreate(t) ==
    /\ pc[t] = "create" /\ Turn(t)
    /\ made' = made + 1 /\ field' = made + 1
    /\ lost' = lost \cup Overwritten(made + 1)
    /\ Goto(t, "use") /\ KeepLoop(t)
    /\ UNCHANGED <<call, tasks, connected, shut, live, clientOpen, sock, before,
                   overlaps, crashed>>

\* The attribute is read again; the socket's subscribe() goes on with it.
SubscribeUse(t) ==
    /\ pc[t] = "use" /\ Turn(t)
    /\ IF field = None THEN Crash(t) /\ UNCHANGED sock
       ELSE /\ sock' = [sock EXCEPT ![t] = field]
            /\ Goto(t, "open") /\ KeepLoop(t) /\ UNCHANGED crashed
    /\ UNCHANGED <<call, tasks, field, socketVars, clientOpen, lost, before, overlaps>>

\* _ensure_open(): refused once shut; the connection does not need the client.
Open(t) ==
    /\ pc[t] = "open" /\ Turn(t)
    /\ \/ sock[t] \in shut /\ Goto(t, "refused") /\ UNCHANGED connected
       \/ /\ sock[t] \notin shut
          /\ Goto(t, "rest") /\ connected' = connected \cup {sock[t]}
       \/ sock[t] \notin shut \cup connected /\ Goto(t, "error") /\ UNCHANGED connected
    /\ Await
    /\ UNCHANGED <<call, tasks, field, made, shut, live, clientOpen, sock, history>>

\* The GET is the client's; a failure leaves the connection as it is.
Rest(t) ==
    /\ pc[t] = "rest" /\ Turn(t)
    /\ \/ clientOpen /\ Goto(t, "insert")
       \/ Goto(t, "error")
    /\ Await
    /\ UNCHANGED <<call, tasks, field, socketVars, clientOpen, sock, history>>

Insert(t) ==
    /\ pc[t] = "insert" /\ Turn(t)
    /\ IF sock[t] \in shut THEN Goto(t, "refused") /\ UNCHANGED live
       ELSE live' = live \cup {t} /\ Goto(t, "stream")
    /\ Await
    /\ UNCHANGED <<call, tasks, field, made, connected, shut, clientOpen, sock,
                   history>>

-------------------------------------------------------------------------------
(* list_subscriptions(), refresh_all_subscriptions() and                   *)
(* close_all_subscriptions(), which ends the socket's streams.             *)

\* Mutant: the token is looked after between the test and the use.
BatchCheckAwaits(t) ==
    /\ call[t] = "batch" /\ Begin(t)
    /\ Goto(t, IF field = None THEN "done" ELSE "batch") /\ Await
    /\ UNCHANGED <<call, tasks, field, socketVars, clientOpen, sock, lost, before,
                   crashed>>

BatchCheck(t) ==
    /\ call[t] = "batch" /\ Begin(t)
    /\ IF field = None THEN Goto(t, "done") /\ Await ELSE Goto(t, "batch") /\ KeepLoop(t)
    /\ UNCHANGED <<call, tasks, field, socketVars, clientOpen, sock, lost, before,
                   crashed>>

BatchUse(t) ==
    /\ pc[t] = "batch" /\ Turn(t)
    /\ IF field = None THEN Crash(t) /\ UNCHANGED sock
       ELSE /\ sock' = [sock EXCEPT ![t] = field]
            /\ Goto(t, "batchrun") /\ Await /\ UNCHANGED crashed
    /\ UNCHANGED <<call, tasks, field, socketVars, clientOpen, lost, before, overlaps>>

BatchRun(t) ==
    /\ pc[t] = "batchrun" /\ Turn(t)
    /\ live' \in {live, {u \in live : sock[u] # sock[t]}}
    /\ Goto(t, "done") /\ Await
    /\ UNCHANGED <<call, tasks, field, made, connected, shut, clientOpen, sock,
                   history>>

-------------------------------------------------------------------------------
(* close().                                                                *)

CloseCheck(t) ==
    /\ call[t] = "close" /\ Begin(t)
    /\ Goto(t, IF field = None THEN "client" ELSE "close") /\ KeepLoop(t)
    /\ before' = [before EXCEPT ![t] = [sockets |-> connected, streams |-> live]]
    /\ UNCHANGED <<call, tasks, field, socketVars, clientOpen, sock, lost, crashed>>

\* The attribute is read again for the socket's own close().
CloseUse(t) ==
    /\ pc[t] = "close" /\ Turn(t)
    /\ IF field = None THEN Crash(t) /\ UNCHANGED sock
       ELSE /\ sock' = [sock EXCEPT ![t] = field]
            /\ Goto(t, "shut") /\ Await /\ UNCHANGED crashed
    /\ UNCHANGED <<call, tasks, field, socketVars, clientOpen, lost, before, overlaps>>

\* It returns at once if the socket was closed already; otherwise it forgets
\* the registrations, and then wakes their consumers and closes the connection.
CloseShut(t) ==
    /\ pc[t] = "shut" /\ Turn(t)
    /\ shut' = shut \cup {sock[t]}
    /\ IF sock[t] \in shut THEN Goto(t, "forget") /\ KeepLoop(t)
                            ELSE Goto(t, "stop") /\ Await
    /\ UNCHANGED <<call, tasks, field, made, connected, live, clientOpen, sock, history>>

\* Mutant: the connection is closed, nobody is told.
CloseStopSilent(t) ==
    /\ pc[t] = "stop" /\ Turn(t)
    /\ connected' = connected \ {sock[t]}
    /\ Goto(t, "forget") /\ KeepLoop(t)
    /\ UNCHANGED <<call, tasks, field, made, shut, live, clientOpen, sock, history>>

CloseStop(t) ==
    /\ pc[t] = "stop" /\ Turn(t)
    /\ live' = {u \in live : sock[u] # sock[t]}
    /\ connected' = connected \ {sock[t]}
    /\ Goto(t, "forget") /\ KeepLoop(t)
    /\ UNCHANGED <<call, tasks, field, made, shut, clientOpen, sock, history>>

\* Whatever socket the attribute holds by now is dropped.
CloseForget(t) ==
    /\ pc[t] = "forget" /\ Turn(t)
    /\ field' = None
    /\ lost' = lost \cup Overwritten(sock[t])
    /\ Goto(t, "client") /\ KeepLoop(t)
    /\ UNCHANGED <<call, tasks, socketVars, clientOpen, sock, before, overlaps, crashed>>

CloseClient(t) ==
    /\ pc[t] = "client" /\ Turn(t)
    /\ clientOpen' = FALSE
    /\ Goto(t, "closed") /\ Await
    /\ UNCHANGED <<call, tasks, field, socketVars, sock, history>>

-------------------------------------------------------------------------------
SessionInit ==
    /\ call \in Plans /\ tasks \in BOOLEAN /\ loop = NoCaller
    /\ field = None /\ made = 0 /\ connected = {} /\ shut = {} /\ clientOpen = TRUE
    /\ pc = [t \in Callers |-> "start"] /\ sock = [t \in Callers |-> None] /\ live = {}
    /\ lost = {} /\ overlaps = {} /\ crashed = {}
    /\ before = [t \in Callers |-> [sockets |-> {}, streams |-> {}]]

SessionNext ==
    \E t \in Callers :
        \/ SubscribeCheck(t) \/ SubscribeCreate(t) \/ SubscribeUse(t)
        \/ Open(t) \/ Rest(t) \/ Insert(t)
        \/ BatchCheck(t) \/ BatchUse(t) \/ BatchRun(t)
        \/ CloseCheck(t) \/ CloseUse(t) \/ CloseShut(t)
        \/ CloseStop(t) \/ CloseForget(t) \/ CloseClient(t)

SessionSpec == SessionInit /\ [][SessionNext]_sessionVars

-------------------------------------------------------------------------------
(* Properties.                                                             *)

SessionTypeOK ==
    /\ call \in Plans /\ tasks \in BOOLEAN /\ loop \in Callers \cup {NoCaller}
    /\ field \in 0..made /\ made \in 0..Cardinality(Callers)
    /\ connected \subseteq 1..made /\ shut \subseteq 1..made /\ lost \subseteq 1..made
    /\ clientOpen \in BOOLEAN /\ overlaps \subseteq Callers /\ crashed \subseteq Callers
    /\ pc \in [Callers -> Over \cup {"start", "create", "use", "open", "rest",
                                     "insert", "batch", "batchrun", "close", "shut", "stop",
                                     "forget", "client"}]
    /\ sock \in [Callers -> 0..made] /\ live \subseteq {t \in Callers : sock[t] # None}
    /\ before \in [Callers -> [sockets : SUBSET Sockets, streams : SUBSET Callers]]

\* The socket s is in the hands of a close() that has shut it and goes on.
BeingClosed(s) == \E u \in Callers : pc[u] = "stop" /\ sock[u] = s

\* When close() has returned, each stream there was when it was called has
\* ended and each connection is closed, as close() promises (session.py:239).
\* Excepted are sockets the attribute no longer named, overwritten by a second
\* first subscribe() or by a second close(), and those another close() still
\* works on.  Any other open connection is named by the attribute, so that a
\* close() to come reaches it: a subscribe() that close() overtook, or that
\* follows it, opens a fresh socket.
CloseReleases ==
    /\ \A t \in Callers : pc[t] = "closed" =>
          /\ \A u \in before[t].streams \cap live :
                sock[u] \in lost \/ BeingClosed(sock[u])
          /\ \A s \in before[t].sockets \cap connected : s \in lost \/ BeingClosed(s)
    /\ \A s \in connected \cup {sock[u] : u \in live} :
          IF s \in shut THEN BeingClosed(s) ELSE s \in lost \cup {field}

\* A call fails on a cleared attribute only if it ran at the same time as a
\* close(), and then only between threads: a task awaits nothing between its
\* test of the attribute and its use.  For the same reason tasks overwrite a
\* socket only by closing twice at once.
OnlyRacesHurt ==
    /\ \A t \in crashed : t \in overlaps /\ ~tasks
    /\ tasks /\ lost # {} => Cardinality({t \in Callers : call[t] = "close"}) > 1
===============================================================================
