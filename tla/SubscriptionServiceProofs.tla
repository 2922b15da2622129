----------------------- MODULE SubscriptionServiceProofs -----------------------
(***************************************************************************)
(* Proofs about SubscriptionSocket when no background thread crashes, for  *)
(* any number of subscriptions, every bound and all other faults: an open  *)
(* socket is served, no connection leaks, and gap markers come first.  The *)
(* invariant says which thread may be where: only the current generation's *)
(* reader is ever past its start, and _ws is set exactly while it runs.    *)
(***************************************************************************)
EXTENDS SubscriptionSocketProofs

USE SubAssumption, BoundAssumption, LimitAssumption
USE DEF lockVars, regVars, userVars, threadVars, queueVars, netVars, apicVars

NoCrash == "crash" \notin Faults

Active(p) == p \notin {"none", "done"}
Current(p) == gen \in Gens /\ reader[gen].pc = p

\* Superseded readers are gone, and no sweep fails.
Quiet == \A g \in Gens : /\ g # gen => ~Active(reader[g].pc)
                         /\ sweep[g].pc # "failall"

\* Until close(), the socket is set exactly while its reader and sweep run.
Served == ~closed =>
    /\ ws # NoConn => Serving /\ ~dead
    /\ gen \in Gens /\ Active(reader[gen].pc) => ws # NoConn

\* The reader receives on the current connection, and replaces only a dead one.
Attached ==
    /\ ws <= conns /\ up \subseteq 1..conns
    /\ ~closed => /\ Current("recv")  => reader[gen].conn = ws
                  /\ Current("retry") => ws \notin up

\* A subscribe() call that opened or found the socket in this generation finds
\* it still set.
Joining ==
    \A s \in Subs : caller[s] \notin {"new", "refused"} =>
        epoch[s] <= gen /\ (~closed /\ epoch[s] = gen => ws # NoConn)

ServiceInv == Quiet /\ Served /\ Attached /\ NoLeakedConnection /\ Joining

\* Gap markers, when no refresh fails either: the sweep resubscribes nothing.
NoEscalation ==
    /\ \A g \in Gens : sweep[g].pc \notin {"escalate", "adopt"}
    /\ \A s \in Subs : failures[s] = 0

\* The only gap marker owed is that of the resubscribe the current reader has
\* just adopted, and no newer id was given to the stream, nor to its consumer.
GapOwed(o) == o \in owed /\ o.item.kind = "gap"
OneGap ==
    /\ \A o, p \in owed : GapOwed(o) /\ GapOwed(p) => o = p
    /\ \A o \in owed : GapOwed(o) =>
          /\ Current("resub") /\ o.by = Reader(gen)
          /\ Returned(o.sub) /\ told[o.sub] <= o.item.wire
          /\ o.sub \in regs => o.item.wire <= wire[o.sub]

\* A registration's consumer knows its wire id, or is about to.
Told ==
    \A s \in Subs :
        /\ wire[s] <= wires
        /\ ~Returned(s) => told[s] = NoWire
        /\ s \in regs =>
              /\ told[s] <= wire[s]
              /\ told[s] = wire[s] \/ \E o \in owed :
                    GapOwed(o) /\ o.sub = s /\ o.item.wire = wire[s]

\* The answer a reader is about to adopt is newer than the id it replaces.
Newer == \A g \in Gens : reader[g].pc = "adopt" /\ reader[g].new # NoWire =>
             reader[g].old < reader[g].new /\ reader[g].new <= wires

GapInv == NoEscalation /\ OneGap /\ Told /\ Newer /\ GapPrecedesItsEvents

-------------------------------------------------------------------------------
(* Which thread runs when.                                                 *)

LEMMA InitServiceInv == Init => ServiceInv
<1> SUFFICES ASSUME Init PROVE ServiceInv
  OBVIOUS
<1>1. Quiet
  BY DEF Init, Quiet, Active, ReaderIdle, SweepIdle
<1>2. Served /\ Joining
  BY DEF Init, Served, Joining, Gens
<1>3. Attached /\ NoLeakedConnection
  BY DEF Init, Attached, NoLeakedConnection, Current, Gens, NoConn
<1> QED
  BY <1>1, <1>2, <1>3 DEF ServiceInv

\* Only subscribe() calls that joined the socket have an epoch.
Joined(s) == caller[s] \notin {"new", "refused"}

\* A step that leaves the socket and its readers alone.
LEMMA SocketKept ==
    ASSUME ServiceInv, UNCHANGED <<closed, dead, gen, ws, reader, conns, closing>>,
           up' \subseteq up,
           \A g \in Gens : /\ sweep'[g].pc # "failall"
                           /\ Active(sweep[g].pc) => Active(sweep'[g].pc),
           \A s \in Subs : Joined(s)' => Joined(s) /\ epoch'[s] = epoch[s]
    PROVE  ServiceInv'
<1>1. Quiet'
  BY DEF ServiceInv, Quiet
<1>2. Served'
  BY DEF ServiceInv, Served, Serving, Active
<1>3. Attached' /\ NoLeakedConnection'
  BY DEF ServiceInv, Attached, NoLeakedConnection, Current
<1>4. Joining'
  BY DEF ServiceInv, Joining, Joined
<1> QED
  BY <1>1, <1>2, <1>3, <1>4 DEF ServiceInv

\* A step of a running reader that leaves the socket alone.
LEMMA ReaderMoved ==
    ASSUME ServiceInv, NEW g \in Gens, Active(reader[g].pc),
           UNCHANGED <<closed, dead, gen, ws, sweep, netVars, closing, userVars>>,
           \A h \in Gens \ {g} : reader'[h] = reader[h],
           ~closed /\ gen = g =>
               /\ Active(reader'[g].pc)
               /\ reader'[g].pc = "recv" => reader'[g].conn = ws
               /\ reader'[g].pc = "retry" => ws \notin up
    PROVE  ServiceInv'
<1>0. g = gen
  BY DEF ServiceInv, Quiet
<1>1. Quiet'
  BY <1>0 DEF ServiceInv, Quiet
<1>a. ~closed => /\ Active(reader'[gen].pc)
                 /\ reader'[gen].pc = "recv" => reader'[gen].conn = ws
                 /\ reader'[gen].pc = "retry" => ws \notin up
  BY <1>0
<1>2. Served'
  BY <1>0, <1>a DEF ServiceInv, Served, Serving, Active
<1>3. Attached' /\ NoLeakedConnection'
  <2>1. ~closed => /\ Current("recv")'  => reader'[gen].conn = ws
                   /\ Current("retry")' => ws \notin up
    BY <1>a DEF Current
  <2>2. ws' <= conns' /\ up' \subseteq 1..conns' /\ NoLeakedConnection'
    BY DEF ServiceInv, Attached, NoLeakedConnection
  <2> QED
    BY <2>1, <2>2 DEF Attached
<1>4. Joining'
  BY DEF ServiceInv, Joining
<1> QED
  BY <1>1, <1>2, <1>3, <1>4 DEF ServiceInv

\* The steps of the readers and sweeps that run, and their current generation.
LEMMA ReaderIsCurrent ==
    ASSUME ServiceInv, NEW g \in Gens, Active(reader[g].pc)
    PROVE  g = gen /\ (~closed => ws # NoConn)
  BY DEF ServiceInv, Quiet, Served

LEMMA NextServiceInv ==
    NoCrash /\ TypeOK /\ ClosedForGood /\ ServiceInv /\ [Next]_vars => ServiceInv'
<1> SUFFICES ASSUME NoCrash, TypeOK, ClosedForGood, ServiceInv, [Next]_vars
             PROVE  ServiceInv'
  OBVIOUS
<1>r. reader \in [Gens -> ReaderStates] /\ sweep \in [Gens -> SweepStates]
  BY DEF TypeOK, ReaderType, SweepType
<1>u. caller \in [Subs -> {"new", "rest", "insert", "live", "gone", "refused"}]
      /\ epoch \in [Subs -> Nat] /\ gen \in Nat
  BY DEF TypeOK, UserType, LockType
<1>n. ws \in Conns /\ conns \in Conns /\ closing \subseteq 1..MaxConn
  BY DEF TypeOK, LockType, NetType
<1>s. \A g \in Gens : sweep[g].pc # "failall"
  BY DEF ServiceInv, Quiet
\* Steps of callers, which leave the threads alone.
<1>1. ASSUME UNCHANGED <<lockVars, threadVars, conns, closing>>, up' \subseteq up,
             \A s \in Subs : Joined(s)' => Joined(s) /\ epoch'[s] = epoch[s]
      PROVE  ServiceInv'
  BY <1>1, <1>s, SocketKept
<1>2. ASSUME NEW s \in Subs, OpenRefused(s) \/ RestSubscribe(s) \/ Insert(s)
                             \/ CloseOne(s) \/ Abandon(s) \/ ManualRefresh(s)
      PROVE  ServiceInv'
  <2>1. \A r \in Subs : Joined(r)' => Joined(r) /\ epoch'[r] = epoch[r]
    BY <1>2, <1>u DEF OpenRefused, RestSubscribe, Insert, CloseOne, Abandon,
         ManualRefresh, Joined
  <2>2. UNCHANGED <<lockVars, threadVars, netVars, closing>>
    BY <1>2 DEF OpenRefused, RestSubscribe, Insert, CloseOne, Abandon, ManualRefresh
  <2> QED
    BY <1>1, <2>1, <2>2
<1>3. CASE CloseAllSubscriptions
  BY <1>1, <1>3 DEF CloseAllSubscriptions, Joined
<1>4. ASSUME NEW o \in owed, Put(o) PROVE ServiceInv'
  BY <1>1, <1>4 DEF Put, Joined
<1>5. ASSUME NEW c \in 1..MaxConn, Disconnect(c) PROVE ServiceInv'
  BY <1>1, <1>5 DEF Disconnect, Joined
<1>6. CASE UNCHANGED vars
  BY <1>1, <1>6 DEF vars, Joined
<1>7. ASSUME NEW s \in Subs, OpenShared(s) PROVE ServiceInv'
  <2>1. /\ UNCHANGED <<lockVars, threadVars, netVars, closing>>
        /\ ws # NoConn /\ epoch'[s] = gen
        /\ \A r \in Subs \ {s} : caller'[r] = caller[r] /\ epoch'[r] = epoch[r]
    BY <1>7, <1>u DEF OpenShared
  <2>2. Quiet' /\ Served' /\ Attached' /\ NoLeakedConnection'
    BY <2>1 DEF ServiceInv, Quiet, Served, Serving, Attached, Current,
         NoLeakedConnection
  <2>3. Joining'
    BY <1>u, <2>1 DEF ServiceInv, Joining
  <2> QED
    BY <2>2, <2>3 DEF ServiceInv
<1>8. ASSUME NEW s \in Subs, OpenFresh(s) PROVE ServiceInv'
  <2>0. gen + 1 \in Gens /\ ~closed /\ ws = NoConn
    BY <1>8, <1>u DEF OpenFresh, Gens
  <2>1. /\ closed' = closed /\ dead' = FALSE /\ gen' = gen + 1
        /\ ws' = conns + 1 /\ conns' = conns + 1 /\ up' = up \cup {conns + 1}
        /\ closing' = closing
    BY <1>8, Zenon DEF OpenFresh, Connect
  <2>2. /\ reader'[gen + 1].pc = "top" /\ sweep'[gen + 1].pc = "sleep"
        /\ \A g \in Gens \ {gen + 1} : reader'[g] = reader[g] /\ sweep'[g] = sweep[g]
    BY <1>8, <1>r, <2>0 DEF OpenFresh, ReaderStates, SweepStates
  <2>3. /\ epoch'[s] = gen + 1
        /\ \A r \in Subs \ {s} : caller'[r] = caller[r] /\ epoch'[r] = epoch[r]
    BY <1>8, <1>u DEF OpenFresh
  <2>4. ws' # NoConn
    BY <1>n, <2>1 DEF Conns, NoConn
  <2>5. \A g \in Gens : ~Active(reader[g].pc)
    BY <2>0, ReaderIsCurrent
  <2>6. Quiet'
    BY <1>s, <2>1, <2>2, <2>5 DEF Quiet
  <2>7. Served'
    BY <2>0, <2>1, <2>2, <2>4 DEF Served, Serving, Active
  <2>8. Attached' /\ NoLeakedConnection'
    <3>1. ws' <= conns' /\ up' \subseteq 1..conns'
      BY <1>n, <2>1 DEF ServiceInv, Attached, Conns
    <3>2. ~Current("recv")' /\ ~Current("retry")'
      BY <2>1, <2>2 DEF Current
    <3>3. \A c \in up : c \in closing
      BY <1>n, <2>0 DEF ServiceInv, NoLeakedConnection, Attached, NoConn, Conns
    <3> QED
      BY <2>1, <3>1, <3>2, <3>3 DEF Attached, NoLeakedConnection
  <2>9. Joining'
    BY <1>u, <2>1, <2>3, <2>4 DEF ServiceInv, Joining
  <2> QED
    BY <2>6, <2>7, <2>8, <2>9 DEF ServiceInv
<1>9. CASE Close
  <2>1. /\ closed' /\ ws' = NoConn /\ UNCHANGED <<gen, threadVars, netVars, userVars>>
        /\ closing' = closing \cup ({ws} \ {NoConn})
    BY <1>9, Zenon DEF Close
  <2>2. Quiet' /\ Served' /\ Joining'
    BY <2>1 DEF ServiceInv, Quiet, Served, Joining
  <2>3. Attached' /\ NoLeakedConnection'
    BY <1>n, <2>1 DEF ServiceInv, Attached, NoLeakedConnection, NoConn, Conns
  <2> QED
    BY <2>2, <2>3 DEF ServiceInv
<1>10. ASSUME NEW c \in 1..MaxConn, CloseConn(c) PROVE ServiceInv'
  <2>1. UNCHANGED <<lockVars, threadVars, userVars, conns>>
        /\ up' = up \ {c} /\ closing' = closing \ {c}
    BY <1>10 DEF CloseConn
  <2>2. Quiet' /\ Served' /\ Joining'
    BY <2>1 DEF ServiceInv, Quiet, Served, Serving, Joining
  <2>3. Attached' /\ NoLeakedConnection'
    BY <2>1 DEF ServiceInv, Attached, NoLeakedConnection, Current
  <2> QED
    BY <2>2, <2>3 DEF ServiceInv
\* The sweep.
<1>11. ASSUME NEW g \in Gens, NEW S \in SUBSET Subs, SweepTick(g, S)
       PROVE  ServiceInv'
  <2>1. UNCHANGED <<lockVars, reader, netVars, closing, userVars>>
    BY <1>11 DEF SweepTick
  <2>2. /\ \A h \in Gens \ {g} : sweep'[h] = sweep[h]
        /\ sweep'[g].pc = IF closed \/ dead \/ gen # g THEN "done" ELSE "pass"
    BY <1>11, <1>r DEF SweepTick, SweepAt, Passing, SweepIdle
  <2>3. Quiet' /\ Attached' /\ NoLeakedConnection' /\ Joining'
    BY <2>1, <2>2 DEF ServiceInv, Quiet, Attached, NoLeakedConnection, Joining, Current
  <2>4. Served'
    BY <2>1, <2>2 DEF ServiceInv, Served, Serving, Active
  <2> QED
    BY <2>3, <2>4 DEF ServiceInv
<1>12. ASSUME NEW g \in Gens, Active(sweep[g].pc), Active(sweep'[g].pc),
              sweep'[g].pc # "failall", \A h \in Gens \ {g} : sweep'[h] = sweep[h],
              UNCHANGED <<lockVars, reader, netVars, closing, userVars>>
       PROVE  ServiceInv'
  BY <1>12, <1>s, SocketKept DEF Joined
<1>13. ASSUME NEW g \in Gens, NEW s \in Subs, NEW ok \in BOOLEAN,
              SweepRefresh(g, s, ok)
       PROVE  ServiceInv'
  <2>1. /\ UNCHANGED <<lockVars, reader, netVars, closing, userVars>>
        /\ sweep[g].pc = "pass" /\ sweep'[g].pc \in {"escalate", "pass"}
        /\ \A h \in Gens \ {g} : sweep'[h] = sweep[h]
    BY <1>13, <1>r DEF SweepRefresh, SweepStates
  <2> QED
    BY <1>12, <2>1 DEF Active
<1>14. ASSUME NEW g \in Gens, SweepEscalate(g) PROVE ServiceInv'
  <2>1. /\ UNCHANGED <<lockVars, reader, netVars, closing, userVars>>
        /\ sweep[g].pc = "escalate" /\ sweep'[g].pc = "adopt"
        /\ \A h \in Gens \ {g} : sweep'[h] = sweep[h]
    BY <1>14, <1>r DEF SweepEscalate, SweepStates
  <2> QED
    BY <1>12, <2>1 DEF Active
<1>15. ASSUME NEW g \in Gens, SweepAdopt(g) \/ SweepReap(g) PROVE ServiceInv'
  <2>1. /\ UNCHANGED <<lockVars, reader, netVars, closing, userVars>>
        /\ sweep[g].pc \in {"adopt", "pass"} /\ sweep'[g].pc \in {"pass", "sleep"}
        /\ \A h \in Gens \ {g} : sweep'[h] = sweep[h]
    BY <1>15, <1>r, ZenonT(60) DEF SweepAdopt, SweepReap, SweepStates, SweepAt, Passing, SweepIdle
  <2> QED
    BY <1>12, <2>1 DEF Active
<1>16. ASSUME NEW g \in Gens, SweepFailAll(g) \/ SweepCrash(g) \/ ReaderCrash(g)
       PROVE  ServiceInv'
  BY <1>16, <1>s DEF SweepFailAll, SweepCrash, ReaderCrash, NoCrash
\* The reader.
<1>17. ASSUME NEW g \in Gens, NEW p,
              p \in {"top", "recv", "retry", "giveup", "snapshot", "resub", "adopt",
                    "failall"},
              reader[g].pc = p
       PROVE  g = gen /\ Active(reader[g].pc) /\ (~closed => ws # NoConn)
  BY <1>17, ReaderIsCurrent DEF Active
<1>18. ASSUME NEW g \in Gens, ReaderTop(g) PROVE ServiceInv'
  <2>1. /\ UNCHANGED <<lockVars, sweep, netVars, closing, userVars>>
        /\ \A h \in Gens \ {g} : reader'[h] = reader[h]
        /\ reader[g].pc = "top"
    BY <1>18, <1>r DEF ReaderTop
  <2>2. ~closed /\ gen = g => reader'[g].pc = "recv" /\ reader'[g].conn = ws
    BY <1>17, <1>18, <1>r, <2>1 DEF ReaderTop, ReaderIdle
  <2> QED
    BY <1>17, <2>1, <2>2, ReaderMoved DEF Active
<1>19. ASSUME NEW g \in Gens, NEW V \in SUBSET (1..MaxWire), ReaderRecv(g, V)
       PROVE  ServiceInv'
  <2>1. /\ UNCHANGED <<lockVars, sweep, netVars, closing, userVars>>
        /\ \A h \in Gens \ {g} : reader'[h] = reader[h]
        /\ reader[g].pc = "recv" /\ reader'[g].pc = "top"
    BY <1>19, <1>r DEF ReaderRecv, ReaderStates
  <2> QED
    BY <1>17, <2>1, ReaderMoved DEF Active
<1>20. ASSUME NEW g \in Gens, ReaderLost(g) PROVE ServiceInv'
  <2>1. /\ UNCHANGED <<lockVars, sweep, netVars, closing, userVars>>
        /\ \A h \in Gens \ {g} : reader'[h] = reader[h]
        /\ reader[g].pc = "recv" /\ reader[g].conn \notin up
        /\ reader'[g].pc = IF closed \/ gen # g THEN "done" ELSE "retry"
    BY <1>20, <1>r DEF ReaderLost, ReaderAt, ReaderIdle
  <2>2. ~closed /\ gen = g => ws \notin up
    BY <2>1 DEF ServiceInv, Attached, Current
  <2> QED
    BY <1>17, <2>1, <2>2, ReaderMoved DEF Active
<1>21. ASSUME NEW g \in Gens, ReaderAttempt(g) PROVE ServiceInv'
  <2>1. /\ UNCHANGED <<closed, dead, gen, sweep, closing, userVars>>
        /\ \A h \in Gens \ {g} : reader'[h] = reader[h]
        /\ reader[g].pc = "retry"
    BY <1>21, <1>r DEF ReaderAttempt
  <2>2. CASE UNCHANGED <<ws, netVars>> /\ (~closed => reader'[g].pc \in {"retry", "giveup"})
    <3>1. ~closed /\ gen = g => ws \notin up
      BY <2>1 DEF ServiceInv, Attached, Current
    <3> QED
      BY <1>17, <2>1, <2>2, <3>1, ReaderMoved DEF Active
  <2>3. CASE /\ ~closed /\ Connect /\ ws' = conns + 1 /\ reader'[g].pc = "snapshot"
    <3>0. g = gen /\ ws # NoConn /\ ws \notin up
      BY <1>17, <2>1, <2>3 DEF ServiceInv, Attached, Current
    <3>1. conns' = conns + 1 /\ up' = up \cup {conns + 1}
      BY <2>3 DEF Connect
    <3>2. Quiet'
      BY <2>1, <2>3, <3>0 DEF ServiceInv, Quiet
    <3>3. ws' # NoConn
      BY <1>n, <2>3 DEF Conns, NoConn
    <3>4. Served'
      BY <2>1, <2>3, <3>0, <3>3 DEF ServiceInv, Served, Serving, Active
    <3>5. Attached'
      <4>1. ws' <= conns' /\ up' \subseteq 1..conns'
        <5>1. up \subseteq 1..conns /\ conns \in Nat
          BY <1>n DEF ServiceInv, Attached, Conns
        <5> QED
          BY <2>3, <3>1, <5>1
      <4> QED
        BY <2>1, <2>3, <3>0, <4>1 DEF Attached, Current
    <3>6. NoLeakedConnection'
      BY <2>1, <2>3, <3>0, <3>1 DEF ServiceInv, NoLeakedConnection
    <3>7. Joining'
      BY <2>1, <3>3 DEF ServiceInv, Joining
    <3> QED
      BY <3>2, <3>4, <3>5, <3>6, <3>7 DEF ServiceInv
  <2>4. \/ UNCHANGED <<ws, netVars>> /\ (~closed => reader'[g].pc \in {"retry", "giveup"})
        \/ ~closed /\ Connect /\ ws' = conns + 1 /\ reader'[g].pc = "snapshot"
    BY <1>21, <1>r DEF ReaderAttempt, ReaderStates, ReaderAt
  <2> QED
    BY <2>2, <2>3, <2>4
<1>22. ASSUME NEW g \in Gens, ReaderGiveUp(g) PROVE ServiceInv'
  <2>1. /\ UNCHANGED <<lockVars, sweep, netVars, closing, userVars>>
        /\ \A h \in Gens \ {g} : reader'[h] = reader[h]
        /\ reader[g].pc = "giveup"
        /\ reader'[g].pc = IF closed THEN "done" ELSE "failall"
    BY <1>22, <1>r DEF ReaderGiveUp, ReaderAt, ReaderIdle
  <2> QED
    BY <1>17, <2>1, ReaderMoved DEF Active
<1>23. ASSUME NEW g \in Gens, ReaderFailAll(g) PROVE ServiceInv'
  <2>1. /\ UNCHANGED <<closed, sweep, netVars, userVars>>
        /\ gen' = gen + 1 /\ ws' = NoConn
        /\ closing' = closing \cup ({ws} \ {NoConn})
        /\ reader'[g].pc = "done"
        /\ \A h \in Gens \ {g} : reader'[h] = reader[h]
        /\ reader[g].pc = "failall"
    BY <1>23, <1>r DEF ReaderFailAll, FailAll, ReaderAt, ReaderIdle
  <2>2. g = gen
    BY <1>17, <2>1
  <2>3. \A h \in Gens : ~Active(reader'[h].pc)
    BY <2>1, <2>2 DEF ServiceInv, Quiet, Active
  <2>4. Quiet' /\ Served'
    BY <1>s, <2>1, <2>3 DEF Quiet, Served
  <2>5. Attached'
    <3>1. ~Current("recv")' /\ ~Current("retry")'
      BY <2>3 DEF Current, Active
    <3> QED
      BY <1>n, <2>1, <3>1 DEF ServiceInv, Attached, NoConn, Conns
  <2>6. NoLeakedConnection'
    BY <1>n, <2>1 DEF ServiceInv, NoLeakedConnection, Attached, NoConn, Conns
  <2>7. Joining'
    BY <1>u, <2>1 DEF ServiceInv, Joining
  <2> QED
    BY <2>4, <2>5, <2>6, <2>7 DEF ServiceInv
<1>24. ASSUME NEW g \in Gens, ReaderSnapshot(g) PROVE ServiceInv'
  <2>1. /\ reader[g].pc = "snapshot" /\ closed => ws = NoConn
        /\ UNCHANGED <<closed, dead, gen, ws, sweep, netVars, closing, userVars>>
        /\ \A h \in Gens \ {g} : reader'[h] = reader[h]
        /\ ~closed => reader'[g].pc = "resub"
    BY <1>24, <1>r, ZenonT(60) DEF ReaderSnapshot, Resubscribing, ReaderIdle, ClosedForGood
  <2>2. reader[g].pc = "snapshot"
    BY <1>24 DEF ReaderSnapshot
  <2> QED
    BY <1>17, <2>1, <2>2, ReaderMoved DEF Active
<1>25. ASSUME NEW g \in Gens, ReaderResub(g) \/ ReaderAdopt(g) \/ ReaderResume(g)
       PROVE  ServiceInv'
  <2>1. /\ UNCHANGED <<lockVars, sweep, netVars, closing, userVars>>
        /\ \A h \in Gens \ {g} : reader'[h] = reader[h]
        /\ reader[g].pc \in {"resub", "adopt"}
        /\ reader'[g].pc \in {"resub", "adopt", "top"}
    <3>1. CASE ReaderResub(g)
      BY <1>r, <3>1 DEF ReaderResub, ReaderStates
    <3>2. CASE ReaderAdopt(g)
      BY <1>r, <3>2 DEF ReaderAdopt, Resubscribing, ReaderIdle
    <3>3. CASE ReaderResume(g)
      BY <1>r, <3>3 DEF ReaderResume, ReaderAt, ReaderIdle
    <3> QED
      BY <1>25, <3>1, <3>2, <3>3
  <2> QED
    BY <1>17, <2>1, ReaderMoved DEF Active
<1> QED
  BY <1>2, <1>3, <1>4, <1>5, <1>6, <1>7, <1>8, <1>9, <1>10, <1>11, <1>13, <1>14,
     <1>15, <1>16, <1>18, <1>19, <1>20, <1>21, <1>22, <1>23, <1>24, <1>25
  DEF Next, SubStep, ReaderStep, SweepStep

-------------------------------------------------------------------------------
(* The theorems about service.                                             *)

LEMMA SpecServiceInv == ASSUME NoCrash PROVE Spec => []ServiceInv
  BY InitServiceInv, NextServiceInv, TypeCorrect, ClosedIsFinal, PTL DEF Spec

\* While no background thread crashes, a socket subscribe() finds open has the
\* reader and the sweep of its generation running (_ensure_open() starts none).
THEOREM OpenIsServed == ASSUME NoCrash PROVE Spec => []OpenSocketIsServed
<1>1. ServiceInv => OpenSocketIsServed
  BY DEF ServiceInv, Served, OpenSocketIsServed
<1> QED
  BY <1>1, SpecServiceInv, PTL

\* While no background thread crashes, every open WebSocket is the current one
\* or about to be closed, through any sequence of reconnects and failures.
THEOREM NothingLeaks == ASSUME NoCrash PROVE Spec => []NoLeakedConnection
<1>1. ServiceInv => NoLeakedConnection
  BY DEF ServiceInv
<1> QED
  BY <1>1, SpecServiceInv, PTL

\* What a sweep has in its hands it took from the registrations of its own
\* generation, and until close() a started sweep's generation has a socket.
OwnHands ==
    /\ \A g \in Gens : /\ g > gen => sweep[g].pc = "none"
                       /\ sweep[g].pc = "none" => sweep[g].due = {}
    /\ ~closed /\ gen \in Gens /\ sweep[gen].pc # "none" => ws # NoConn
    /\ \A g \in Gens, s \in Subs :
          InHand(g, s) => Returned(s) /\ (s \in regs => g = gen)

LEMMA InitOwnHands == Init => OwnHands
  BY DEF Init, OwnHands, InHand, SweepIdle, Gens

\* A step that puts nothing new into a sweep's hands, and neither registers a
\* stream that is in some, nor starts or supersedes a generation.
LEMMA HandsKept ==
    ASSUME OwnHands, gen' = gen,
           \A g \in Gens : /\ sweep'[g].pc = "none" <=> sweep[g].pc = "none"
                           /\ sweep'[g].due \subseteq sweep[g].due
                           /\ \A s \in Subs : InHand(g, s)' => InHand(g, s),
           ~closed' => ~closed,
           ~closed' => (ws # NoConn => ws' # NoConn),
           \A s \in Subs : /\ Returned(s) => Returned(s)'
                           /\ s \in regs' => s \in regs \/ ~Returned(s)
    PROVE  OwnHands'
  BY DEF OwnHands

LEMMA NextOwnHands ==
    TypeOK /\ OneTerminal /\ ClosedForGood /\ OwnHands /\ [Next]_vars => OwnHands'
<1> SUFFICES ASSUME TypeOK, OneTerminal, ClosedForGood, OwnHands, [Next]_vars
             PROVE  OwnHands'
  OBVIOUS
<1>t. /\ gen \in Nat /\ regs \subseteq Subs
      /\ \A g \in Gens : sweep[g] \in SweepStates /\ g \in Nat
      /\ sweep \in [Gens -> SweepStates] /\ DOMAIN caller = Subs
  BY DEF TypeOK, LockType, RegType, UserType, SweepType, Gens
<1>1. CASE UNCHANGED vars
  BY <1>1, HandsKept DEF vars, InHand, Returned
<1>2. ASSUME NEW s \in Subs,
             \/ OpenRefused(s) \/ OpenShared(s) \/ RestSubscribe(s) \/ Insert(s)
             \/ CloseOne(s) \/ Abandon(s) \/ ManualRefresh(s)
      PROVE  OwnHands'
  <2>1. UNCHANGED <<gen, ws, closed, sweep>>
    BY <1>2 DEF OpenRefused, OpenShared, RestSubscribe, Insert, CloseOne, Abandon,
                ManualRefresh
  <2>2. \A u \in Subs : Returned(u) => Returned(u)'
    BY <1>2, <1>t DEF OpenRefused, OpenShared, RestSubscribe, Insert, CloseOne, Abandon,
                ManualRefresh, Returned
  <2>3. \A u \in Subs : u \in regs' => u \in regs \/ ~Returned(u)
    BY <1>2 DEF OpenRefused, OpenShared, RestSubscribe, Insert, CloseOne, Abandon,
                ManualRefresh, Unsubscribe, Returned
  <2> QED
    BY <2>1, <2>2, <2>3, HandsKept DEF InHand
<1>3. ASSUME NEW s \in Subs, OpenFresh(s) PROVE OwnHands'
  <2>1. /\ gen + 1 \in Gens /\ gen' = gen + 1 /\ ws' # NoConn /\ regs' = regs
        /\ ws = NoConn /\ ~closed
        /\ sweep' = [sweep EXCEPT ![gen + 1].pc = "sleep"]
        /\ \A u \in Subs : Returned(u)' <=> Returned(u)
    BY <1>3, <1>t DEF OpenFresh, Connect, Returned, TypeOK, NetType, Conns, NoConn, Gens
  <2>2. sweep[gen + 1].pc = "none" /\ sweep[gen + 1].due = {}
    BY <2>1, <1>t DEF OwnHands
  <2>3. \A g \in Gens : /\ sweep'[g].due = sweep[g].due /\ sweep'[g].sub = sweep[g].sub
                        /\ g # gen + 1 => sweep'[g].pc = sweep[g].pc
                        /\ g = gen + 1 => sweep'[g].pc = "sleep"
    BY <2>1, <1>t DEF SweepStates
  <2>4. \A g \in Gens, u \in Subs : InHand(g, u)' => InHand(g, u)
    BY <2>2, <2>3 DEF InHand
  <2>5. ASSUME NEW g \in Gens, NEW u \in Subs, InHand(g, u), u \in regs PROVE FALSE
    <3>1. g = gen
      BY <2>5 DEF OwnHands
    <3>2. sweep[gen].pc # "none"
      BY <2>5, <3>1 DEF OwnHands, InHand
    <3> QED
      BY <2>1, <3>1, <3>2 DEF OwnHands
  <2> QED
    BY <1>t, <2>1, <2>2, <2>3, <2>4, <2>5 DEF OwnHands
<1>4. CASE CloseAllSubscriptions \/ Close
  <2>1. UNCHANGED <<gen, sweep, caller>> /\ regs' \subseteq regs
        /\ (closed' \/ (UNCHANGED <<closed, ws>>))
    BY <1>4 DEF CloseAllSubscriptions, Close
  <2> QED
    BY <2>1, HandsKept DEF InHand, Returned
<1>5. ASSUME NEW g \in Gens,
             \/ ReaderTop(g) \/ ReaderLost(g) \/ ReaderAttempt(g) \/ ReaderGiveUp(g)
             \/ ReaderSnapshot(g) \/ ReaderResub(g) \/ ReaderAdopt(g) \/ ReaderResume(g)
             \/ ReaderCrash(g) \/ \E W \in SUBSET (1..MaxWire) : ReaderRecv(g, W)
      PROVE  OwnHands'
  <2>1. UNCHANGED <<gen, sweep, caller, closed>>
    BY <1>5 DEF ReaderTop, ReaderLost, ReaderAttempt, ReaderGiveUp, ReaderSnapshot,
                ReaderResub, ReaderAdopt, ReaderResume, ReaderCrash, ReaderRecv
  <2>2. regs' \subseteq regs
    BY <1>5 DEF ReaderTop, ReaderLost, ReaderAttempt, ReaderGiveUp, ReaderSnapshot,
                ReaderResub, ReaderAdopt, ReaderResume, ReaderCrash, ReaderRecv,
                Settle, SettleUnguarded
  <2>3. ~closed => (ws # NoConn => ws' # NoConn)
    <3>1. ASSUME ReaderAttempt(g) PROVE ws' = ws \/ ws' = conns + 1
      BY <3>1 DEF ReaderAttempt
    <3>2. conns + 1 # NoConn
      BY DEF TypeOK, NetType, Conns, NoConn
    <3>3. ASSUME ~ReaderAttempt(g) PROVE closed \/ ws' = ws
      BY <1>5, <3>3 DEF ReaderTop, ReaderLost, ReaderGiveUp, ReaderSnapshot, ReaderResub,
                        ReaderAdopt, ReaderResume, ReaderCrash, ReaderRecv
    <3> QED
      BY <3>1, <3>2, <3>3
  <2> QED
    BY <2>1, <2>2, <2>3, HandsKept DEF InHand, Returned
<1>6. ASSUME NEW g \in Gens, ReaderFailAll(g) \/ SweepFailAll(g) PROVE OwnHands'
  <2>1. gen' = gen + 1 /\ regs' = {} /\ UNCHANGED <<caller, closed>>
    BY <1>6 DEF ReaderFailAll, SweepFailAll, FailAll
  <2>2. \A h \in Gens : /\ sweep[h].pc = "none" <=> sweep'[h].pc = "none"
                        /\ sweep'[h].pc = "none" => sweep'[h].due = sweep[h].due
                        /\ \A s \in Subs : InHand(h, s)' => InHand(h, s)
    BY <1>6, <1>t DEF ReaderFailAll, SweepFailAll, SweepAt, SweepIdle, SweepStates,
                      InHand, NoWire
  <2> QED
    BY <1>t, <2>1, <2>2 DEF OwnHands, Returned
<1>7. ASSUME NEW g \in Gens, NEW S \in SUBSET Subs, SweepTick(g, S) PROVE OwnHands'
  <2>1. UNCHANGED <<gen, ws, closed, regs, caller>> /\ sweep[g].pc = "sleep" /\ S \subseteq regs
    BY <1>7 DEF SweepTick
  <2>2. CASE closed \/ dead \/ gen # g
    <3>1. sweep' = [sweep EXCEPT ![g] = SweepAt("done")]
      BY <1>7, <2>2 DEF SweepTick
    <3> QED
      BY <1>t, <2>1, <3>1, HandsKept DEF InHand, Returned, SweepAt, SweepIdle, SweepStates
  <2>3. CASE ~closed /\ ~dead /\ gen = g
    <3>1. sweep' = [sweep EXCEPT ![g] = Passing(S)]
      BY <1>7, <2>3 DEF SweepTick
    <3>2. \A h \in Gens : h # g => sweep'[h] = sweep[h]
      BY <1>t, <3>1
    <3>3. sweep'[g].pc = "pass" /\ sweep'[g].due = S
      BY <1>t, <3>1 DEF Passing, SweepIdle
    <3>4. \A s \in S : Returned(s)
      BY <2>1 DEF OneTerminal
    <3> QED
      BY <1>t, <2>1, <2>3, <3>2, <3>3, <3>4 DEF OwnHands, InHand, Returned
  <2> QED
    BY <2>2, <2>3
<1>8. ASSUME NEW g \in Gens,
             \/ \E s \in Subs, ok \in BOOLEAN : SweepRefresh(g, s, ok)
             \/ SweepEscalate(g) \/ SweepAdopt(g) \/ SweepReap(g) \/ SweepCrash(g)
      PROVE  OwnHands'
  <2>1. UNCHANGED <<gen, ws, closed, caller>> /\ regs' \subseteq regs
    BY <1>8 DEF SweepRefresh, SweepEscalate, SweepAdopt, SweepReap, SweepCrash,
                Settle, SettleUnguarded, Unsubscribe
  <2> DEFINE Alike ==
        /\ \A h \in Gens : h # g => sweep'[h] = sweep[h]
        /\ sweep[g].pc # "none" /\ sweep'[g].pc # "none"
        /\ sweep'[g].due \subseteq sweep[g].due
        /\ \A s \in Subs : InHand(g, s)' => InHand(g, s)
  <2>2. Alike
    <3>1. ASSUME NEW s \in Subs, NEW ok \in BOOLEAN, SweepRefresh(g, s, ok) PROVE Alike
      BY <1>t, <3>1 DEF SweepRefresh, SweepStates, InHand
    <3>2. CASE SweepEscalate(g)
      BY <1>t, <3>2 DEF SweepEscalate, SweepStates, InHand
    <3>3. CASE SweepAdopt(g)
      BY <1>t, <3>3 DEF SweepAdopt, Passing, SweepIdle, SweepStates, InHand
    <3>4. CASE SweepReap(g)
      BY <1>t, <3>4 DEF SweepReap, SweepAt, SweepIdle, SweepStates, InHand
    <3>5. CASE SweepCrash(g)
      BY <1>t, <3>5 DEF SweepCrash, SweepAt, SweepIdle, SweepStates, InHand
    <3> QED
      BY <1>8, <3>1, <3>2, <3>3, <3>4, <3>5
  <2>3. \A h \in Gens : /\ sweep'[h].pc = "none" <=> sweep[h].pc = "none"
                        /\ sweep'[h].due \subseteq sweep[h].due
                        /\ \A s \in Subs : InHand(h, s)' => InHand(h, s)
    BY <2>2 DEF InHand
  <2> QED
    BY <2>1, <2>3, HandsKept DEF Returned
<1>9. CASE \/ \E o \in owed : Put(o)
           \/ \E c \in 1..MaxConn : CloseConn(c) \/ Disconnect(c)
  <2>1. UNCHANGED <<gen, ws, closed, caller, sweep, regs>>
    BY <1>9 DEF Put, CloseConn, Disconnect
  <2> QED
    BY <2>1, HandsKept DEF InHand, Returned
<1> QED
  BY <1>1, <1>2, <1>3, <1>4, <1>5, <1>6, <1>7, <1>8, <1>9
  DEF Next, SubStep, ReaderStep, SweepStep

LEMMA SpecOwnHands == Spec => []OwnHands
  BY InitOwnHands, NextOwnHands, TypeCorrect, EndsExactlyOnce, ClosedIsFinal, PTL DEF Spec

\* While no background thread crashes, a registration whose subscribe() opened
\* or found the socket in the current generation has a reader and a sweep, and
\* every registration is handled by the sweep of the current generation only.
THEOREM JoinedIsServed == ASSUME NoCrash PROVE Spec => []ServedUnlessOvertaken
<1>1. TypeOK /\ OneTerminal /\ ClosedForGood /\ ServiceInv /\ OwnHands
         => ServedUnlessOvertaken
  <2> SUFFICES ASSUME TypeOK, OneTerminal, ClosedForGood, ServiceInv, OwnHands,
                      NEW s \in regs
               PROVE  /\ epoch[s] = gen => Serving
                      /\ \A g \in Gens : InHand(g, s) => g = gen
    BY DEF ServedUnlessOvertaken
  <2>1. s \in Subs /\ caller[s] \in {"live", "gone"}
    BY DEF TypeOK, RegType, OneTerminal, Returned
  <2>2. ~closed
    BY DEF ClosedForGood
  <2>3. epoch[s] = gen => ws # NoConn
    BY <2>1, <2>2 DEF ServiceInv, Joining
  <2> QED
    BY <2>1, <2>2, <2>3 DEF ServiceInv, Served, OwnHands
<1> QED
  BY <1>1, SpecServiceInv, SpecOwnHands, TypeCorrect, EndsExactlyOnce, ClosedIsFinal, PTL

-------------------------------------------------------------------------------
(* Gap markers.                                                            *)

NoRefusal == "refresh" \notin Faults

LEMMA InitGapInv == Init => GapInv
<1> SUFFICES ASSUME Init PROVE GapInv
  OBVIOUS
<1>1. NoEscalation /\ Newer
  BY DEF Init, NoEscalation, Newer, SweepIdle, ReaderIdle
<1>2. OneGap /\ Told /\ GapPrecedesItsEvents
  BY DEF Init, OneGap, Told, GapPrecedesItsEvents, NoWire
<1> QED
  BY <1>1, <1>2 DEF GapInv

\* A gap marker is owed only while the current reader resubscribes.
LEMMA GapWhileResub ==
    ASSUME ServiceInv, GapInv, NEW g \in Gens, Active(reader[g].pc),
           reader[g].pc # "resub" \/ ~Busy(Reader(g)), NEW o \in owed
    PROVE  ~GapOwed(o)
<1>1. g = gen
  BY ReaderIsCurrent
<1> QED
  BY <1>1 DEF GapInv, OneGap, Current, Busy, GapOwed

\* A step that gives the consumers no event and no marker, and no stream
\* another wire id.
LEMMA GapKept ==
    ASSUME GapInv, NoEscalation', Newer', UNCHANGED <<told, wire, wires>>,
           regs' \subseteq regs,
           \A s \in Subs : Returned(s)' <=> Returned(s),
           \A o \in owed' : o \in owed \/ o.item.kind \notin {"gap", "event"},
           \A o \in owed : GapOwed(o) => o \in owed' /\ Current("resub")' /\ gen' = gen,
           owed \subseteq [by : Threads, sub : Subs, item : Items]
    PROVE  GapInv'
<1>1. \A o : GapOwed(o)' <=> GapOwed(o)
  BY DEF GapOwed
<1>2. OneGap'
  BY <1>1 DEF GapInv, OneGap, GapOwed
<1>3. Told'
  <2> SUFFICES ASSUME NEW s \in Subs
               PROVE  (/\ wire[s] <= wires
                       /\ ~Returned(s) => told[s] = NoWire
                       /\ s \in regs =>
                             /\ told[s] <= wire[s]
                             /\ told[s] = wire[s] \/ \E o \in owed :
                                   GapOwed(o) /\ o.sub = s /\ o.item.wire = wire[s])'
    BY DEF Told
  <2>1. s \in regs' => \/ told[s] = wire[s]
                       \/ \E o \in owed' : GapOwed(o)' /\ o.sub = s /\ o.item.wire = wire[s]
    BY <1>1 DEF GapInv, Told
  <2> QED
    BY <2>1 DEF GapInv, Told
<1>4. GapPrecedesItsEvents'
  BY DEF GapInv, GapPrecedesItsEvents
<1> QED
  BY <1>2, <1>3, <1>4 DEF GapInv

LEMMA NextGapInv ==
    NoCrash /\ NoRefusal /\ TypeOK /\ OneTerminal /\ RouteIsInverse /\ ServiceInv
        /\ GapInv /\ [Next]_vars => GapInv'
<1> SUFFICES ASSUME NoCrash, NoRefusal, TypeOK, OneTerminal, RouteIsInverse,
                    ServiceInv, GapInv, [Next]_vars
             PROVE  GapInv'
  OBVIOUS
<1>r. reader \in [Gens -> ReaderStates] /\ sweep \in [Gens -> SweepStates]
  BY DEF TypeOK, ReaderType, SweepType
<1>u. caller \in [Subs -> {"new", "rest", "insert", "live", "gone", "refused"}]
  BY DEF TypeOK, UserType
<1>t. /\ told \in [Subs -> Nat] /\ wire \in [Subs -> Nat] /\ wires \in Nat
      /\ regs \subseteq Subs /\ owed \subseteq [by : Threads, sub : Subs, item : Items]
  BY DEF TypeOK, QueueType, RegType, ApicType, OwedType
<1>e. NoEscalation
  BY DEF GapInv
<1>n. \A t, s : Owe(t, s, Stop).item.kind = "stop" /\ Owe(t, s, Fatal).item.kind = "lost"
  BY DEF Owe, Stop, Fatal, Item
\* Steps that leave the threads, the wire ids and the consumers alone.
<1>1. ASSUME UNCHANGED <<gen, threadVars, told, wire, wires, failures>>,
             regs' \subseteq regs, \A s \in Subs : Returned(s)' <=> Returned(s),
             \A o \in owed' : o \in owed \/ o.item.kind \notin {"gap", "event"},
             \A o \in owed : GapOwed(o) => o \in owed'
      PROVE  GapInv'
  <2>1. NoEscalation' /\ Newer'
    BY <1>1 DEF GapInv, NoEscalation, Newer
  <2>2. \A o \in owed : GapOwed(o) => Current("resub")'
    BY <1>1 DEF GapInv, OneGap, Current
  <2> QED
    BY <1>1, <1>t, <2>1, <2>2, GapKept
<1>2. ASSUME NEW s \in Subs, OpenRefused(s) \/ OpenShared(s) PROVE GapInv'
  <2>1. /\ UNCHANGED <<gen, threadVars, told, wire, wires, failures, regs, owed>>
        /\ \A r \in Subs : Returned(r)' <=> Returned(r)
    BY <1>2, <1>u DEF OpenRefused, OpenShared, Returned
  <2> QED
    BY <1>1, <2>1
<1>3. ASSUME NEW s \in Subs, Abandon(s) \/ ManualRefresh(s) PROVE GapInv'
  <2>1. /\ UNCHANGED <<gen, threadVars, told, wire, wires, failures, regs, owed>>
        /\ \A r \in Subs : Returned(r)' <=> Returned(r)
    BY <1>3, <1>u, <1>e DEF Abandon, ManualRefresh, Returned, NoEscalation
  <2> QED
    BY <1>1, <2>1
<1>4. ASSUME NEW s \in Subs, CloseOne(s) PROVE GapInv'
  <2>1. /\ UNCHANGED <<gen, threadVars, told, wire, wires, failures, caller>>
        /\ regs' \subseteq regs /\ owed \subseteq owed'
        /\ owed' \subseteq owed \cup {Owe(Client, s, Stop)}
    BY <1>4 DEF CloseOne, Unsubscribe
  <2> QED
    BY <1>1, <1>n, <2>1 DEF Returned
<1>5. CASE CloseAllSubscriptions \/ Close
  <2>1. /\ UNCHANGED <<gen, threadVars, told, wire, wires, failures, caller>>
        /\ regs' = {} /\ owed' = owed \cup OweAll(Client, regs, Stop)
    BY <1>5 DEF CloseAllSubscriptions, Close
  <2> QED
    BY <1>1, <1>n, <2>1 DEF Returned, OweAll
<1>6. ASSUME NEW c \in 1..MaxConn, CloseConn(c) \/ Disconnect(c) PROVE GapInv'
  BY <1>1, <1>6 DEF CloseConn, Disconnect, Returned
<1>7. CASE UNCHANGED vars
  BY <1>1, <1>7 DEF vars, Returned
\* subscribe() is answered, and registers.
<1>8. ASSUME NEW s \in Subs, RestSubscribe(s) PROVE GapInv'
  <2>0. s \notin regs /\ ~Returned(s) /\ ~Returned(s)'
    BY <1>8, <1>u DEF RestSubscribe, OneTerminal, Returned
  <2>1. /\ UNCHANGED <<gen, threadVars, told, failures, regs, owed>>
        /\ \A r \in Subs \ {s} : caller'[r] = caller[r]
        /\ \/ wire' = wire /\ wires' = wires
           \/ wires' = wires + 1 /\ wire' = [wire EXCEPT ![s] = wires + 1]
    BY <1>8, <1>u DEF RestSubscribe, Grant
  <2>2. \A r \in Subs : Returned(r)' <=> Returned(r)
    BY <2>0, <2>1 DEF Returned
  <2>3. CASE wire' = wire /\ wires' = wires
    BY <1>1, <2>1, <2>2, <2>3
  <2>4. CASE wires' = wires + 1 /\ wire' = [wire EXCEPT ![s] = wires + 1]
    <3>1. wire'[s] = wires' /\ \A r \in Subs \ {s} : wire'[r] = wire[r]
      BY <1>t, <2>4
    <3>2. NoEscalation' /\ GapPrecedesItsEvents' /\ \A o : GapOwed(o)' <=> GapOwed(o)
      BY <2>1 DEF GapInv, NoEscalation, GapPrecedesItsEvents, GapOwed
    <3>3. Newer'
      BY <1>r, <1>t, <2>1, <2>4 DEF GapInv, Newer, ReaderStates
    <3>4. OneGap'
      <4>1. \A o \in owed : GapOwed(o) => o.sub \in Subs /\ o.sub # s
        BY <1>t, <2>0 DEF GapInv, OneGap
      <4> QED
        BY <2>1, <2>2, <3>1, <3>2, <4>1 DEF GapInv, OneGap, Current
    <3>5. Told'
      <4>1. ASSUME NEW r \in Subs PROVE wire'[r] <= wires'
        BY <1>t, <2>4, <3>1 DEF GapInv, Told
      <4>2. \A r \in regs : r \in Subs /\ r # s
        BY <1>t, <2>0
      <4> QED
        BY <2>1, <2>2, <3>1, <3>2, <4>1, <4>2 DEF GapInv, Told
    <3> QED
      BY <3>2, <3>3, <3>4, <3>5 DEF GapInv
  <2> QED
    BY <2>1, <2>3, <2>4
<1>9. ASSUME NEW s \in Subs, Insert(s) PROVE GapInv'
  <2>0. ~Returned(s) /\ told[s] = NoWire /\ s \notin regs
    BY <1>9 DEF Insert, Returned, GapInv, Told, OneTerminal
  <2>1. /\ UNCHANGED <<gen, threadVars, wire, wires, failures, owed>>
        /\ \A r \in Subs \ {s} : caller'[r] = caller[r]
    BY <1>9, <1>u DEF Insert
  <2>2. CASE UNCHANGED <<regs, told>> /\ ~Returned(s)'
    <3>1. \A r \in Subs : Returned(r)' <=> Returned(r)
      BY <2>0, <2>1, <2>2 DEF Returned
    <3> QED
      BY <1>1, <2>1, <2>2, <3>1
  <2>3. CASE regs' = regs \cup {s} /\ told' = [told EXCEPT ![s] = wire[s]] /\ Returned(s)'
    <3>1. told'[s] = wire[s] /\ \A r \in Subs \ {s} : told'[r] = told[r]
      BY <1>t, <2>3
    <3>2. NoEscalation' /\ Newer' /\ \A o : GapOwed(o)' <=> GapOwed(o)
      BY <2>1 DEF GapInv, NoEscalation, Newer, GapOwed
    <3>3. \A o \in owed : GapOwed(o) => o.sub \in Subs /\ o.sub # s
      BY <1>t, <2>0 DEF GapInv, OneGap
    <3>4. \A r \in Subs \ {s} : Returned(r)' <=> Returned(r)
      BY <2>1 DEF Returned
    <3>5. OneGap'
      BY <2>1, <2>3, <3>1, <3>2, <3>3, <3>4 DEF GapInv, OneGap, Current
    <3>6. Told'
      <4>1. wire[s] <= wires /\ wire[s] \in Nat
        BY <1>t DEF GapInv, Told
      <4> QED
        BY <2>1, <2>3, <3>1, <3>2, <3>4, <4>1 DEF GapInv, Told
    <3>7. GapPrecedesItsEvents'
      <4>1. ASSUME NEW o \in owed, o.item.kind = "event"
            PROVE  o.item.wire <= told'[o.sub]
        <5>1. o.item.wire \in Nat /\ o.sub \in Subs /\ o.item.wire <= told[o.sub]
          BY <1>t, <4>1 DEF Items, GapInv, GapPrecedesItsEvents
        <5>2. wire[s] \in Nat
          BY <1>t
        <5> QED
          BY <2>0, <3>1, <5>1, <5>2 DEF NoWire
      <4> QED
        BY <2>1, <4>1 DEF GapPrecedesItsEvents
    <3> QED
      BY <3>2, <3>5, <3>6, <3>7 DEF GapInv
  <2> QED
    BY <1>9, <1>u, <2>0, <2>2, <2>3 DEF Insert, Returned
<1>10. ASSUME NEW s \in Subs, OpenFresh(s) PROVE GapInv'
  <2>0. ~closed /\ ws = NoConn /\ gen + 1 \in Gens
    BY <1>10 DEF OpenFresh, TypeOK, LockType, Gens
  <2>1. \A g \in Gens : ~Active(reader[g].pc)
    BY <2>0, ReaderIsCurrent
  <2>2. \A o \in owed : ~GapOwed(o)
    BY <2>1 DEF GapInv, OneGap, Current, Active
  <2>3. /\ UNCHANGED <<told, wire, wires, regs, owed, failures>>
        /\ \A r \in Subs : Returned(r)' <=> Returned(r)
        /\ reader'[gen + 1].pc = "top" /\ sweep'[gen + 1].pc = "sleep"
        /\ \A g \in Gens \ {gen + 1} : reader'[g] = reader[g] /\ sweep'[g] = sweep[g]
    BY <1>10, <1>r, <1>u, <2>0 DEF OpenFresh, ReaderStates, SweepStates, Returned
  <2>4. NoEscalation' /\ Newer'
    BY <2>3 DEF GapInv, NoEscalation, Newer
  <2> QED
    BY <1>t, <2>2, <2>3, <2>4, GapKept
\* The sweep, whose refreshes succeed.
<1>11. ASSUME NEW g \in Gens, sweep'[g].pc \notin {"escalate", "adopt"},
              \A h \in Gens \ {g} : sweep'[h] = sweep[h],
              UNCHANGED <<gen, reader, told, wire, wires, failures, caller>>,
              regs' \subseteq regs, owed \subseteq owed',
              \A o \in owed' : o \in owed \/ o.item.kind \notin {"gap", "event"}
       PROVE  GapInv'
  <2>1. NoEscalation' /\ Newer'
    BY <1>11 DEF GapInv, NoEscalation, Newer
  <2>2. \A o \in owed : GapOwed(o) => Current("resub")'
    BY <1>11 DEF GapInv, OneGap, Current
  <2> QED
    BY <1>11, <1>t, <2>1, <2>2, GapKept DEF Returned
<1>12. ASSUME NEW g \in Gens, NEW S \in SUBSET Subs, SweepTick(g, S) PROVE GapInv'
  <2>1. sweep'[g].pc \notin {"escalate", "adopt"} /\ \A h \in Gens \ {g} : sweep'[h] = sweep[h]
    BY <1>12, <1>r DEF SweepTick, SweepAt, Passing, SweepIdle
  <2>2. UNCHANGED <<gen, reader, told, wire, wires, failures, caller, regs, owed>>
    BY <1>12 DEF SweepTick
  <2> QED
    BY <1>11, <2>1, <2>2
<1>13. ASSUME NEW g \in Gens, NEW s \in Subs, NEW ok \in BOOLEAN, SweepRefresh(g, s, ok)
       PROVE  GapInv'
  <2>1. ok
    BY <1>13 DEF SweepRefresh, NoRefusal
  <2>2. sweep'[g].pc = "pass" /\ \A h \in Gens \ {g} : sweep'[h] = sweep[h]
    BY <1>13, <1>r, <2>1 DEF SweepRefresh, SweepStates
  <2>3. failures' = failures
    <3>1. failures' = failures \/ failures' = [failures EXCEPT ![s] = 0]
      BY <1>13, <2>1 DEF SweepRefresh
    <3> QED
      BY <1>e, <3>1 DEF NoEscalation, TypeOK, RegType
  <2>4. UNCHANGED <<gen, reader, told, wire, wires, caller, regs, owed>>
    BY <1>13, <2>1 DEF SweepRefresh
  <2> QED
    BY <1>11, <2>2, <2>3, <2>4
<1>14. ASSUME NEW g \in Gens, SweepReap(g) PROVE GapInv'
  <2>1. /\ sweep'[g].pc \notin {"escalate", "adopt"}
        /\ \A h \in Gens \ {g} : sweep'[h] = sweep[h]
    BY <1>14, <1>r DEF SweepReap, SweepAt, SweepIdle
  <2>2. /\ UNCHANGED <<gen, reader, told, wire, wires, failures, caller>>
        /\ regs' \subseteq regs /\ owed \subseteq owed'
        /\ \A o \in owed' : o \in owed \/ o.item.kind \notin {"gap", "event"}
    <3>1. UNCHANGED <<gen, reader, told, wire, wires, failures, caller>>
      BY <1>14 DEF SweepReap, Unsubscribe
    <3>2. CASE UNCHANGED <<regVars, doomed, owed>>
      BY <3>1, <3>2
    <3>3. ASSUME NEW s \in doomed, Unsubscribe(Sweep(g), s)
          PROVE  /\ regs' \subseteq regs /\ owed \subseteq owed'
                 /\ owed' \subseteq owed \cup {Owe(Sweep(g), s, Stop)}
      BY <3>3 DEF Unsubscribe
    <3> QED
      BY <1>14, <1>n, <3>1, <3>2, <3>3 DEF SweepReap
  <2> QED
    BY <1>11, <2>1, <2>2
<1>15. ASSUME NEW g \in Gens, SweepEscalate(g) \/ SweepAdopt(g) \/ SweepFailAll(g)
                             \/ SweepCrash(g) \/ ReaderCrash(g)
       PROVE  GapInv'
  BY <1>15, <1>e DEF SweepEscalate, SweepAdopt, SweepFailAll, SweepCrash, ReaderCrash,
       NoEscalation, NoCrash, ServiceInv, Quiet
\* An item reaches its consumer; a marker is the last one owed.
<1>16. ASSUME NEW o \in owed, Put(o) PROVE GapInv'
  <2>1. /\ UNCHANGED <<gen, threadVars, wire, wires, failures, regs, caller>>
        /\ owed' = owed \ {o}
        /\ told' = IF o.item.kind = "gap" THEN [told EXCEPT ![o.sub] = o.item.wire]
                   ELSE told
    BY <1>16 DEF Put
  <2>2. o.sub \in Subs /\ o.item.wire \in Nat
    BY <1>t DEF Items
  <2>3. NoEscalation' /\ Newer'
    BY <2>1 DEF GapInv, NoEscalation, Newer
  <2>4. CASE ~GapOwed(o)
    <3>1. \A p \in owed : GapOwed(p) => Current("resub")'
      BY <2>1 DEF GapInv, OneGap, Current
    <3> QED
      BY <1>t, <2>1, <2>3, <2>4, <3>1, GapKept DEF Returned, GapOwed
  <2>5. CASE GapOwed(o)
    <3>1. /\ Returned(o.sub) /\ told[o.sub] <= o.item.wire
          /\ o.sub \in regs => o.item.wire <= wire[o.sub]
          /\ \A p \in owed : GapOwed(p) => p = o
      BY <2>5 DEF GapInv, OneGap
    <3>2. told'[o.sub] = o.item.wire /\ \A s \in Subs \ {o.sub} : told'[s] = told[s]
      BY <1>t, <2>1, <2>2, <2>5 DEF GapOwed
    <3>3. \A p : ~GapOwed(p)'
      BY <2>1, <3>1 DEF GapOwed
    <3>4. ASSUME NEW s \in regs PROVE told'[s] = wire[s]
      <4>1. s \in Subs /\ told[s] \in Nat /\ wire[s] \in Nat
        BY <1>t
      <4>2. /\ told[s] <= wire[s]
            /\ \/ told[s] = wire[s]
               \/ \E p \in owed : GapOwed(p) /\ p.sub = s /\ p.item.wire = wire[s]
        BY <4>1 DEF GapInv, Told
      <4>3. told[s] <= wire[s] /\ (told[s] = wire[s] \/ (s = o.sub /\ o.item.wire = wire[s]))
        BY <3>1, <4>2
      <4> QED
        BY <2>2, <3>1, <3>2, <4>1, <4>3
    <3>5. \A s \in Subs : /\ wire[s] <= wires /\ wire[s] \in Nat
                          /\ ~Returned(s) => told'[s] = NoWire
      BY <1>t, <3>1, <3>2 DEF GapInv, Told
    <3>6. OneGap' /\ Told'
      BY <1>t, <2>1, <3>3, <3>4, <3>5 DEF OneGap, Told, Returned
    <3>7. GapPrecedesItsEvents'
      <4>1. ASSUME NEW p \in owed, p.item.kind = "event"
            PROVE  p.item.wire <= told'[p.sub]
        <5>1. /\ p.item.wire \in Nat /\ p.sub \in Subs /\ p.item.wire <= told[p.sub]
              /\ told[p.sub] \in Nat
          BY <1>t, <4>1 DEF Items, GapInv, GapPrecedesItsEvents
        <5> QED
          BY <2>2, <3>1, <3>2, <5>1
      <4> QED
        BY <2>1, <4>1 DEF GapPrecedesItsEvents
    <3> QED
      BY <2>3, <3>6, <3>7 DEF GapInv
  <2> QED
    BY <2>4, <2>5
\* The reader, which owes no marker when it leaves the resubscribe loop's top.
<1>17. ASSUME NEW g \in Gens, Active(reader[g].pc),
              reader[g].pc # "resub" \/ ~Busy(Reader(g)), reader'[g].pc # "adopt",
              \A h \in Gens \ {g} : reader'[h] = reader[h],
              UNCHANGED <<sweep, told, wire, wires, failures, caller>>, regs' \subseteq regs,
              \A o \in owed' : o \in owed \/ o.item.kind \notin {"gap", "event"}
       PROVE  GapInv'
  <2>1. NoEscalation' /\ Newer'
    BY <1>17 DEF GapInv, NoEscalation, Newer
  <2>2. \A o \in owed : ~GapOwed(o)
    BY <1>17, GapWhileResub
  <2> QED
    BY <1>17, <1>t, <2>1, <2>2, GapKept DEF Returned
<1>18. ASSUME NEW g \in Gens,
              ReaderTop(g) \/ ReaderLost(g) \/ ReaderAttempt(g) \/ ReaderGiveUp(g)
              \/ ReaderSnapshot(g) \/ ReaderResume(g)
       PROVE  GapInv'
  <2>1. /\ UNCHANGED <<sweep, told, wire, wires, failures, caller, regs, owed>>
        /\ reader[g].pc \in {"top", "recv", "retry", "giveup", "snapshot", "resub"}
        /\ reader[g].pc = "resub" => ~Busy(Reader(g))
    BY <1>18 DEF ReaderTop, ReaderLost, ReaderAttempt, ReaderGiveUp, ReaderSnapshot,
         ReaderResume
  <2>2. \A h \in Gens \ {g} : reader'[h] = reader[h]
    BY <1>18, <1>r DEF ReaderTop, ReaderLost, ReaderAttempt, ReaderGiveUp, ReaderSnapshot,
         ReaderResume
  <2>3. reader'[g].pc # "adopt"
    <3>1. CASE ReaderTop(g) \/ ReaderLost(g) \/ ReaderGiveUp(g)
      BY <1>r, <3>1, ZenonT(60) DEF ReaderTop, ReaderLost, ReaderGiveUp, ReaderAt, ReaderIdle
    <3>2. CASE ReaderAttempt(g)
      BY <1>r, <3>2 DEF ReaderAttempt, ReaderStates, ReaderAt, ReaderIdle
    <3>3. CASE ReaderSnapshot(g) \/ ReaderResume(g)
      BY <1>r, <3>3, ZenonT(60) DEF ReaderSnapshot, ReaderResume, ReaderAt, Resubscribing, ReaderIdle
    <3> QED
      BY <1>18, <3>1, <3>2, <3>3
  <2> QED
    BY <1>17, <2>1, <2>2, <2>3 DEF Active
<1>19. ASSUME NEW g \in Gens, ReaderFailAll(g) PROVE GapInv'
  <2>1. /\ UNCHANGED <<sweep, told, wire, wires, failures, caller>>
        /\ reader[g].pc = "failall" /\ reader'[g].pc # "adopt"
        /\ \A h \in Gens \ {g} : reader'[h] = reader[h]
        /\ regs' = {} /\ owed' = owed \cup OweAll(Reader(g), regs, Fatal)
    BY <1>19, <1>r DEF ReaderFailAll, FailAll, ReaderAt, ReaderIdle
  <2> QED
    BY <1>17, <1>n, <2>1 DEF Active, OweAll
<1>20. ASSUME NEW g \in Gens, NEW W \in SUBSET (1..MaxWire), ReaderRecv(g, W)
       PROVE  GapInv'
  <2>1. /\ UNCHANGED <<gen, sweep, told, wire, wires, failures, caller, regs>>
        /\ reader[g].pc = "recv" /\ reader'[g].pc = "top"
        /\ \A h \in Gens \ {g} : reader'[h] = reader[h]
    BY <1>20, <1>r DEF ReaderRecv, ReaderStates
  <2>2. \A o \in owed : ~GapOwed(o)
    BY <2>1, GapWhileResub DEF Active
  <2>3. \A s \in regs : told[s] = wire[s]
    BY <1>t, <2>2 DEF GapInv, Told
  <2>4. ASSUME NEW o \in owed'
        PROVE  o \in owed \/ (o.item.kind = "event" /\ o.item.wire <= told[o.sub])
    <3>1. o \in owed \/ \E r \in route : o = Owe(Reader(g), r[2], Item("event", r[1]))
      BY <1>20 DEF ReaderRecv
    <3>2. ASSUME NEW r \in route, o = Owe(Reader(g), r[2], Item("event", r[1]))
          PROVE  o.item.kind = "event" /\ o.item.wire <= told[o.sub]
      <4>1. PICK s \in regs : r = <<wire[s], s>>
        BY DEF RouteIsInverse
      <4>2. o.item.kind = "event" /\ o.item.wire = wire[s] /\ o.sub = s
        BY <3>2, <4>1 DEF Owe, Item
      <4>3. told[s] \in Nat /\ told[s] = wire[s]
        BY <1>t, <2>3
      <4> QED
        BY <4>2, <4>3
    <3>3. CASE o \in owed
      BY <3>3
    <3>4. CASE \E r \in route : o = Owe(Reader(g), r[2], Item("event", r[1]))
      BY <3>2, <3>4
    <3> QED
      BY <3>1, <3>3, <3>4
  <2>5. \A o : ~GapOwed(o)'
    BY <2>2, <2>4 DEF GapOwed
  <2>6. NoEscalation' /\ Newer' /\ OneGap'
    BY <2>1, <2>5 DEF GapInv, NoEscalation, Newer, OneGap
  <2>7. Told'
    BY <2>1, <2>3 DEF GapInv, Told, Returned
  <2>8. GapPrecedesItsEvents'
    BY <2>1, <2>4 DEF GapInv, GapPrecedesItsEvents
  <2> QED
    BY <2>6, <2>7, <2>8 DEF GapInv
<1>21. ASSUME NEW g \in Gens, ReaderResub(g) PROVE GapInv'
  <2>1. PICK s \in reader[g].todo, answer \in 0..MaxWire :
            /\ Resubscribe(answer)
            /\ reader' = [reader EXCEPT ![g].pc = "adopt", ![g].todo = @ \ {s},
                              ![g].sub = s, ![g].old = wire[s], ![g].new = answer]
    BY <1>21 DEF ReaderResub
  <2>2. /\ UNCHANGED <<gen, sweep, told, wire, failures, caller, regs, owed>>
        /\ reader[g].pc = "resub" /\ ~Busy(Reader(g))
    BY <1>21 DEF ReaderResub
  <2>3. wires' \in Nat /\ wires' >= wires
        /\ (answer = NoWire \/ (answer = wires + 1 /\ wires' = wires + 1))
    <3>1. Resubscribe(answer)
      BY <2>1
    <3> QED
      BY <1>t, <3>1 DEF Resubscribe, Grant
  <2>4. s \in Subs /\ wire[s] \in Nat /\ wire[s] <= wires
    BY <1>r, <1>t DEF ReaderStates, GapInv, Told
  <2>5. /\ reader'[g].old = wire[s] /\ reader'[g].new = answer
        /\ \A h \in Gens \ {g} : reader'[h] = reader[h]
    BY <1>r, <2>1 DEF ReaderStates
  <2>6. \A o : ~GapOwed(o) /\ ~GapOwed(o)'
    BY <2>2, GapWhileResub DEF Active, GapOwed
  <2>7. ASSUME NEW r \in Subs PROVE wire[r] <= wires'
    <3>1. wire[r] \in Nat /\ wire[r] <= wires
      BY <1>t DEF GapInv, Told
    <3> QED
      BY <1>t, <2>3, <3>1
  <2>8. Newer'
    <3> SUFFICES ASSUME NEW h \in Gens, reader'[h].pc = "adopt", reader'[h].new # NoWire
                 PROVE  reader'[h].old < reader'[h].new /\ reader'[h].new <= wires'
      BY DEF Newer
    <3>1. CASE h = g
      BY <1>t, <2>3, <2>4, <2>5, <3>1
    <3>2. CASE h # g
      <4>1. reader[h].old < reader[h].new /\ reader[h].new <= wires /\ reader'[h] = reader[h]
        BY <2>5, <3>2 DEF GapInv, Newer
      <4>2. reader[h].new \in Nat /\ wires' \in Nat
        BY <1>r, <1>t, <2>1 DEF ReaderStates, Resubscribe, Grant
      <4> QED
        BY <1>t, <2>3, <4>1, <4>2
    <3> QED
      BY <3>1, <3>2
  <2>9. Told'
    BY <2>2, <2>6, <2>7 DEF GapInv, Told, Returned
  <2>10. NoEscalation' /\ OneGap' /\ GapPrecedesItsEvents'
    BY <2>2, <2>6 DEF GapInv, NoEscalation, OneGap, GapPrecedesItsEvents
  <2> QED
    BY <2>8, <2>9, <2>10 DEF GapInv
<1>22. ASSUME NEW g \in Gens, ReaderAdopt(g) PROVE GapInv'
  <2> DEFINE s == reader[g].sub
             old == reader[g].old
             new == reader[g].new
  <2>1. /\ UNCHANGED <<gen, sweep, told, wires, caller>>
        /\ reader[g].pc = "adopt" /\ reader'[g].pc = "resub"
        /\ \A h \in Gens \ {g} : reader'[h] = reader[h]
        /\ Settle(Reader(g), s, old, new, FALSE)
    BY <1>22, <1>r DEF ReaderAdopt, Resubscribing, ReaderIdle
  <2>2. \A o \in owed : ~GapOwed(o)
    BY <2>1, GapWhileResub DEF Active
  <2>3. CASE UNCHANGED <<regVars, owed>>
    BY <1>17, <2>1, <2>3 DEF Active
  <2>4. CASE /\ regs' = regs \ {s} /\ owed' = owed \cup {Owe(Reader(g), s, Fatal)}
             /\ UNCHANGED <<wire, failures>>
    BY <1>17, <1>n, <2>1, <2>4 DEF Active
  <2>5. CASE /\ s \in regs /\ wire[s] = old /\ new # NoWire
             /\ wire' = [wire EXCEPT ![s] = new]
             /\ owed' = owed \cup {Owe(Reader(g), s, Item("gap", new))}
             /\ UNCHANGED <<failures, regs>>
    <3>a. PICK o : o = Owe(Reader(g), s, Item("gap", new))
      OBVIOUS
    <3>1. /\ s \in Subs /\ new \in Nat /\ wire'[s] = new
          /\ \A r \in Subs \ {s} : wire'[r] = wire[r]
      BY <1>r, <1>t, <2>5 DEF ReaderStates
    <3>2. g = gen /\ Current("resub")'
      BY <2>1, ReaderIsCurrent DEF Active, Current
    <3>3. \A r \in regs : told[r] = wire[r]
      BY <1>t, <2>2 DEF GapInv, Told
    <3>4. told[s] < new /\ new <= wires
      BY <2>1, <2>5, <3>3 DEF GapInv, Newer
    <3>5. Returned(s)
      BY <2>5, <3>1 DEF OneTerminal
    <3>6. /\ o.item.kind = "gap" /\ o.item.wire = new /\ o.sub = s /\ o.by = Reader(g)
          /\ owed' = owed \cup {o}
      BY <2>5, <3>a DEF Owe, Item
    <3>7. /\ told[s] \in Nat /\ new <= wire'[s] /\ told[s] <= new
      BY <1>t, <3>1, <3>4
    <3> HIDE DEF s, old, new
    <3>8. GapOwed(o)' /\ \A p : GapOwed(p)' => p = o
      BY <2>2, <3>6 DEF GapOwed
    <3>9. OneGap'
      BY <2>1, <3>1, <3>2, <3>5, <3>6, <3>7, <3>8 DEF OneGap, Returned
    <3>10. Told'
      <4>1. \A r \in Subs : wire'[r] <= wires
        BY <3>1, <3>4 DEF GapInv, Told
      <4>2. \A r \in regs \ {s} : told[r] <= wire'[r] /\ told[r] = wire'[r]
        BY <1>t, <3>1, <3>3 DEF GapInv, Told
      <4>3. \A r \in Subs : ~Returned(r)' => told'[r] = NoWire
        BY <2>1 DEF GapInv, Told, Returned
      <4> QED
        BY <2>1, <2>5, <3>1, <3>6, <3>7, <3>8, <4>1, <4>2, <4>3 DEF Told
    <3>11. NoEscalation' /\ Newer'
      BY <2>1, <2>5 DEF GapInv, NoEscalation, Newer
    <3>12. GapPrecedesItsEvents'
      BY <2>1, <3>6 DEF GapInv, GapPrecedesItsEvents
    <3> QED
      BY <3>9, <3>10, <3>11, <3>12 DEF GapInv
  <2> QED
    BY <2>1, <2>3, <2>4, <2>5 DEF Settle
<1> QED
  BY <1>2, <1>3, <1>4, <1>5, <1>6, <1>7, <1>8, <1>9, <1>10, <1>12, <1>13, <1>14,
     <1>15, <1>16, <1>18, <1>19, <1>20, <1>21, <1>22
  DEF Next, SubStep, ReaderStep, SweepStep

\* While no background thread crashes and no refresh is refused, no consumer is
\* handed an event of a wire id before the gap marker that announces the id:
\* _reconnect_and_resubscribe() puts the markers before the reader receives.
THEOREM MarkersComeFirst ==
    ASSUME NoCrash, NoRefusal PROVE Spec => []GapPrecedesItsEvents
<1>1. GapInv => GapPrecedesItsEvents
  BY DEF GapInv
<1> QED
  BY <1>1, InitGapInv, NextGapInv, SpecServiceInv, TypeCorrect, EndsExactlyOnce,
     RouteIsAlwaysInverse, PTL DEF Spec
===============================================================================
