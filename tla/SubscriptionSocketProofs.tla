----------------------- MODULE SubscriptionSocketProofs -----------------------
(***************************************************************************)
(* Proofs about SubscriptionSocket, for any number of subscriptions, every *)
(* bound and every combination of faults.                                  *)
(***************************************************************************)
EXTENDS SubscriptionSocket, TLAPS

USE SubAssumption, BoundAssumption, LimitAssumption
USE DEF lockVars, regVars, userVars, threadVars, queueVars, netVars, apicVars

-------------------------------------------------------------------------------
(* Type correctness.                                                       *)

\* The states a thread starts in and returns to.
LEMMA ReaderStateTypes ==
    /\ ReaderIdle \in ReaderStates
    /\ \A p \in {"done", "failall", "retry", "top"} : ReaderAt(p) \in ReaderStates
    /\ \A S \in SUBSET Subs : Resubscribing(S) \in ReaderStates
<1>1. ReaderIdle \in ReaderStates
  BY DEF ReaderIdle, ReaderStates, Conns, NoConn, NoWire
<1> QED
  BY <1>1 DEF ReaderAt, Resubscribing, ReaderStates

LEMMA SweepStateTypes ==
    /\ SweepIdle \in SweepStates
    /\ \A p \in {"done", "failall", "sleep"} : SweepAt(p) \in SweepStates
    /\ \A S \in SUBSET Subs : Passing(S) \in SweepStates
<1>1. SweepIdle \in SweepStates
  BY DEF SweepIdle, SweepStates, NoWire
<1> QED
  BY <1>1 DEF SweepAt, Passing, SweepStates

\* A new connection and a new wire id stay within their bounds.
LEMMA ConnectTypes ==
    NetType /\ Connect => conns + 1 \in 1..MaxConn /\ conns' \in Conns
                          /\ up' \subseteq 1..MaxConn
  BY DEF NetType, Connect, Conns

LEMMA ClosingTypes ==
    LockType /\ NetType => closing \cup ({ws} \ {NoConn}) \subseteq 1..MaxConn
  BY DEF LockType, NetType, Conns, NoConn

LEMMA GrantTypes == NetType /\ ApicType /\ Grant => ApicType'
  BY DEF NetType, ApicType, Grant, Conns, NoConn

\* What a thread may owe a queue.
LEMMA OweTypes ==
    /\ \A t \in Threads, s \in Subs, i \in Items :
          Owe(t, s, i) \in [by : Threads, sub : Subs, item : Items]
    /\ \A k \in Kinds, w \in Nat : Item(k, w) \in Items
    /\ Stop \in Items /\ Fatal \in Items
    /\ Client \in Threads
    /\ \A g \in Gens : Reader(g) \in Threads /\ Sweep(g) \in Threads
  BY DEF Owe, Item, Items, Stop, Fatal, NoWire, Kinds, Threads

\* The initial state is well typed.
LEMMA InitTypeOK == Init => TypeOK
<1> SUFFICES ASSUME Init PROVE TypeOK
  OBVIOUS
<1>1. LockType /\ UserType /\ NetType
  <2>1. closed \in BOOLEAN /\ dead \in BOOLEAN
    BY Zenon DEF Init
  <2>2. gen \in Nat /\ ws \in Conns /\ UserType /\ NetType
    BY DEF Init, UserType, NetType, Conns, NoConn
  <2> QED
    BY <2>1, <2>2 DEF LockType
<1>2. RegType /\ QueueType /\ OwedType
  BY DEF Init, RegType, QueueType, OwedType, NoWire
<1>3. ReaderType /\ SweepType /\ ApicType
  BY ReaderStateTypes, SweepStateTypes DEF Init, ReaderType, SweepType, ApicType,
         Conns, NoConn
<1> QED
  BY <1>1, <1>2, <1>3 DEF TypeOK

\* Every step keeps every variable within its type.
LEMMA NextTypeOK == TypeOK /\ [Next]_vars => TypeOK'
<1> SUFFICES ASSUME TypeOK, [Next]_vars PROVE TypeOK'
  OBVIOUS
<1> USE DEF TypeOK
<1>1. ASSUME NEW s \in Subs, OpenRefused(s) PROVE TypeOK'
  <2>1. UserType'
    BY <1>1 DEF OpenRefused, UserType
  <2> QED
    BY <1>1, <2>1 DEF OpenRefused, LockType, RegType, QueueType,
      OwedType, ReaderType, SweepType, NetType, ApicType
<1>2. ASSUME NEW s \in Subs, OpenShared(s) PROVE TypeOK'
  <2>1. UserType'
    BY <1>2 DEF OpenShared, UserType, LockType
  <2> QED
    BY <1>2, <2>1 DEF OpenShared, LockType, RegType, QueueType,
      OwedType, ReaderType, SweepType, NetType, ApicType
<1>3. ASSUME NEW s \in Subs, OpenFresh(s) PROVE TypeOK'
  <2>1. LockType'
    <3>1. closed' \in BOOLEAN /\ dead' \in BOOLEAN
      BY <1>3, Zenon DEF OpenFresh, LockType
    <3>2. gen' \in Nat /\ ws' \in Conns
      BY <1>3, ConnectTypes DEF OpenFresh, LockType, Conns
    <3> QED
      BY <3>1, <3>2 DEF LockType
  <2>2. UserType'
    BY <1>3 DEF OpenFresh, UserType, LockType
  <2>3. ReaderType'
    BY <1>3, ReaderStateTypes, ZenonT(60) DEF OpenFresh, ReaderType, LockType, Gens,
      ReaderStates
  <2>4. SweepType'
    <3>1. gen + 1 \in Gens
      BY <1>3 DEF OpenFresh, LockType, Gens
    <3>2. [sweep[gen + 1] EXCEPT !.pc = "sleep"] \in SweepStates
      BY <3>1 DEF SweepType, SweepStates
    <3> QED
      BY <1>3, <3>2 DEF OpenFresh, SweepType
  <2>5. NetType'
    BY <1>3, ConnectTypes DEF OpenFresh, NetType, Conns, Connect
  <2> QED
    BY <1>3, <2>1, <2>2, <2>3, <2>4, <2>5 DEF OpenFresh, RegType,
      QueueType, OwedType, ApicType, Connect
<1>4. ASSUME NEW s \in Subs, RestSubscribe(s) PROVE TypeOK'
  <2>1. RegType'
    BY <1>4, SMTT(60) DEF RestSubscribe, RegType, ApicType, Grant
  <2>2. UserType'
    BY <1>4 DEF RestSubscribe, UserType
  <2>3. ApicType'
    BY <1>4, GrantTypes DEF RestSubscribe, ApicType
  <2> QED
    BY <1>4, <2>1, <2>2, <2>3 DEF RestSubscribe, LockType, QueueType,
      OwedType, ReaderType, SweepType, NetType
<1>5. ASSUME NEW s \in Subs, Insert(s) PROVE TypeOK'
  <2>1. RegType'
    BY <1>5 DEF Insert, RegType
  <2>2. UserType'
    BY <1>5 DEF Insert, UserType
  <2>3. QueueType'
    BY <1>5 DEF Insert, QueueType, RegType
  <2> QED
    BY <1>5, <2>1, <2>2, <2>3 DEF Insert, LockType, OwedType,
      ReaderType, SweepType, NetType, ApicType
<1>6. ASSUME NEW s \in Subs, CloseOne(s) PROVE TypeOK'
  <2>1. RegType'
    BY <1>6 DEF CloseOne, RegType, Unsubscribe
  <2>2. OwedType'
    BY <1>6, OweTypes DEF CloseOne, OwedType, Unsubscribe
  <2> QED
    BY <1>6, <2>1, <2>2 DEF CloseOne, LockType, UserType, QueueType,
      ReaderType, SweepType, NetType, ApicType, Unsubscribe
<1>7. ASSUME NEW s \in Subs, Abandon(s) PROVE TypeOK'
  <2>1. RegType'
    BY <1>7 DEF Abandon, RegType
  <2>2. UserType'
    BY <1>7 DEF Abandon, UserType
  <2> QED
    BY <1>7, <2>1, <2>2 DEF Abandon, LockType, QueueType, OwedType,
      ReaderType, SweepType, NetType, ApicType
<1>8. ASSUME NEW s \in Subs, ManualRefresh(s) PROVE TypeOK'
  <2>1. RegType'
    BY <1>8 DEF ManualRefresh, RegType
  <2> QED
    BY <1>8, <2>1 DEF ManualRefresh, LockType, UserType, QueueType,
      OwedType, ReaderType, SweepType, NetType, ApicType
<1>9. CASE CloseAllSubscriptions
  <2>1. RegType'
    BY <1>9 DEF CloseAllSubscriptions, RegType
  <2>2. OwedType'
    BY <1>9, OweTypes DEF CloseAllSubscriptions, OwedType, RegType, OweAll
  <2> QED
    BY <1>9, <2>1, <2>2 DEF CloseAllSubscriptions, LockType,
      UserType, QueueType, ReaderType, SweepType, NetType, ApicType
<1>10. CASE Close
  <2>1. LockType'
    BY <1>10 DEF Close, LockType, Conns, NoConn
  <2>2. RegType'
    BY <1>10 DEF Close, RegType
  <2>3. OwedType'
    BY <1>10, OweTypes DEF Close, OwedType, RegType, OweAll
  <2>4. NetType'
    BY <1>10 DEF Close, NetType, LockType, Conns, NoConn
  <2> QED
    BY <1>10, <2>1, <2>2, <2>3, <2>4 DEF Close, UserType, QueueType,
      ReaderType, SweepType, ApicType
<1>11. ASSUME NEW g \in Gens, ReaderTop(g) PROVE TypeOK'
  <2>1. ReaderType'
    BY <1>11, ReaderStateTypes DEF ReaderTop, ReaderType, LockType,
      ReaderStates
  <2> QED
    BY <1>11, <2>1 DEF ReaderTop, LockType, RegType, UserType,
      QueueType, OwedType, SweepType, NetType, ApicType
<1>12. ASSUME NEW g \in Gens, ReaderLost(g) PROVE TypeOK'
  <2>1. ReaderType'
    BY <1>12, ReaderStateTypes DEF ReaderLost, ReaderType, ReaderStates
  <2> QED
    BY <1>12, <2>1 DEF ReaderLost, LockType, RegType, UserType,
      QueueType, OwedType, SweepType, NetType, ApicType
<1>13. ASSUME NEW g \in Gens, ReaderAttempt(g) PROVE TypeOK'
  <2>1. LockType'
    BY <1>13, ConnectTypes DEF ReaderAttempt, LockType, Conns
  <2>2. ReaderType'
    BY <1>13, ReaderStateTypes DEF ReaderAttempt, ReaderType, ReaderStates
  <2>3. NetType'
    BY <1>13, ConnectTypes DEF ReaderAttempt, NetType, Conns, Connect
  <2> QED
    BY <1>13, <2>1, <2>2, <2>3 DEF ReaderAttempt, RegType, UserType,
      QueueType, OwedType, SweepType, ApicType, Connect
<1>14. ASSUME NEW g \in Gens, ReaderGiveUp(g) PROVE TypeOK'
  <2>1. ReaderType'
    BY <1>14, ReaderStateTypes DEF ReaderGiveUp, ReaderType, ReaderStates
  <2> QED
    BY <1>14, <2>1 DEF ReaderGiveUp, LockType, RegType, UserType,
      QueueType, OwedType, SweepType, NetType, ApicType
<1>15. ASSUME NEW g \in Gens, ReaderFailAll(g) PROVE TypeOK'
  <2>1. LockType'
    BY <1>15 DEF ReaderFailAll, LockType, FailAll, Conns, NoConn
  <2>2. RegType'
    BY <1>15 DEF ReaderFailAll, RegType, FailAll
  <2>3. OwedType'
    BY <1>15, OweTypes DEF ReaderFailAll, OwedType, RegType, FailAll, OweAll
  <2>4. ReaderType'
    BY <1>15, ReaderStateTypes DEF ReaderFailAll, ReaderType, ReaderStates
  <2>5. NetType'
    BY <1>15 DEF ReaderFailAll, NetType, FailAll, LockType, Conns, NoConn
  <2> QED
    BY <1>15, <2>1, <2>2, <2>3, <2>4, <2>5 DEF ReaderFailAll,
      UserType, QueueType, SweepType, ApicType, FailAll
<1>16. ASSUME NEW g \in Gens, ReaderSnapshot(g) PROVE TypeOK'
  <2>1. LockType'
    BY <1>16 DEF ReaderSnapshot, LockType, Conns, NoConn
  <2>2. ReaderType'
    BY <1>16, ReaderStateTypes DEF ReaderSnapshot, ReaderType, RegType,
      ReaderStates
  <2>3. NetType'
    BY <1>16, ClosingTypes DEF ReaderSnapshot, NetType
  <2> QED
    BY <1>16, <2>1, <2>2, <2>3 DEF ReaderSnapshot, RegType, UserType,
      QueueType, OwedType, SweepType, ApicType
<1>17. ASSUME NEW g \in Gens, ReaderResub(g) PROVE TypeOK'
  <2>1. ReaderType'
    BY <1>17, ReaderStateTypes DEF ReaderResub, ReaderType, RegType,
      ReaderStates
  <2>2. ApicType'
    BY <1>17, GrantTypes DEF ReaderResub, ApicType, Resubscribe, ApicType
  <2> QED
    BY <1>17, <2>1, <2>2 DEF ReaderResub, LockType, RegType,
      UserType, QueueType, OwedType, SweepType, NetType, Resubscribe, Grant
<1>18. ASSUME NEW g \in Gens, ReaderAdopt(g) PROVE TypeOK'
  <2>1. RegType'
    BY <1>18 DEF ReaderAdopt, RegType, ReaderType, ReaderStates, Settle
  <2>2. OwedType'
    BY <1>18, OweTypes DEF ReaderAdopt, OwedType, RegType, ReaderType,
      ReaderStates, Settle, Kinds
  <2>3. ReaderType'
    BY <1>18, ReaderStateTypes DEF ReaderAdopt, ReaderType, ReaderStates
  <2> QED
    BY <1>18, <2>1, <2>2, <2>3 DEF ReaderAdopt, LockType, UserType,
      QueueType, SweepType, NetType, ApicType, Settle
<1>19. ASSUME NEW g \in Gens, ReaderResume(g) PROVE TypeOK'
  <2>1. ReaderType'
    BY <1>19, ReaderStateTypes DEF ReaderResume, ReaderType, ReaderStates
  <2> QED
    BY <1>19, <2>1 DEF ReaderResume, LockType, RegType, UserType,
      QueueType, OwedType, SweepType, NetType, ApicType
<1>20. ASSUME NEW g \in Gens, ReaderCrash(g) PROVE TypeOK'
  <2>1. ReaderType'
    BY <1>20, ReaderStateTypes DEF ReaderCrash, ReaderType, ReaderStates
  <2> QED
    BY <1>20, <2>1 DEF ReaderCrash, LockType, RegType, UserType,
      QueueType, OwedType, SweepType, NetType, ApicType
<1>21. ASSUME NEW g \in Gens, NEW V \in SUBSET (1..MaxWire), ReaderRecv(g, V)
  PROVE TypeOK'
  <2>1. OwedType'
    BY <1>21, OweTypes DEF ReaderRecv, OwedType, RegType, Kinds
  <2>2. ReaderType'
    BY <1>21, ReaderStateTypes DEF ReaderRecv, ReaderType, ReaderStates
  <2>3. ApicType'
    BY <1>21 DEF ReaderRecv, ApicType
  <2> QED
    BY <1>21, <2>1, <2>2, <2>3 DEF ReaderRecv, LockType, RegType,
      UserType, QueueType, SweepType, NetType
<1>22. ASSUME NEW g \in Gens, NEW S \in SUBSET Subs, SweepTick(g, S) PROVE
  TypeOK'
  <2>1. SweepType'
    BY <1>22, SweepStateTypes DEF SweepTick, SweepType, SweepStates
  <2> QED
    BY <1>22, <2>1 DEF SweepTick, LockType, RegType, UserType,
      QueueType, OwedType, ReaderType, NetType, ApicType
<1>23. ASSUME NEW g \in Gens, NEW s \in Subs, NEW ok \in BOOLEAN,
  SweepRefresh(g, s, ok) PROVE TypeOK'
  <2>1. RegType'
    BY <1>23 DEF SweepRefresh, RegType
  <2>2. OwedType'
    BY <1>23, OweTypes DEF SweepRefresh, OwedType, RegType, Kinds
  <2>3. SweepType'
    <3> DEFINE r == [sweep[g] EXCEPT !.due = @ \ {s}]
    <3>1. r \in SweepStates
      BY DEF SweepType, SweepStates
    <3>2. /\ [[r EXCEPT !.pc = "escalate"] EXCEPT !.sub = s] \in SweepStates
          /\ [[r EXCEPT !.pc = "pass"] EXCEPT !.sub = NoSub] \in SweepStates
      BY <3>1 DEF SweepStates
    <3> QED
      BY <1>23, <3>2 DEF SweepRefresh, SweepType
  <2> QED
    BY <1>23, <2>1, <2>2, <2>3 DEF SweepRefresh, LockType, UserType,
      QueueType, ReaderType, NetType, ApicType
<1>24. ASSUME NEW g \in Gens, SweepEscalate(g) PROVE TypeOK'
  <2>1. SweepType'
    <3>1. PICK answer \in 0..MaxWire : sweep' =
             [sweep EXCEPT ![g].pc = "adopt", ![g].new = answer,
                           ![g].old = wire[sweep[g].sub]]
      BY <1>24 DEF SweepEscalate
    <3>2. wire[sweep[g].sub] \in Nat
      BY <1>24 DEF SweepEscalate, SweepType, SweepStates, RegType
    <3> DEFINE r == [sweep[g] EXCEPT !.pc = "adopt"]
               q == [r EXCEPT !.new = answer]
    <3>3. r \in SweepStates
      BY DEF SweepType, SweepStates
    <3>4. q \in SweepStates
      <4>1. answer \in Nat
        OBVIOUS
      <4> HIDE DEF r
      <4> QED BY <4>1, <3>3 DEF SweepStates
    <3>5. [q EXCEPT !.old = wire[sweep[g].sub]] \in SweepStates
      BY <3>2, <3>4 DEF SweepStates
    <3> QED
      BY <3>1, <3>5 DEF SweepType
  <2>2. ApicType'
    BY <1>24, GrantTypes DEF SweepEscalate, ApicType, Resubscribe, ApicType
  <2> QED
    BY <1>24, <2>1, <2>2 DEF SweepEscalate, LockType, RegType,
      UserType, QueueType, OwedType, ReaderType, NetType, Resubscribe, Grant
<1>25. ASSUME NEW g \in Gens, SweepAdopt(g) PROVE TypeOK'
  <2>1. RegType'
    BY <1>25 DEF SweepAdopt, RegType, SweepType, SweepStates, Settle
  <2>2. OwedType'
    BY <1>25, OweTypes DEF SweepAdopt, OwedType, RegType, SweepType,
      SweepStates, Settle, Kinds
  <2>3. SweepType'
    BY <1>25, SweepStateTypes DEF SweepAdopt, SweepType, SweepStates
  <2> QED
    BY <1>25, <2>1, <2>2, <2>3 DEF SweepAdopt, LockType, UserType,
      QueueType, ReaderType, NetType, ApicType, Settle
<1>26. ASSUME NEW g \in Gens, SweepReap(g) PROVE TypeOK'
  <2>1. RegType'
    BY <1>26 DEF SweepReap, RegType, Unsubscribe
  <2>2. OwedType'
    BY <1>26, OweTypes DEF SweepReap, OwedType, RegType, Unsubscribe
  <2>3. SweepType'
    BY <1>26, SweepStateTypes DEF SweepReap, SweepType, SweepStates
  <2> QED
    BY <1>26, <2>1, <2>2, <2>3 DEF SweepReap, LockType, UserType,
      QueueType, ReaderType, NetType, ApicType, Unsubscribe
<1>27. ASSUME NEW g \in Gens, SweepCrash(g) PROVE TypeOK'
  <2>1. SweepType'
    BY <1>27, SweepStateTypes DEF SweepCrash, SweepType, SweepStates
  <2> QED
    BY <1>27, <2>1 DEF SweepCrash, LockType, RegType, UserType,
      QueueType, OwedType, ReaderType, NetType, ApicType
<1>28. ASSUME NEW g \in Gens, SweepFailAll(g) PROVE TypeOK'
  <2>1. LockType'
    BY <1>28 DEF SweepFailAll, LockType, FailAll, Conns, NoConn
  <2>2. RegType'
    BY <1>28 DEF SweepFailAll, RegType, FailAll
  <2>3. OwedType'
    BY <1>28, OweTypes DEF SweepFailAll, OwedType, RegType, FailAll, OweAll
  <2>4. SweepType'
    BY <1>28, SweepStateTypes DEF SweepFailAll, SweepType, SweepStates
  <2>5. NetType'
    BY <1>28 DEF SweepFailAll, NetType, FailAll, LockType, Conns, NoConn
  <2> QED
    BY <1>28, <2>1, <2>2, <2>3, <2>4, <2>5 DEF SweepFailAll,
      UserType, QueueType, ReaderType, ApicType, FailAll
<1>29. ASSUME NEW o \in owed, Put(o) PROVE TypeOK'
  <2>1. QueueType'
    BY <1>29 DEF Put, QueueType, OwedType, Items
  <2>2. OwedType'
    BY <1>29, OweTypes DEF Put, OwedType
  <2> QED
    BY <1>29, <2>1, <2>2 DEF Put, LockType, RegType, UserType,
      ReaderType, SweepType, NetType, ApicType
<1>30. ASSUME NEW c \in 1..MaxConn, CloseConn(c) PROVE TypeOK'
  <2>1. NetType'
    BY <1>30 DEF CloseConn, NetType
  <2> QED
    BY <1>30, <2>1 DEF CloseConn, LockType, RegType, UserType,
      QueueType, OwedType, ReaderType, SweepType, ApicType
<1>31. ASSUME NEW c \in 1..MaxConn, Disconnect(c) PROVE TypeOK'
  <2>1. NetType'
    BY <1>31 DEF Disconnect, NetType
  <2> QED
    BY <1>31, <2>1 DEF Disconnect, LockType, RegType, UserType,
      QueueType, OwedType, ReaderType, SweepType, ApicType
<1>32. CASE UNCHANGED vars
  BY <1>32 DEF vars, LockType, RegType, UserType, QueueType,
    OwedType, ReaderType, SweepType, NetType, ApicType
<1> QED
  BY <1>1, <1>2, <1>3, <1>4, <1>5, <1>6, <1>7, <1>8, <1>9, <1>10, <1>11,
    <1>12, <1>13, <1>14, <1>15, <1>16, <1>17, <1>18, <1>19, <1>20, <1>21,
    <1>22, <1>23, <1>24, <1>25, <1>26, <1>27, <1>28, <1>29, <1>30, <1>31,
    <1>32 DEF Next, SubStep, ReaderStep, SweepStep

\* Every variable stays within its type, whatever the environment does.
THEOREM TypeCorrect == Spec => []TypeOK
  BY InitTypeOK, NextTypeOK, PTL DEF Spec

-------------------------------------------------------------------------------
(* close() is final.                                                       *)

LEMMA NextClosedForGood == ClosedForGood /\ [Next]_vars => ClosedForGood'
<1> SUFFICES ASSUME ClosedForGood, [Next]_vars PROVE ClosedForGood'
  OBVIOUS
<1> USE DEF ClosedForGood
\* The steps that leave the lock's state and the registrations alone.
<1>1. ASSUME NEW s \in Subs,
             OpenRefused(s) \/ OpenShared(s) \/ RestSubscribe(s)
             \/ Abandon(s) \/ ManualRefresh(s)
      PROVE  ClosedForGood'
  BY <1>1 DEF OpenRefused, OpenShared, RestSubscribe, Abandon, ManualRefresh
<1>2. ASSUME NEW g \in Gens,
             ReaderTop(g) \/ ReaderLost(g) \/ ReaderGiveUp(g) \/ ReaderResub(g)
             \/ ReaderResume(g) \/ ReaderCrash(g)
      PROVE  ClosedForGood'
  BY <1>2 DEF ReaderTop, ReaderLost, ReaderGiveUp, ReaderResub, ReaderResume,
              ReaderCrash
<1>3. ASSUME NEW g \in Gens, NEW V \in SUBSET (1..MaxWire), ReaderRecv(g, V)
      PROVE  ClosedForGood'
  BY <1>3 DEF ReaderRecv
<1>4. ASSUME NEW g \in Gens, NEW S \in SUBSET Subs, SweepTick(g, S)
      PROVE  ClosedForGood'
  BY <1>4 DEF SweepTick
<1>5. ASSUME NEW g \in Gens, NEW s \in Subs, NEW ok \in BOOLEAN,
             SweepRefresh(g, s, ok)
      PROVE  ClosedForGood'
  BY <1>5 DEF SweepRefresh
<1>6. ASSUME NEW g \in Gens, SweepEscalate(g) \/ SweepCrash(g)
      PROVE  ClosedForGood'
  BY <1>6 DEF SweepEscalate, SweepCrash
<1>7. ASSUME NEW o \in owed, Put(o) PROVE ClosedForGood'
  BY <1>7 DEF Put
<1>8. ASSUME NEW c \in 1..MaxConn, CloseConn(c) \/ Disconnect(c)
      PROVE  ClosedForGood'
  BY <1>8 DEF CloseConn, Disconnect
\* The steps that check _closed in the critical section they write in.
<1>9. ASSUME NEW s \in Subs, OpenFresh(s) \/ Insert(s) PROVE ClosedForGood'
  BY <1>9 DEF OpenFresh, Insert
<1>10. ASSUME NEW g \in Gens, ReaderAttempt(g) \/ ReaderSnapshot(g)
       PROVE  ClosedForGood'
  BY <1>10 DEF ReaderAttempt, ReaderSnapshot
\* The steps that only act on a subscription that is still registered.
<1>11. ASSUME NEW g \in Gens, ReaderAdopt(g) \/ SweepAdopt(g)
       PROVE  ClosedForGood'
  BY <1>11 DEF ReaderAdopt, SweepAdopt, Settle
\* The steps that only remove.
<1>12. ASSUME NEW s \in Subs, CloseOne(s) PROVE ClosedForGood'
  BY <1>12 DEF CloseOne, Unsubscribe
<1>13. CASE CloseAllSubscriptions \/ Close
  BY <1>13 DEF CloseAllSubscriptions, Close
<1>14. ASSUME NEW g \in Gens, ReaderFailAll(g) \/ SweepFailAll(g)
       PROVE  ClosedForGood'
  BY <1>14 DEF ReaderFailAll, SweepFailAll, FailAll
<1>15. ASSUME NEW g \in Gens, SweepReap(g) PROVE ClosedForGood'
  BY <1>15 DEF SweepReap, Unsubscribe
<1>16. CASE UNCHANGED vars
  BY <1>16 DEF vars
<1> QED
  BY <1>1, <1>2, <1>3, <1>4, <1>5, <1>6, <1>7, <1>8, <1>9, <1>10, <1>11, <1>12,
     <1>13, <1>14, <1>15, <1>16 DEF Next, SubStep, ReaderStep, SweepStep

\* Once close() has run, no subscribe(), reconnect, escalation or failure that
\* was in flight registers, maps or opens anything again.
THEOREM ClosedIsFinal == Spec => []ClosedForGood
<1>1. Init => ClosedForGood
  BY DEF Init, ClosedForGood
<1> QED
  BY <1>1, NextClosedForGood, PTL DEF Spec

-------------------------------------------------------------------------------
(* Every stream ends exactly once.                                         *)

\* Popping the registrations S and owing each of them one terminal item.
LEMMA PoppedOnce ==
    ASSUME OneTerminal, NEW S \in SUBSET regs, NEW t, NEW i, Terminal(i),
           regs' = regs \ S, owed' = owed \cup OweAll(t, S, i),
           UNCHANGED <<caller, ends>>
    PROVE  OneTerminal'
<1> SUFFICES ASSUME NEW s \in Subs
             PROVE  (/\ s \in regs => Returned(s)
                     /\ s \in regs \/ ~Returned(s) => Pending(s) = {} /\ ends[s] = 0
                     /\ Returned(s) /\ s \notin regs =>
                           \/ ends[s] = 0 /\ \E o \in owed : Pending(s) = {o}
                           \/ ends[s] = 1 /\ Pending(s) = {})'
  BY DEF OneTerminal
<1>1. Returned(s)' <=> Returned(s)
  BY DEF Returned
<1>2. \A r : Owe(t, r, i).sub = r /\ Owe(t, r, i).item = i
  BY DEF Owe
<1>3. CASE s \in S
  <2>1. Pending(s) = {} /\ ends[s] = 0 /\ Returned(s)
    BY <1>3 DEF OneTerminal
  <2>2. Pending(s)' = {Owe(t, s, i)}
    BY <1>2, <1>3, <2>1 DEF Pending, OweAll
  <2>3. Owe(t, s, i) \in owed'
    BY <1>3 DEF OweAll
  <2> QED
    BY <1>1, <1>3, <2>1, <2>2, <2>3
<1>4. CASE s \notin S
  <2>1. Pending(s)' = Pending(s)
    BY <1>2, <1>4 DEF Pending, OweAll
  <2> QED
    BY <1>1, <1>4, <2>1 DEF OneTerminal
<1> QED
  BY <1>3, <1>4

\* Popping one registration.
LEMMA OnePopped ==
    ASSUME OneTerminal, NEW s \in regs, NEW t, NEW i, Terminal(i),
           regs' = regs \ {s}, owed' = owed \cup {Owe(t, s, i)},
           UNCHANGED <<caller, ends>>
    PROVE  OneTerminal'
<1>1. OweAll(t, {s}, i) = {Owe(t, s, i)}
  BY DEF OweAll
<1> QED
  BY <1>1, PoppedOnce

\* Owing no terminal item, and neither popping nor registering.
LEMMA NothingPopped ==
    ASSUME OneTerminal, NEW X, owed' = owed \cup X,
           \A o \in X : ~Terminal(o.item),
           \A s \in Subs : Returned(s)' <=> Returned(s),
           UNCHANGED <<regs, ends>>
    PROVE  OneTerminal'
<1>1. \A s \in Subs : Pending(s)' = Pending(s)
  BY DEF Pending
<1> QED
  BY <1>1 DEF OneTerminal

LEMMA TerminalItems ==
    /\ Terminal(Stop) /\ Terminal(Fatal)
    /\ \A k, w : Item(k, w).kind = k
  BY DEF Terminal, Stop, Fatal, Item

LEMMA NextOneTerminal == TypeOK /\ OneTerminal /\ [Next]_vars => OneTerminal'
<1> SUFFICES ASSUME TypeOK, OneTerminal, [Next]_vars PROVE OneTerminal'
  OBVIOUS
\* The steps that touch neither the registrations nor what is owed.
<1>1. ASSUME UNCHANGED <<regs, ends, owed>>,
             \A s \in Subs : Returned(s)' <=> Returned(s)
      PROVE  OneTerminal'
  <2>1. PICK X \in {{}} : owed' = owed \cup X
    BY <1>1
  <2>2. \A o \in X : ~Terminal(o.item)
    OBVIOUS
  <2> QED
    BY <1>1, <2>1, <2>2, NothingPopped
<1>2. ASSUME NEW s \in Subs,
             OpenRefused(s) \/ OpenShared(s) \/ OpenFresh(s) \/ RestSubscribe(s)
             \/ Abandon(s) \/ ManualRefresh(s)
      PROVE  OneTerminal'
  <2>1. UNCHANGED <<regs, ends, owed>>
    BY <1>2 DEF OpenRefused, OpenShared, OpenFresh, RestSubscribe, Abandon,
                ManualRefresh
  <2>2. \A r \in Subs : Returned(r)' <=> Returned(r)
    BY <1>2 DEF OpenRefused, OpenShared, OpenFresh, RestSubscribe, Abandon,
                ManualRefresh, Returned, TypeOK, UserType
  <2> QED
    BY <1>1, <2>1, <2>2
<1>3. ASSUME NEW g \in Gens,
             ReaderTop(g) \/ ReaderLost(g) \/ ReaderAttempt(g) \/ ReaderGiveUp(g)
             \/ ReaderSnapshot(g) \/ ReaderResub(g) \/ ReaderResume(g)
             \/ ReaderCrash(g) \/ SweepEscalate(g) \/ SweepCrash(g)
      PROVE  OneTerminal'
  <2>1. UNCHANGED <<regs, ends, owed, caller>>
    BY <1>3 DEF ReaderTop, ReaderLost, ReaderAttempt, ReaderGiveUp,
                ReaderSnapshot, ReaderResub, ReaderResume, ReaderCrash,
                SweepEscalate, SweepCrash
  <2> QED
    BY <1>1, <2>1, SMTT(60) DEF Returned
<1>4. ASSUME NEW g \in Gens, NEW S \in SUBSET Subs, SweepTick(g, S)
      PROVE  OneTerminal'
  BY <1>1, <1>4 DEF SweepTick, Returned
<1>5. ASSUME NEW c \in 1..MaxConn, CloseConn(c) \/ Disconnect(c)
      PROVE  OneTerminal'
  BY <1>1, <1>5 DEF CloseConn, Disconnect, Returned
<1>6. CASE UNCHANGED vars
  BY <1>1, <1>6 DEF vars, Returned
\* The steps that owe only events, gaps and refresh failures.
<1>7. ASSUME NEW g \in Gens, NEW V \in SUBSET (1..MaxWire), ReaderRecv(g, V)
      PROVE  OneTerminal'
  <2> DEFINE X == {Owe(Reader(g), r[2], Item("event", r[1])) :
                      r \in {r \in route : r[1] \in V /\ r[2] \in regs}}
  <2>1. \A o \in X : ~Terminal(o.item)
    BY TerminalItems DEF Owe, Terminal
  <2>2. owed' = owed \cup X /\ UNCHANGED <<regs, ends, caller>>
    BY <1>7 DEF ReaderRecv
  <2> QED
    BY <2>1, <2>2, NothingPopped DEF Returned
<1>8. ASSUME NEW g \in Gens, NEW s \in Subs, NEW ok \in BOOLEAN,
             SweepRefresh(g, s, ok)
      PROVE  OneTerminal'
  <2> DEFINE o == Owe(Sweep(g), s, Item("refreshFailed", wire[s]))
  <2>1. ~Terminal(o.item)
    BY TerminalItems DEF Owe, Terminal
  <2>2. UNCHANGED <<regs, ends, caller>>
    BY <1>8 DEF SweepRefresh
  <2>3. PICK X \in {{o}, {}} : owed' = owed \cup X
    BY <1>8 DEF SweepRefresh
  <2>4. \A x \in X : ~Terminal(x.item)
    BY <2>1
  <2>5. \A r \in Subs : Returned(r)' <=> Returned(r)
    BY <2>2 DEF Returned
  <2> HIDE DEF o
  <2> QED
    BY <2>2, <2>3, <2>4, <2>5, NothingPopped
\* Registering.
<1>9. ASSUME NEW s \in Subs, Insert(s) PROVE OneTerminal'
  <2>1. ~Returned(s) /\ UNCHANGED <<ends, owed>>
    BY <1>9 DEF Insert, Returned
  <2>2. \A r \in Subs : Pending(r)' = Pending(r)
    BY <2>1 DEF Pending
  <2>3. \A r \in Subs \ {s} : Returned(r)' <=> Returned(r)
    BY <1>9 DEF Insert, Returned, TypeOK, UserType
  <2>4. CASE closed
    <3>1. ~Returned(s)' /\ UNCHANGED regs
      BY <1>9, <2>4 DEF Insert, Returned, TypeOK, UserType
    <3> QED
      BY <2>1, <2>2, <2>3, <3>1 DEF OneTerminal
  <2>5. CASE ~closed
    <3>1. Returned(s)' /\ regs' = regs \cup {s}
      BY <1>9, <2>5 DEF Insert, Returned, TypeOK, UserType
    <3> QED
      BY <2>1, <2>2, <2>3, <3>1 DEF OneTerminal
  <2> QED
    BY <2>4, <2>5
\* Popping: whoever removes a registration owes its one terminal item.
<1>10. ASSUME NEW t, NEW s \in Subs, Unsubscribe(t, s), UNCHANGED <<caller, ends>>
       PROVE  OneTerminal'
  <2>1. CASE s \in regs
    BY <1>10, <2>1, OnePopped, TerminalItems DEF Unsubscribe
  <2>2. CASE s \notin regs
    <3>1. UNCHANGED <<regs, owed>>
      BY <1>10, <2>2 DEF Unsubscribe
    <3> QED
      BY <1>1, <1>10, <3>1 DEF Returned
  <2> QED
    BY <2>1, <2>2
<1>11. ASSUME NEW s \in Subs, CloseOne(s) PROVE OneTerminal'
  BY <1>10, <1>11 DEF CloseOne
<1>12. ASSUME NEW g \in Gens, SweepReap(g) PROVE OneTerminal'
  <2>1. UNCHANGED <<caller, ends>>
    BY <1>12 DEF SweepReap
  <2>2. CASE UNCHANGED <<regVars, owed>>
    BY <1>1, <2>1, <2>2 DEF Returned
  <2>3. CASE \E s \in doomed : Unsubscribe(Sweep(g), s)
    BY <1>10, <2>1, <2>3 DEF TypeOK, RegType
  <2> QED
    BY <1>12, <2>2, <2>3 DEF SweepReap
<1>13. CASE CloseAllSubscriptions \/ Close
  <2>1. /\ regs' = regs \ regs
        /\ owed' = owed \cup OweAll(Client, regs, Stop)
        /\ UNCHANGED <<caller, ends>>
    BY <1>13 DEF CloseAllSubscriptions, Close
  <2> QED
    BY <2>1, PoppedOnce, TerminalItems
<1>14. ASSUME NEW t, FailAll(t), UNCHANGED <<caller, ends>> PROVE OneTerminal'
  <2>1. regs' = regs \ regs /\ owed' = owed \cup OweAll(t, regs, Fatal)
    BY <1>14 DEF FailAll
  <2> QED
    BY <1>14, <2>1, PoppedOnce, TerminalItems
<1>15. ASSUME NEW g \in Gens, ReaderFailAll(g) \/ SweepFailAll(g)
       PROVE  OneTerminal'
  BY <1>14, <1>15 DEF ReaderFailAll, SweepFailAll
<1>16. ASSUME NEW t, NEW s, NEW old, NEW new, NEW reset,
              Settle(t, s, old, new, reset), UNCHANGED <<caller, ends>>
       PROVE  OneTerminal'
  <2>1. CASE UNCHANGED <<regVars, owed>>
    BY <1>1, <1>16, <2>1 DEF Returned
  <2>2. CASE s \in regs /\ new = NoWire /\ wire[s] = old
    BY <1>16, <2>2, OnePopped, TerminalItems DEF Settle
  <2>3. CASE s \in regs /\ new # NoWire /\ wire[s] = old
    <3> DEFINE o == Owe(t, s, Item("gap", new))
    <3>1. ~Terminal(o.item)
      BY TerminalItems DEF Owe, Terminal
    <3>2. PICK X \in {{o}} : owed' = owed \cup X /\ UNCHANGED regs
      BY <1>16, <2>3 DEF Settle
    <3>3. \A x \in X : ~Terminal(x.item)
      BY <3>1
    <3>4. \A r \in Subs : Returned(r)' <=> Returned(r)
      BY <1>16 DEF Returned
    <3> HIDE DEF o
    <3> QED
      BY <1>16, <3>2, <3>3, <3>4, NothingPopped
  <2> QED
    BY <1>16, <2>1, <2>2, <2>3 DEF Settle
<1>17. ASSUME NEW g \in Gens, ReaderAdopt(g) \/ SweepAdopt(g)
       PROVE  OneTerminal'
  BY <1>16, <1>17 DEF ReaderAdopt, SweepAdopt
\* Putting: the item that ends s was its only one.
<1>18. ASSUME NEW o \in owed, Put(o) PROVE OneTerminal'
  <2>1. \A s \in Subs : Returned(s)' <=> Returned(s)
    BY <1>18 DEF Put, Returned
  <2>2. UNCHANGED regs /\ owed' = owed \ {o}
    BY <1>18 DEF Put
  <2>9. \A s \in Subs : \A x : Pending(s)' = {x} => x \in owed'
    BY DEF Pending
  <2>3. CASE ~Terminal(o.item)
    <3>1. UNCHANGED ends
      BY <1>18, <2>3 DEF Put
    <3>2. \A s \in Subs : Pending(s)' = Pending(s)
      BY <2>2, <2>3 DEF Pending
    <3> QED
      BY <2>9, <2>1, <2>2, <3>1, <3>2 DEF OneTerminal
  <2>4. CASE Terminal(o.item)
    <3>1. o.sub \in Subs
      BY DEF TypeOK, OwedType
    <3>2. o \in Pending(o.sub)
      BY <2>4 DEF Pending
    <3>3. Pending(o.sub) = {o} /\ ends[o.sub] = 0 /\ Returned(o.sub)
          /\ o.sub \notin regs
      BY <3>1, <3>2 DEF OneTerminal
    <3>4. Pending(o.sub)' = {}
      BY <2>2, <3>3 DEF Pending
    <3>5. ends'[o.sub] = 1
      BY <1>18, <2>4, <3>1, <3>3 DEF Put, TypeOK, QueueType
    <3>6. \A s \in Subs \ {o.sub} : Pending(s)' = Pending(s) /\ ends'[s] = ends[s]
      BY <1>18, <2>2, <2>4, <3>1 DEF Put, Pending, TypeOK, QueueType
    <3> QED
      BY <2>9, <2>1, <2>2, <3>3, <3>4, <3>5, <3>6 DEF OneTerminal
  <2> QED
    BY <2>3, <2>4
<1> QED
  BY <1>2, <1>3, <1>4, <1>5, <1>6, <1>7, <1>8, <1>9, <1>11, <1>12, <1>13, <1>15,
     <1>17, <1>18 DEF Next, SubStep, ReaderStep, SweepStep

\* No race between the many ways a subscription ends gives its consumer two
\* terminal items, or pops it without owing it one.
THEOREM EndsExactlyOnce == Spec => []OneTerminal
<1>1. Init => OneTerminal
  BY DEF Init, OneTerminal, Returned, Pending
<1> QED
  BY <1>1, NextOneTerminal, TypeCorrect, PTL DEF Spec

-------------------------------------------------------------------------------
(* The demux table is the inverse of the registrations.  The invariant is  *)
(* not inductive alone: a wire id also lives in a subscribe() between its  *)
(* REST answer and its insertion, and in a thread between a resubscribe's  *)
(* answer and its adoption.  No two of these owners ever have the same id, *)
(* so removing one id from the table removes one registration.             *)

Holds(s) == s \in regs \/ caller[s] = "insert"

Sub(s) == <<"sub", s>>
Owners == {Sub(s) : s \in Subs} \cup {Reader(g) : g \in Gens}
              \cup {Sweep(g) : g \in Gens}

SubWires(s)    == IF Holds(s) THEN {wire[s]} ELSE {}
ReaderWires(g) == IF reader[g].pc = "adopt" THEN {reader[g].new} \ {NoWire} ELSE {}
SweepWires(g)  == IF sweep[g].pc = "adopt" THEN {sweep[g].new} \ {NoWire} ELSE {}

Owns(o) == IF o[1] = "sub" THEN SubWires(o[2])
           ELSE IF o[1] = "reader" THEN ReaderWires(o[2])
           ELSE SweepWires(o[2])

WiresOwnedOnce ==
    /\ \A o \in Owners : Owns(o) \subseteq 1..wires
    /\ \A o, p \in Owners : o # p => Owns(o) \cap Owns(p) = {}

RouteIsTable == route = {<<wire[s], s>> : s \in regs}

RouteInv == WiresOwnedOnce /\ RouteIsTable

-------------------------------------------------------------------------------
LEMMA OwnsOf ==
    /\ \A s : Owns(Sub(s)) = SubWires(s)
    /\ \A g : Owns(Reader(g)) = ReaderWires(g) /\ Owns(Sweep(g)) = SweepWires(g)
    /\ \A s : Owns(Sub(s))' = SubWires(s)'
    /\ \A g : Owns(Reader(g))' = ReaderWires(g)' /\ Owns(Sweep(g))' = SweepWires(g)'
  BY DEF Owns, Sub, Reader, Sweep

LEMMA OwnersOf ==
    /\ \A s \in Subs : Sub(s) \in Owners
    /\ \A g \in Gens : Reader(g) \in Owners /\ Sweep(g) \in Owners
    /\ \A s, t : Sub(s) = Sub(t) => s = t
    /\ \A g, h : Reader(g) = Reader(h) => g = h
    /\ \A g, h : Sweep(g) = Sweep(h) => g = h
    /\ \A s, g : Sub(s) # Reader(g) /\ Sub(s) # Sweep(g)
    /\ \A g, h : Reader(g) # Sweep(h)
  BY DEF Owners, Sub, Reader, Sweep

\* A step after which every owner other than p owns no more than before, and
\* p only ids never given out, or those of an owner q that has none any more.
LEMMA OwnedByOne ==
    ASSUME WiresOwnedOnce, wires \in Nat, wires' \in Nat, wires' >= wires,
           NEW p \in Owners, NEW q \in Owners,
           \A o \in Owners \ {p} : Owns(o)' \subseteq Owns(o),
           \/ Owns(p)' \subseteq (wires + 1)..wires'
           \/ Owns(p)' \subseteq Owns(p)
           \/ Owns(p)' \subseteq Owns(q) /\ Owns(q)' = {}
    PROVE  WiresOwnedOnce'
<1>1. \A o \in Owners : Owns(o) \subseteq 1..wires'
  BY DEF WiresOwnedOnce
<1>2. \A o \in Owners : Owns(o)' \subseteq 1..wires'
  BY <1>1
<1>3. \A o \in Owners \ {p} : Owns(o)' \cap Owns(p)' = {}
  BY DEF WiresOwnedOnce
<1>4. \A o, r \in Owners \ {p} : o # r => Owns(o)' \cap Owns(r)' = {}
  BY DEF WiresOwnedOnce
<1> QED
  BY <1>2, <1>3, <1>4 DEF WiresOwnedOnce, Owners

\* Two registrations never have the same wire id.
LEMMA WiresDiffer ==
    ASSUME WiresOwnedOnce, NEW s \in Subs, NEW t \in Subs, Holds(s), Holds(t),
           wire[s] = wire[t]
    PROVE  s = t
<1>1. Owns(Sub(s)) \cap Owns(Sub(t)) # {}
  BY OwnsOf DEF SubWires
<1> QED
  BY <1>1, OwnersOf DEF WiresOwnedOnce
\* A step after which no owner owns more than before.
LEMMA OwnedLess ==
    ASSUME WiresOwnedOnce, UNCHANGED wires,
           \A s \in Subs : SubWires(s)' \subseteq SubWires(s),
           \A g \in Gens : /\ ReaderWires(g)' \subseteq ReaderWires(g)
                           /\ SweepWires(g)' \subseteq SweepWires(g)
    PROVE  WiresOwnedOnce'
<1>1. \A o \in Owners : Owns(o)' \subseteq Owns(o)
  BY OwnsOf DEF Owners
<1>2. Owners' = Owners
  BY DEF Owners, Sub, Reader, Sweep
<1> QED
  BY <1>1, <1>2 DEF WiresOwnedOnce

\* A step that leaves the registrations, their wire ids and the table alone.
LEMMA TableKept ==
    ASSUME RouteIsTable, UNCHANGED <<regs, route>>,
           \A s \in regs : wire'[s] = wire[s]
    PROVE  RouteIsTable'
  BY DEF RouteIsTable

\* Dropping the pairs of wire[s] from the table unmaps s and nobody else.
LEMMA Unmapped ==
    ASSUME RegType, RouteInv, NEW s \in regs
    PROVE  {r \in route : r[1] # wire[s]} = {<<wire[t], t>> : t \in regs \ {s}}
<1>1. \A t \in regs : wire[t] = wire[s] => t = s
  BY WiresDiffer DEF Holds, RegType, RouteInv
<1> QED
  BY <1>1 DEF RouteInv, RouteIsTable

-------------------------------------------------------------------------------
LEMMA NextRouteInv ==
    TypeOK /\ OneTerminal /\ RouteInv /\ [Next]_vars => RouteInv'
<1> SUFFICES ASSUME TypeOK, OneTerminal, RouteInv, [Next]_vars PROVE RouteInv'
  OBVIOUS
<1>0. wires \in Nat
  BY DEF TypeOK, ApicType
\* The steps that give no owner a wire id and leave the table alone.
<1>1. ASSUME UNCHANGED <<regs, route, wire, wires>>,
             \A s \in Subs : caller'[s] = "insert" => caller[s] = "insert",
             \A g \in Gens : /\ ReaderWires(g)' \subseteq ReaderWires(g)
                             /\ SweepWires(g)' \subseteq SweepWires(g)
      PROVE  RouteInv'
  <2>1. \A s \in Subs : SubWires(s)' \subseteq SubWires(s)
    BY <1>1 DEF SubWires, Holds
  <2> QED
    BY <1>1, <2>1, OwnedLess, TableKept DEF RouteInv
<1>2. ASSUME UNCHANGED <<regs, route, wire, wires, caller, threadVars>>
      PROVE  RouteInv'
  BY <1>1, <1>2 DEF ReaderWires, SweepWires
<1>3. ASSUME NEW s \in Subs,
             OpenRefused(s) \/ OpenShared(s) \/ Abandon(s) \/ ManualRefresh(s)
      PROVE  RouteInv'
  <2>1. /\ UNCHANGED <<regs, route, wire, wires, reader, sweep>>
        /\ \A r \in Subs : caller'[r] = "insert" => caller[r] = "insert"
    BY <1>3 DEF OpenRefused, OpenShared, Abandon, ManualRefresh, TypeOK, UserType
  <2> QED
    BY <1>1, <2>1 DEF ReaderWires, SweepWires
<1>4. ASSUME NEW s \in Subs, OpenFresh(s) PROVE RouteInv'
  <2>1. /\ UNCHANGED <<regs, route, wire, wires>>
        /\ \A r \in Subs : caller'[r] = "insert" => caller[r] = "insert"
    BY <1>4 DEF OpenFresh, TypeOK, UserType
  <2>2. \A g \in Gens : /\ reader'[g].pc = "adopt" => reader'[g] = reader[g]
                        /\ sweep'[g].pc = "adopt" => sweep'[g] = sweep[g]
    BY <1>4 DEF OpenFresh, TypeOK, ReaderType, SweepType, ReaderStates, SweepStates
  <2> QED
    BY <1>1, <2>1, <2>2 DEF ReaderWires, SweepWires
<1>5. ASSUME NEW g \in Gens,
             ReaderTop(g) \/ ReaderLost(g) \/ ReaderAttempt(g) \/ ReaderGiveUp(g)
             \/ ReaderSnapshot(g) \/ ReaderResume(g) \/ ReaderCrash(g)
      PROVE  RouteInv'
  <2>1. UNCHANGED <<regs, route, wire, wires, sweep, caller>>
    BY <1>5 DEF ReaderTop, ReaderLost, ReaderAttempt, ReaderGiveUp,
                ReaderSnapshot, ReaderResume, ReaderCrash
  <2>2. \A h \in Gens : reader'[h].pc = "adopt" => reader'[h] = reader[h]
    <3>1. CASE ReaderAttempt(g)
      BY <3>1 DEF ReaderAttempt, ReaderAt, ReaderIdle, TypeOK, ReaderType,
                  ReaderStates
    <3>2. CASE ReaderTop(g) \/ ReaderLost(g) \/ ReaderGiveUp(g)
      BY <3>2, ZenonT(60) DEF ReaderTop, ReaderLost, ReaderGiveUp, ReaderAt, ReaderIdle,
                  TypeOK, ReaderType
    <3>3. CASE ReaderSnapshot(g) \/ ReaderResume(g) \/ ReaderCrash(g)
      BY <3>3, ZenonT(60) DEF ReaderSnapshot, ReaderResume, ReaderCrash, ReaderAt,
                  Resubscribing, ReaderIdle, TypeOK, ReaderType
    <3> QED
      BY <1>5, <3>1, <3>2, <3>3
  <2> QED
    BY <1>1, <2>1, <2>2 DEF ReaderWires, SweepWires
<1>6. ASSUME NEW g \in Gens, NEW V \in SUBSET (1..MaxWire), ReaderRecv(g, V)
      PROVE  RouteInv'
  <2>1. UNCHANGED <<regs, route, wire, wires, sweep, caller>>
    BY <1>6 DEF ReaderRecv
  <2>2. \A h \in Gens : reader'[h].pc = "adopt" => reader'[h] = reader[h]
    BY <1>6 DEF ReaderRecv, TypeOK, ReaderType, ReaderStates
  <2> QED
    BY <1>1, <2>1, <2>2 DEF ReaderWires, SweepWires
<1>7. ASSUME NEW g \in Gens, NEW S \in SUBSET Subs, SweepTick(g, S)
      PROVE  RouteInv'
  <2>1. UNCHANGED <<regs, route, wire, wires, reader, caller>>
    BY <1>7 DEF SweepTick
  <2>2. \A h \in Gens : sweep'[h].pc = "adopt" => sweep'[h] = sweep[h]
    BY <1>7 DEF SweepTick, SweepAt, Passing, SweepIdle, TypeOK, SweepType,
                SweepStates
  <2> QED
    BY <1>1, <2>1, <2>2 DEF ReaderWires, SweepWires
<1>8. ASSUME NEW g \in Gens, NEW s \in Subs, NEW ok \in BOOLEAN,
             SweepRefresh(g, s, ok)
      PROVE  RouteInv'
  <2>1. UNCHANGED <<regs, route, wire, wires, reader, caller>>
    BY <1>8 DEF SweepRefresh
  <2>2. \A h \in Gens : sweep'[h].pc = "adopt" => sweep'[h] = sweep[h]
    BY <1>8 DEF SweepRefresh, TypeOK, SweepType, SweepStates
  <2> QED
    BY <1>1, <2>1, <2>2 DEF ReaderWires, SweepWires
<1>9. ASSUME NEW g \in Gens, SweepCrash(g) PROVE RouteInv'
  <2>1. UNCHANGED <<regs, route, wire, wires, reader, caller>>
    BY <1>9 DEF SweepCrash
  <2>2. \A h \in Gens : sweep'[h].pc = "adopt" => sweep'[h] = sweep[h]
    BY <1>9 DEF SweepCrash, SweepAt, SweepIdle, TypeOK, SweepType, SweepStates
  <2> QED
    BY <1>1, <2>1, <2>2 DEF ReaderWires, SweepWires
<1>10. ASSUME NEW o \in owed, Put(o) PROVE RouteInv'
  BY <1>2, <1>10 DEF Put
<1>11. ASSUME NEW c \in 1..MaxConn, CloseConn(c) \/ Disconnect(c)
       PROVE  RouteInv'
  BY <1>2, <1>11 DEF CloseConn, Disconnect
<1>12. CASE UNCHANGED vars
  BY <1>2, <1>12 DEF vars
\* The answers of the APIC: a new wire id gets one owner.
<1>13. ASSUME NEW s \in Subs, RestSubscribe(s) PROVE RouteInv'
  <2>1. s \notin regs /\ caller[s] = "rest"
    BY <1>13 DEF RestSubscribe, OneTerminal, Returned
  <2>2. UNCHANGED <<regs, route, reader, sweep>>
    BY <1>13 DEF RestSubscribe
  <2>3. CASE UNCHANGED <<wire, wires>> /\ caller' = [caller EXCEPT ![s] = "refused"]
    BY <1>1, <2>2, <2>3 DEF TypeOK, UserType, ReaderWires, SweepWires
  <2>4. CASE wires' = wires + 1 /\ wire' = [wire EXCEPT ![s] = wires + 1]
             /\ caller' = [caller EXCEPT ![s] = "insert"]
    <3>1. \A r \in Subs \ {s} : wire'[r] = wire[r] /\ caller'[r] = caller[r]
      BY <2>4 DEF TypeOK, UserType, RegType
    <3>2. RouteIsTable'
      BY <2>1, <2>2, <3>1, TableKept DEF TypeOK, RegType, RouteInv
    <3>3. SubWires(s)' = {wires + 1}
      BY <2>4 DEF SubWires, Holds, TypeOK, RegType, UserType
    <3>4. \A r \in Subs \ {s} : SubWires(r)' = SubWires(r)
      BY <2>2, <3>1 DEF SubWires, Holds
    <3>5. \A o \in Owners \ {Sub(s)} : Owns(o)' \subseteq Owns(o)
      BY <2>2, <3>4, OwnsOf DEF Owners, ReaderWires, SweepWires
    <3>6. Owns(Sub(s))' \subseteq (wires + 1)..wires'
      BY <1>0, <2>4, <3>3, OwnsOf
    <3>7. Sub(s) \in Owners /\ wires' \in Nat /\ wires' >= wires
      BY <1>0, <2>4, OwnersOf
    <3>8. WiresOwnedOnce'
      BY <1>0, <3>5, <3>6, <3>7, OwnedByOne DEF RouteInv
    <3> QED
      BY <3>2, <3>8 DEF RouteInv
  <2> QED
    BY <1>13, <2>3, <2>4 DEF RestSubscribe, Grant
<1>14. ASSUME NEW g \in Gens, ReaderResub(g) PROVE RouteInv'
  <2>1. UNCHANGED <<regs, route, wire, caller, sweep>>
    BY <1>14 DEF ReaderResub
  <2>2. PICK answer \in 0..MaxWire :
           /\ Resubscribe(answer)
           /\ \E s \in reader[g].todo :
                 reader' = [reader EXCEPT ![g].pc = "adopt", ![g].todo = @ \ {s},
                              ![g].sub = s, ![g].old = wire[s], ![g].new = answer]
    BY <1>14 DEF ReaderResub
  <2>3. ReaderWires(g)' = {answer} \ {NoWire}
    BY <2>2 DEF ReaderWires, TypeOK, ReaderType, ReaderStates
  <2>4. \A h \in Gens \ {g} : ReaderWires(h)' = ReaderWires(h)
    BY <2>2 DEF ReaderWires, TypeOK, ReaderType
  <2>5. \A o \in Owners \ {Reader(g)} : Owns(o)' \subseteq Owns(o)
    BY <2>1, <2>4, OwnsOf DEF Owners, SubWires, Holds, SweepWires
  <2>6. /\ wires' \in Nat /\ wires' >= wires
        /\ Owns(Reader(g))' \subseteq (wires + 1)..wires'
    BY <1>0, <2>2, <2>3, OwnsOf DEF Resubscribe, Grant
  <2>7. WiresOwnedOnce'
    BY <1>0, <2>5, <2>6, OwnersOf, OwnedByOne DEF RouteInv
  <2> QED
    BY <2>1, <2>7, TableKept DEF RouteInv
<1>15. ASSUME NEW g \in Gens, SweepEscalate(g) PROVE RouteInv'
  <2>1. UNCHANGED <<regs, route, wire, caller, reader>>
    BY <1>15 DEF SweepEscalate
  <2>2. PICK answer \in 0..MaxWire :
           /\ Resubscribe(answer)
           /\ sweep' = [sweep EXCEPT ![g].pc = "adopt", ![g].new = answer,
                                     ![g].old = wire[sweep[g].sub]]
    BY <1>15 DEF SweepEscalate
  <2>3. SweepWires(g)' = {answer} \ {NoWire}
    BY <2>2 DEF SweepWires, TypeOK, SweepType, SweepStates
  <2>4. \A h \in Gens \ {g} : SweepWires(h)' = SweepWires(h)
    BY <2>2 DEF SweepWires, TypeOK, SweepType
  <2>5. \A o \in Owners \ {Sweep(g)} : Owns(o)' \subseteq Owns(o)
    BY <2>1, <2>4, OwnsOf DEF Owners, SubWires, Holds, ReaderWires
  <2>6. /\ wires' \in Nat /\ wires' >= wires
        /\ Owns(Sweep(g))' \subseteq (wires + 1)..wires'
    BY <1>0, <2>2, <2>3, OwnsOf DEF Resubscribe, Grant
  <2>7. WiresOwnedOnce'
    BY <1>0, <2>5, <2>6, OwnersOf, OwnedByOne DEF RouteInv
  <2> QED
    BY <2>1, <2>7, TableKept DEF RouteInv
\* Registering: the id stays with the same owner.
<1>16. ASSUME NEW s \in Subs, Insert(s) PROVE RouteInv'
  <2>1. /\ UNCHANGED <<wire, wires, reader, sweep>>
        /\ Holds(s)
        /\ \A r \in Subs : Holds(r)' => Holds(r)
    BY <1>16 DEF Insert, Holds, TypeOK, UserType
  <2>2. WiresOwnedOnce'
    BY <2>1, OwnedLess DEF RouteInv, SubWires, ReaderWires, SweepWires
  <2>3. RouteIsTable'
    BY <1>16 DEF Insert, RouteInv, RouteIsTable
  <2> QED
    BY <2>2, <2>3 DEF RouteInv
\* Popping.
<1>17. ASSUME NEW S \in SUBSET regs, regs' = regs \ S, RouteIsTable',
              UNCHANGED <<wire, wires, caller>>,
              \A g \in Gens : /\ ReaderWires(g)' \subseteq ReaderWires(g)
                              /\ SweepWires(g)' \subseteq SweepWires(g)
       PROVE  RouteInv'
  <2>1. \A s \in Subs : SubWires(s)' \subseteq SubWires(s)
    BY <1>17 DEF SubWires, Holds
  <2> QED
    BY <1>17, <2>1, OwnedLess DEF RouteInv
<1>18. ASSUME NEW t, NEW s \in Subs, Unsubscribe(t, s)
       PROVE  RouteIsTable' /\ regs' = regs \ (regs \cap {s}) /\ UNCHANGED wire
  <2>1. CASE s \in regs
    BY <1>18, <2>1, Unmapped DEF Unsubscribe, RouteIsTable, TypeOK
  <2>2. CASE s \notin regs
    BY <1>18, <2>2 DEF Unsubscribe, RouteIsTable, RouteInv
  <2> QED
    BY <2>1, <2>2
<1>19. ASSUME NEW s \in Subs, CloseOne(s) PROVE RouteInv'
  <2>1. UNCHANGED <<wires, caller, reader, sweep>>
    BY <1>19 DEF CloseOne
  <2>2. RouteIsTable' /\ regs' = regs \ (regs \cap {s}) /\ UNCHANGED wire
    BY <1>18, <1>19 DEF CloseOne
  <2> QED
    BY <1>17, <2>1, <2>2 DEF ReaderWires, SweepWires
<1>20. ASSUME NEW g \in Gens, SweepReap(g) PROVE RouteInv'
  <2>1. UNCHANGED <<wires, caller, reader>>
    BY <1>20 DEF SweepReap
  <2>2. \A h \in Gens : SweepWires(h)' \subseteq SweepWires(h)
    BY <1>20 DEF SweepReap, SweepWires, SweepAt, SweepIdle, TypeOK, SweepType
  <2>3. CASE UNCHANGED regVars
    BY <1>1, <2>1, <2>2, <2>3 DEF ReaderWires
  <2>4. ASSUME NEW s \in doomed, Unsubscribe(Sweep(g), s) PROVE RouteInv'
    <3>1. RouteIsTable' /\ regs' = regs \ (regs \cap {s}) /\ UNCHANGED wire
      BY <1>18, <2>4 DEF TypeOK, RegType
    <3> QED
      BY <1>17, <2>1, <2>2, <3>1 DEF ReaderWires
  <2> QED
    BY <1>20, <2>3, <2>4 DEF SweepReap
<1>21. CASE CloseAllSubscriptions \/ Close
  <2>1. /\ regs' = regs \ regs /\ route' = {}
        /\ UNCHANGED <<wire, wires, caller, reader, sweep>>
    BY <1>21 DEF CloseAllSubscriptions, Close
  <2>2. RouteIsTable'
    BY <2>1 DEF RouteIsTable
  <2> QED
    BY <1>17, <2>1, <2>2 DEF ReaderWires, SweepWires
<1>22. ASSUME NEW g \in Gens, ReaderFailAll(g) \/ SweepFailAll(g)
       PROVE  RouteInv'
  <2>1. /\ regs' = regs \ regs /\ route' = {}
        /\ UNCHANGED <<wire, wires, caller>>
    BY <1>22 DEF ReaderFailAll, SweepFailAll, FailAll
  <2>2. RouteIsTable'
    BY <2>1 DEF RouteIsTable
  <2>3. \A h \in Gens : /\ ReaderWires(h)' \subseteq ReaderWires(h)
                        /\ SweepWires(h)' \subseteq SweepWires(h)
    BY <1>22 DEF ReaderFailAll, SweepFailAll, ReaderWires, SweepWires, ReaderAt,
                 SweepAt, ReaderIdle, SweepIdle, TypeOK, ReaderType, SweepType
  <2> QED
    BY <1>17, <2>1, <2>2, <2>3
\* Adopting a resubscribe's answer: its id passes from the thread to s.
<1>23. ASSUME NEW t \in Owners, NEW s \in Subs \cup {NoSub}, NEW new,
              \/ \E reset \in BOOLEAN : Settle(t, s, wire[s], new, reset)
              \/ UNCHANGED <<regVars, owed>>,
              UNCHANGED <<wires, caller>>, {new} \ {NoWire} \subseteq Owns(t),
              Owns(t)' = {}, \A r \in Subs : t # Sub(r),
              \A o \in Owners : (\A r \in Subs : o # Sub(r)) =>
                                    Owns(o)' \subseteq Owns(o)
       PROVE  RouteInv'
  <2>1. \A g \in Gens : /\ ReaderWires(g)' \subseteq ReaderWires(g)
                        /\ SweepWires(g)' \subseteq SweepWires(g)
    BY <1>23, OwnersOf, OwnsOf
  <2>2. CASE UNCHANGED <<regVars, owed>>
    BY <1>1, <1>23, <2>1, <2>2
  <2>3. CASE /\ s \in regs /\ regs' = regs \ {s} /\ UNCHANGED wire
             /\ route' = {r \in route : r[1] # wire[s]}
    <3>1. RouteIsTable'
      BY <2>3, Unmapped DEF RouteIsTable, TypeOK
    <3>2. PICK S \in {{s}} : S \in SUBSET regs /\ regs' = regs \ S
      BY <2>3
    <3> QED
      BY <1>17, <1>23, <2>1, <2>3, <3>1, <3>2
  <2>4. CASE /\ s \in regs /\ new # NoWire /\ UNCHANGED regs
             /\ route' = {r \in route : r[1] # wire[s]} \cup {<<new, s>>}
             /\ wire' = [wire EXCEPT ![s] = new]
    <3>1. s \in Subs
      BY <2>4 DEF TypeOK, RegType
    <3>2. wire'[s] = new /\ \A r \in Subs \ {s} : wire'[r] = wire[r]
      BY <2>4, <3>1 DEF TypeOK, RegType
    <3>3. route' = {<<wire[r], r>> : r \in regs \ {s}} \cup {<<new, s>>}
      BY <2>4, Unmapped DEF TypeOK
    <3>4. RouteIsTable'
      BY <2>4, <3>1, <3>2, <3>3 DEF RouteIsTable, TypeOK, RegType
    <3>5. \A r \in Subs \ {s} : SubWires(r)' = SubWires(r)
      BY <1>23, <2>4, <3>2 DEF SubWires, Holds
    <3>6. SubWires(s)' \subseteq Owns(t)
      BY <1>23, <2>4, <3>2 DEF SubWires
    <3>7. \A o \in Owners \ {Sub(s)} : Owns(o)' \subseteq Owns(o)
      BY <1>23, <3>5, OwnersOf, OwnsOf DEF Owners
    <3>8. Owns(Sub(s))' \subseteq Owns(t) /\ Sub(s) \in Owners
      BY <3>1, <3>6, OwnersOf, OwnsOf
    <3>9. WiresOwnedOnce'
      BY <1>0, <1>23, <3>7, <3>8, OwnedByOne DEF RouteInv
    <3> QED
      BY <3>4, <3>9 DEF RouteInv
  <2> QED
    BY <1>23, <2>2, <2>3, <2>4 DEF Settle
<1>24. ASSUME NEW g \in Gens, ReaderAdopt(g) PROVE RouteInv'
  <2> DEFINE s == reader[g].sub
  <2>1. /\ UNCHANGED <<wires, caller, sweep>>
        /\ Settle(Reader(g), s, reader[g].old, reader[g].new, FALSE)
        /\ reader' = [reader EXCEPT ![g] = Resubscribing(reader[g].todo)]
        /\ reader[g].pc = "adopt"
    BY <1>24 DEF ReaderAdopt
  <2>2. \/ \E reset \in BOOLEAN : Settle(Reader(g), s, wire[s], reader[g].new, reset)
        \/ UNCHANGED <<regVars, owed>>
    BY <2>1 DEF Settle
  <2>3. Owns(Reader(g)) = {reader[g].new} \ {NoWire} /\ Owns(Reader(g))' = {}
    BY <2>1, OwnsOf DEF ReaderWires, Resubscribing, ReaderIdle, TypeOK, ReaderType
  <2>4. \A h \in Gens : /\ ReaderWires(h)' \subseteq ReaderWires(h)
                        /\ SweepWires(h)' \subseteq SweepWires(h)
    BY <2>1 DEF ReaderWires, SweepWires, Resubscribing, ReaderIdle, TypeOK, ReaderType
  <2>5. \A o \in Owners : (\A r \in Subs : o # Sub(r)) => Owns(o)' \subseteq Owns(o)
    BY <2>4, OwnsOf DEF Owners
  <2>6. s \in Subs \cup {NoSub}
    BY DEF TypeOK, ReaderType, ReaderStates
  <2>7. Reader(g) \in Owners /\ \A r \in Subs : Reader(g) # Sub(r)
    BY OwnersOf
  <2>8. {reader[g].new} \ {NoWire} \subseteq Owns(Reader(g))
    BY <2>3
  <2> HIDE DEF s
  <2> QED
    BY <1>23, <2>1, <2>2, <2>3, <2>5, <2>6, <2>7, <2>8, SMTT(60)
<1>25. ASSUME NEW g \in Gens, SweepAdopt(g) PROVE RouteInv'
  <2> DEFINE s == sweep[g].sub
  <2>1. /\ UNCHANGED <<wires, caller, reader>>
        /\ Settle(Sweep(g), s, sweep[g].old, sweep[g].new, TRUE)
        /\ sweep' = [sweep EXCEPT ![g] = Passing(sweep[g].due)]
        /\ sweep[g].pc = "adopt"
    BY <1>25 DEF SweepAdopt
  <2>2. \/ \E reset \in BOOLEAN : Settle(Sweep(g), s, wire[s], sweep[g].new, reset)
        \/ UNCHANGED <<regVars, owed>>
    BY <2>1 DEF Settle
  <2>3. Owns(Sweep(g)) = {sweep[g].new} \ {NoWire} /\ Owns(Sweep(g))' = {}
    BY <2>1, OwnsOf DEF SweepWires, Passing, SweepIdle, TypeOK, SweepType
  <2>4. \A h \in Gens : /\ ReaderWires(h)' \subseteq ReaderWires(h)
                        /\ SweepWires(h)' \subseteq SweepWires(h)
    BY <2>1 DEF ReaderWires, SweepWires, Passing, SweepIdle, TypeOK, SweepType
  <2>5. \A o \in Owners : (\A r \in Subs : o # Sub(r)) => Owns(o)' \subseteq Owns(o)
    BY <2>4, OwnsOf DEF Owners
  <2>6. s \in Subs \cup {NoSub}
    BY DEF TypeOK, SweepType, SweepStates
  <2>7. Sweep(g) \in Owners /\ \A r \in Subs : Sweep(g) # Sub(r)
    BY OwnersOf
  <2>8. {sweep[g].new} \ {NoWire} \subseteq Owns(Sweep(g))
    BY <2>3
  <2> HIDE DEF s
  <2> QED
    BY <1>23, <2>1, <2>2, <2>3, <2>5, <2>6, <2>7, <2>8
<1> QED
  BY <1>3, <1>4, <1>5, <1>6, <1>7, <1>8, <1>9, <1>10, <1>11, <1>12, <1>13, <1>14,
     <1>15, <1>16, <1>19, <1>20, <1>21, <1>22, <1>24, <1>25
  DEF Next, SubStep, ReaderStep, SweepStep

\* The table a frame's subscriptionId is looked up in always maps the current
\* wire id of each registration to it, to it alone, and nothing else.
THEOREM RouteIsAlwaysInverse == Spec => []RouteIsInverse
<1>1. Init => RouteInv
  <2> SUFFICES ASSUME Init PROVE RouteInv
    OBVIOUS
  <2>1. \A o \in Owners : Owns(o) = {}
    BY OwnsOf DEF Init, Owners, SubWires, Holds, ReaderWires, SweepWires,
                  ReaderIdle, SweepIdle
  <2> QED
    BY <2>1 DEF Init, RouteInv, WiresOwnedOnce, RouteIsTable
<1>2. TypeOK /\ RouteInv => RouteIsInverse
  BY WiresDiffer DEF RouteInv, RouteIsTable, RouteIsInverse, Holds, TypeOK, RegType
<1> QED
  BY <1>1, <1>2, NextRouteInv, TypeCorrect, EndsExactlyOnce, PTL DEF Spec

-------------------------------------------------------------------------------
(* SubscriptionSocket implements the safety part of Subscriptions: each    *)
(* step of the socket, its threads and its callers is a step of the        *)
(* promise or none.  The mapping needs OneTerminal: a registration that is *)
(* popped was given no terminal item yet, and the one put is its stream's  *)
(* last.                                                                   *)

Phases == [s \in Subs |-> Phase(s)]

-------------------------------------------------------------------------------
(* The refinement mapping.                                                 *)

PhaseByCase(s) ==
    IF caller[s] = "refused" THEN "refused"
    ELSE IF ~Returned(s) THEN "unborn"
    ELSE IF s \in regs THEN "open"
    ELSE IF ends[s] = 0 THEN "ending" ELSE "ended"

LEMMA PhaseCases ==
    /\ \A s : Phase(s) = PhaseByCase(s)
    /\ \A s : Phase(s)' = PhaseByCase(s)'
<1>1. \A s : Phase(s) = PhaseByCase(s)
  BY DEF Phase, PhaseByCase, Returned
<1>2. \A s : Phase(s)' = PhaseByCase(s)'
  BY DEF Phase, PhaseByCase, Returned
<1> QED
  BY <1>1, <1>2

\* The open streams are the registered ones.
LEMMA OpenIsRegistered ==
    ASSUME TypeOK, OneTerminal
    PROVE  Promise!OpenSubs = regs
<1>1. ASSUME NEW s \in Subs PROVE Phase(s) = "open" <=> s \in regs
  BY PhaseCases DEF PhaseByCase, OneTerminal, Returned
<1> QED
  BY <1>1 DEF Promise!OpenSubs, TypeOK, RegType

\* A step that changes neither what a caller got nor its registration.
LEMMA NoPhaseChanges ==
    ASSUME UNCHANGED <<closed, regs, ends>>,
           \A s \in Subs : /\ Returned(s)' <=> Returned(s)
                           /\ caller'[s] = "refused" <=> caller[s] = "refused"
    PROVE  UNCHANGED Promise!vars
<1>1. \A s \in Subs : Phase(s)' = Phase(s)
  BY PhaseCases DEF PhaseByCase
<1> QED
  BY <1>1 DEF Promise!vars

\* A step that changes what the caller of one stream got.
LEMMA OnePhaseChanges ==
    ASSUME NEW s \in Subs, UNCHANGED ends, regs' \subseteq regs \cup {s},
           regs \subseteq regs',
           \A r \in Subs \ {s} : caller'[r] = caller[r]
    PROVE  Phases' = [Phases EXCEPT ![s] = Phase(s)']
<1>1. \A r \in Subs \ {s} : Phase(r)' = Phase(r)
  BY PhaseCases DEF PhaseByCase, Returned
<1> QED
  BY <1>1 DEF Phases

\* Popping the registrations S ends their streams, and no other.
LEMMA PoppedEnds ==
    ASSUME TypeOK, OneTerminal, NEW S \in SUBSET regs, regs' = regs \ S,
           UNCHANGED <<caller, ends>>
    PROVE  S \subseteq Promise!OpenSubs /\ Promise!Ending(S)
<1>1. S \subseteq Promise!OpenSubs
  BY OpenIsRegistered
<1>2. ASSUME NEW s \in Subs PROVE Phase(s)' = IF s \in S THEN "ending" ELSE Phase(s)
  <2>1. Returned(s)' <=> Returned(s)
    BY DEF Returned
  <2>2. s \in S => Returned(s) /\ ends[s] = 0
    BY DEF OneTerminal
  <2>3. s \in S => caller[s] # "refused"
    BY <2>2 DEF Returned
  <2> QED
    BY <2>1, <2>2, <2>3, PhaseCases DEF PhaseByCase
<1>3. Phases' = [s \in Subs |-> IF s \in S THEN "ending" ELSE Phases[s]]
  BY <1>2 DEF Phases
<1> QED
  BY <1>1, <1>3 DEF Promise!Ending, Phases

-------------------------------------------------------------------------------
(* Every step is a step of the promise.                                    *)

LEMMA StepImplements ==
    TypeOK /\ OneTerminal /\ [Next]_vars => [Promise!Next]_(Promise!vars)
<1> SUFFICES ASSUME TypeOK, OneTerminal, [Next]_vars
             PROVE  [Promise!Next]_(Promise!vars)
  OBVIOUS
<1>u. caller \in [Subs -> {"new", "rest", "insert", "live", "gone", "refused"}]
  BY DEF TypeOK, UserType
\* The steps no consumer can see.
<1>1. ASSUME UNCHANGED <<closed, regs, ends, caller>> PROVE UNCHANGED Promise!vars
  BY <1>1, NoPhaseChanges, SMTT(60) DEF Returned
<1>2. ASSUME NEW g \in Gens,
             ReaderTop(g) \/ ReaderLost(g) \/ ReaderAttempt(g) \/ ReaderGiveUp(g)
             \/ ReaderSnapshot(g) \/ ReaderResub(g) \/ ReaderResume(g)
             \/ ReaderCrash(g) \/ SweepEscalate(g) \/ SweepCrash(g)
      PROVE  UNCHANGED Promise!vars
  BY <1>1, <1>2 DEF ReaderTop, ReaderLost, ReaderAttempt, ReaderGiveUp, ReaderSnapshot,
       ReaderResub, ReaderResume, ReaderCrash, SweepEscalate, SweepCrash
<1>3. ASSUME NEW g \in Gens, NEW V \in SUBSET (1..MaxWire), ReaderRecv(g, V)
      PROVE  UNCHANGED Promise!vars
  BY <1>1, <1>3 DEF ReaderRecv
<1>4. ASSUME NEW g \in Gens, NEW S \in SUBSET Subs, SweepTick(g, S)
      PROVE  UNCHANGED Promise!vars
  BY <1>1, <1>4 DEF SweepTick
<1>5. ASSUME NEW g \in Gens, NEW s \in Subs, NEW ok \in BOOLEAN, SweepRefresh(g, s, ok)
      PROVE  UNCHANGED Promise!vars
  BY <1>1, <1>5 DEF SweepRefresh
<1>6. ASSUME NEW c \in 1..MaxConn, CloseConn(c) \/ Disconnect(c)
      PROVE  UNCHANGED Promise!vars
  BY <1>1, <1>6 DEF CloseConn, Disconnect
<1>7. ASSUME NEW s \in Subs,
             OpenShared(s) \/ OpenFresh(s) \/ Abandon(s) \/ ManualRefresh(s)
      PROVE  UNCHANGED Promise!vars
  <2>1. UNCHANGED <<closed, regs, ends>>
    BY <1>7 DEF OpenShared, OpenFresh, Abandon, ManualRefresh
  <2>2. \A r \in Subs : /\ Returned(r)' <=> Returned(r)
                        /\ caller'[r] = "refused" <=> caller[r] = "refused"
    BY <1>7, <1>u DEF OpenShared, OpenFresh, Abandon, ManualRefresh, Returned
  <2> QED
    BY <2>1, <2>2, NoPhaseChanges
<1>8. CASE UNCHANGED vars
  BY <1>1, <1>8 DEF vars
\* subscribe() is refused, proceeds, or opens the stream.
<1>9. ASSUME NEW s \in Subs, ~Returned(s), caller[s] # "refused", caller'[s] = "refused",
             UNCHANGED <<closed, regs, ends>>,
             \A r \in Subs \ {s} : caller'[r] = caller[r]
      PROVE  Promise!Refuse(s)
  <2>1. Phase(s) = "unborn" /\ Phase(s)' = "refused"
    BY <1>9, PhaseCases DEF PhaseByCase
  <2>2. Phases' = [Phases EXCEPT ![s] = "refused"]
    BY <1>9, <2>1, OnePhaseChanges
  <2> QED
    BY <1>9, <2>1, <2>2 DEF Promise!Refuse, Phases
<1>10. ASSUME NEW s \in Subs, OpenRefused(s) PROVE Promise!Refuse(s)
  BY <1>9, <1>10, <1>u DEF OpenRefused, Returned
<1>11. ASSUME NEW s \in Subs, RestSubscribe(s)
       PROVE  Promise!Refuse(s) \/ UNCHANGED Promise!vars
  <2>1. /\ UNCHANGED <<closed, regs, ends>> /\ caller[s] = "rest"
        /\ \A r \in Subs \ {s} : caller'[r] = caller[r]
        /\ caller'[s] \in {"insert", "refused"}
    BY <1>11, <1>u DEF RestSubscribe
  <2>2. CASE caller'[s] = "refused"
    BY <1>9, <2>1, <2>2 DEF Returned
  <2>3. CASE caller'[s] = "insert"
    <3>1. \A r \in Subs : /\ Returned(r)' <=> Returned(r)
                          /\ caller'[r] = "refused" <=> caller[r] = "refused"
      BY <2>1, <2>3 DEF Returned
    <3> QED
      BY <2>1, <3>1, NoPhaseChanges
  <2> QED
    BY <2>1, <2>2, <2>3
<1>12. ASSUME NEW s \in Subs, Insert(s) PROVE Promise!Refuse(s) \/ Promise!Open(s)
  <2>1. /\ UNCHANGED <<closed, ends>> /\ caller[s] = "insert"
        /\ \A r \in Subs \ {s} : caller'[r] = caller[r]
    BY <1>12, <1>u DEF Insert
  <2>2. CASE closed
    <3>1. caller'[s] = "refused" /\ UNCHANGED regs
      BY <1>12, <1>u, <2>2 DEF Insert
    <3> QED
      BY <1>9, <2>1, <3>1 DEF Returned
  <2>3. CASE ~closed
    <3>1. caller'[s] = "live" /\ regs' = regs \cup {s}
      BY <1>12, <1>u, <2>3 DEF Insert
    <3>2. Phase(s) = "unborn" /\ Phase(s)' = "open"
      BY <2>1, <3>1, PhaseCases DEF PhaseByCase, Returned
    <3>3. Phases' = [Phases EXCEPT ![s] = "open"]
      BY <2>1, <3>1, <3>2, OnePhaseChanges
    <3> QED
      BY <2>1, <2>3, <3>2, <3>3 DEF Promise!Open, Phases
  <2> QED
    BY <2>2, <2>3
\* Whoever pops a registration ends its stream.
<1>13. ASSUME NEW s, UNCHANGED <<closed, caller, ends>>, regs' = regs \ {s}
       PROVE  (\E r \in Subs : Promise!End({r})) \/ UNCHANGED Promise!vars
  <2>1. CASE s \in regs
    <3>1. s \in Subs /\ {s} \subseteq regs
      BY <2>1 DEF TypeOK, RegType
    <3>2. {s} \subseteq Promise!OpenSubs /\ Promise!Ending({s})
      BY <1>13, <3>1, PoppedEnds
    <3> QED
      BY <1>13, <3>1, <3>2 DEF Promise!End
  <2>2. CASE s \notin regs
    BY <1>1, <1>13, <2>2
  <2> QED
    BY <2>1, <2>2
<1>14. ASSUME NEW s \in Subs, CloseOne(s)
       PROVE  (\E r \in Subs : Promise!End({r})) \/ UNCHANGED Promise!vars
  BY <1>13, <1>14 DEF CloseOne, Unsubscribe
<1>15. ASSUME NEW g \in Gens, SweepReap(g)
       PROVE  (\E r \in Subs : Promise!End({r})) \/ UNCHANGED Promise!vars
  <2>1. UNCHANGED <<closed, caller, ends>>
    BY <1>15 DEF SweepReap
  <2>2. UNCHANGED regs \/ \E s \in doomed : regs' = regs \ {s}
    BY <1>15 DEF SweepReap, Unsubscribe
  <2> QED
    BY <1>1, <1>13, <2>1, <2>2
<1>16. ASSUME NEW g \in Gens, ReaderAdopt(g) \/ SweepAdopt(g)
       PROVE  (\E r \in Subs : Promise!End({r})) \/ UNCHANGED Promise!vars
  <2>1. UNCHANGED <<closed, caller, ends>>
    BY <1>16 DEF ReaderAdopt, SweepAdopt
  <2>2. UNCHANGED regs \/ \E s : regs' = regs \ {s}
    BY <1>16 DEF ReaderAdopt, SweepAdopt, Settle
  <2> QED
    BY <1>1, <1>13, <2>1, <2>2
<1>17. ASSUME UNCHANGED <<caller, ends>>, regs' = {} PROVE Promise!Ending(Promise!OpenSubs)
  BY <1>17, PoppedEnds, OpenIsRegistered
<1>18. ASSUME NEW g \in Gens, ReaderFailAll(g) \/ SweepFailAll(g)
       PROVE  Promise!End(Promise!OpenSubs)
  <2>1. UNCHANGED <<closed, caller, ends>> /\ regs' = {}
    BY <1>18 DEF ReaderFailAll, SweepFailAll, FailAll
  <2> QED
    BY <1>17, <2>1 DEF Promise!End
<1>19. ASSUME CloseAllSubscriptions PROVE Promise!End(Promise!OpenSubs)
  BY <1>17, <1>19 DEF CloseAllSubscriptions, Promise!End
<1>20. ASSUME Close PROVE Promise!Shutdown
  BY <1>17, <1>20 DEF Close, Promise!Shutdown
\* The terminal item reaches its consumer.
<1>21. ASSUME NEW o \in owed, Put(o)
       PROVE  (\E s \in Subs : Promise!Wake(s)) \/ UNCHANGED Promise!vars
  <2>1. UNCHANGED <<closed, caller, regs>>
    BY <1>21 DEF Put
  <2>2. CASE ~Terminal(o.item)
    BY <1>1, <1>21, <2>1, <2>2 DEF Put
  <2>3. CASE Terminal(o.item)
    <3>1. o.sub \in Subs /\ o \in Pending(o.sub)
      BY <2>3 DEF TypeOK, OwedType, Pending
    <3>2. Returned(o.sub) /\ o.sub \notin regs /\ ends[o.sub] = 0
      BY <3>1 DEF OneTerminal
    <3>3. ends'[o.sub] = 1 /\ \A r \in Subs \ {o.sub} : ends'[r] = ends[r]
      BY <1>21, <2>3, <3>1, <3>2 DEF Put, TypeOK, QueueType
    <3>4. Phase(o.sub) = "ending" /\ Phase(o.sub)' = "ended"
      BY <2>1, <3>2, <3>3, PhaseCases DEF PhaseByCase, Returned
    <3>5. \A r \in Subs \ {o.sub} : Phase(r)' = Phase(r)
      BY <2>1, <3>3, PhaseCases DEF PhaseByCase, Returned
    <3>6. Phases' = [Phases EXCEPT ![o.sub] = "ended"]
      BY <3>1, <3>4, <3>5 DEF Phases
    <3>7. Promise!Wake(o.sub)
      BY <2>1, <3>1, <3>4, <3>6 DEF Promise!Wake, Phases
    <3> QED
      BY <3>1, <3>7
  <2> QED
    BY <2>2, <2>3
<1> QED
  BY <1>2, <1>3, <1>4, <1>5, <1>6, <1>7, <1>8, <1>10, <1>11, <1>12, <1>14, <1>15,
     <1>16, <1>18, <1>19, <1>20, <1>21
  DEF Next, SubStep, ReaderStep, SweepStep, Promise!Next

\* Whatever the threads, the network and the APIC do, the socket behaves to its
\* users as Subscriptions says: a stream opens only while the socket is open,
\* ends once, and close() ends all of them in one step, under _state_lock.
THEOREM ImplementsPromise == Spec => Promise!Spec
<1>1. Init => Promise!Init
  BY PhaseCases DEF Init, Promise!Init, PhaseByCase, Returned
<1> QED
  BY <1>1, StepImplements, TypeCorrect, EndsExactlyOnce, PTL DEF Spec, Promise!Spec
===============================================================================
