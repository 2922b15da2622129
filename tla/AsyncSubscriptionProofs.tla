----------------------- MODULE AsyncSubscriptionProofs ------------------------
(***************************************************************************)
(* Proofs about AsyncSubscriptionSocket, for any number of subscriptions,  *)
(* every bound, threshold and set of cases.                                *)
(***************************************************************************)
EXTENDS AsyncSubscriptionSocket, SequenceTheorems, WellFoundedInduction, TLAPS

USE SubAssumption, BoundAssumption, LimitAssumption, CaseAssumption
USE DEF stateVars, lockVars, regVars, userVars, pairVars, taskVars, netVars, apicVars,
        seenVars

-------------------------------------------------------------------------------
(* The invariants.                                                         *)

\* Connections are numbered in the order they are opened, and a connection in
\* the hand of a subscribe() call is in no other and has no tasks yet.
Numbered ==
    /\ ws <= conns /\ up \subseteq 1..conns
    /\ \A p \in Pairs :
          /\ reader[p].conn <= conns
          /\ reader[p].pc \in {"connected", "discard"} => reader[p].conn # NoConn
          /\ reader[p].pc # "none" \/ sweep[p].pc # "none" \/ p = latest =>
                p <= conns /\ \A s \in Subs : hand[s] # p
    /\ \A s \in Subs :
          /\ hand[s] <= conns
          /\ hand[s] # NoConn <=> caller[s] \in {"connected", "redundant"}
          /\ \A r \in Subs : hand[s] = hand[r] /\ hand[s] # NoConn => s = r

Escalates == \A p \in Pairs : sweep[p].pc = "escalate" => sweep[p].sub \in Subs

\* A coroutine that closes its spare connection holds the lock.
SparesHold == /\ \A s \in Subs : caller[s] = "redundant" => holder = Sub(s)
              /\ \A p \in Pairs : reader[p].pc = "discard" => holder = Reader(p)

LockInv == TypeOK /\ Numbered /\ Escalates /\ LockIsReleased /\ SparesHold

\* A stream's queue was given its terminal item when it lost its registration.
Returned(s) == caller[s] \in {"live", "gone"}
EndedOnce ==
    \A s \in Subs : /\ s \in regs => Returned(s)
                    /\ ends[s] = IF Returned(s) /\ s \notin regs THEN 1 ELSE 0

\* No two owners of a wire id have the same one.
SubWires(s)    == IF s \in regs \/ caller[s] = "insert" THEN {wire[s]} ELSE {}
ReaderWires(p) == IF reader[p].pc = "adopt" THEN {reader[p].new} \ {NoWire} ELSE {}
SweepWires(p)  == IF sweep[p].pc = "adopt" THEN {sweep[p].new} \ {NoWire} ELSE {}

Owners  == {Sub(s) : s \in Subs} \cup {Reader(p) : p \in Pairs}
               \cup {Sweep(p) : p \in Pairs}
Owns(o) == IF o[1] = "sub" THEN SubWires(o[2])
           ELSE IF o[1] = "reader" THEN ReaderWires(o[2])
           ELSE SweepWires(o[2])

WiresOwnedOnce ==
    /\ \A o \in Owners : Owns(o) \subseteq 1..wires
    /\ \A o, q \in Owners : o # q => Owns(o) \cap Owns(q) = {}

RouteInv == WiresOwnedOnce /\ route = {<<wire[s], s>> : s \in regs}

\* Each pair of tasks has a generation of its own.
Generations ==
    \A p \in Pairs : /\ genOf[p] <= gen
                     /\ reader[p].pc # "none" \/ p = latest => genOf[p] # 0
                     /\ \A q \in Pairs : genOf[p] = genOf[q] /\ genOf[p] # 0 => p = q

\* The connection the current reader is about to replace is dead, or a stray.
Replaceable ==
    ~closed => \A p \in Pairs : genOf[p] = gen /\ genOf[p] # 0 =>
        /\ reader[p].pc = "recv" => reader[p].conn = ws \/ ws \in strays
        /\ reader[p].pc \in {"connect", "connected"} => ws \notin up \/ ws \in strays

\* A reader receives on the socket, or on what will be closed, or on a stray.
Parked ==
    \A p \in Pairs : reader[p].pc = "recv" =>
        \/ reader[p].conn = ws \/ reader[p].conn \notin up
        \/ reader[p].conn \in closing \cup strays

ConnInv == Generations /\ Replaceable /\ Parked /\ NoLeakedConnection

\* s is heard on the socket, or some reader has still to resubscribe it.
Awaits(p, s) ==
    \/ reader[p].pc = "failall"
    \/ reader[p].pc \in {"resub", "adopt"} /\ s \in reader[p].todo
    \/ reader[p].pc = "adopt" /\ reader[p].sub = s /\ reader[p].old = wire[s]
Awaited(s) == \E p \in Pairs : Awaits(p, s)
Heard == \A s \in regs \ late : (ws # NoConn /\ bound[wire[s]] = ws) \/ Awaited(s)

-------------------------------------------------------------------------------
(* The lock's queue.                                                       *)

NoRepeats(q) == \A i, j \in DOMAIN q : q[i] = q[j] => i = j
Among(q, t)  == \E i \in DOMAIN q : q[i] = t

LEMMA WithoutProperties ==
    ASSUME NEW S, NEW q \in Seq(S), NoRepeats(q), NEW t
    PROVE  /\ Without(q, t) \in Seq(S)
           /\ NoRepeats(Without(q, t))
           /\ \A u : Among(Without(q, t), u) <=> Among(q, u) /\ u # t
<1>1. CASE ~Among(q, t)
  <2>1. Without(q, t) = q
    BY <1>1 DEF Without, Among
  <2> QED
    BY <1>1, <2>1 DEF Among
<1>2. CASE Among(q, t)
  <2> DEFINE at == CHOOSE i \in DOMAIN q : q[i] = t
             r  == [i \in 1..(Len(q) - 1) |-> IF i < at THEN q[i] ELSE q[i + 1]]
  <2>1. Without(q, t) = r
    BY <1>2 DEF Without, Among
  <2>2. at \in 1..Len(q) /\ q[at] = t
    BY <1>2 DEF Among
  <2>3. Len(q) \in Nat /\ DOMAIN q = 1..Len(q) /\ \A i \in 1..Len(q) : q[i] \in S
    OBVIOUS
  <2> HIDE DEF at
  <2>4. r \in Seq(S) /\ DOMAIN r = 1..(Len(q) - 1)
    BY <2>2, <2>3
  <2>5. \A i \in DOMAIN r : \E k \in DOMAIN q :
            k = (IF i < at THEN i ELSE i + 1) /\ k # at /\ r[i] = q[k]
    BY <2>2, <2>3
  <2>6. NoRepeats(r)
    BY <2>2, <2>3, <2>4, SMTT(60) DEF NoRepeats
  <2>7. ASSUME NEW u, Among(r, u) PROVE Among(q, u) /\ u # t
    BY <2>2, <2>5, <2>7 DEF Among, NoRepeats
  <2>8. ASSUME NEW u, Among(q, u), u # t PROVE Among(r, u)
    <3>1. PICK k \in DOMAIN q : q[k] = u
      BY <2>8 DEF Among
    <3>2. k # at
      BY <2>2, <2>8, <3>1
    <3>3. CASE k < at
      <4>1. k \in DOMAIN r /\ r[k] = u
        BY <2>2, <2>3, <3>1, <3>3
      <4> QED
        BY <4>1 DEF Among
    <3>4. CASE k > at
      <4>1. k - 1 \in DOMAIN r /\ r[k - 1] = u
        BY <2>2, <2>3, <3>1, <3>4
      <4> QED
        BY <4>1 DEF Among
    <3> QED
      BY <2>2, <2>3, <3>1, <3>2, <3>3, <3>4
  <2> QED
    BY <2>1, <2>4, <2>6, <2>7, <2>8
<1> QED
  BY <1>1, <1>2

LEMMA AppendedProperties ==
    ASSUME NEW S, NEW q \in Seq(S), NoRepeats(q), NEW t \in S, ~Among(q, t)
    PROVE  /\ Append(q, t) \in Seq(S)
           /\ NoRepeats(Append(q, t))
           /\ \A u : Among(Append(q, t), u) <=> Among(q, u) \/ u = t
<1>1. /\ Append(q, t) \in Seq(S) /\ DOMAIN Append(q, t) = 1..(Len(q) + 1)
      /\ \A i \in 1..Len(q) : Append(q, t)[i] = q[i]
      /\ Append(q, t)[Len(q) + 1] = t
      /\ Len(q) \in Nat /\ DOMAIN q = 1..Len(q)
  BY AppendProperties
<1>2. NoRepeats(Append(q, t))
  BY <1>1 DEF NoRepeats, Among
<1>3. ASSUME NEW u PROVE Among(Append(q, t), u) <=> Among(q, u) \/ u = t
  BY <1>1, SMTT(60) DEF Among
<1> QED
  BY <1>1, <1>2, <1>3

-------------------------------------------------------------------------------
(* Types.                                                                  *)

ReaderType == reader \in [Pairs -> ReaderStates]
SweepType  == sweep \in [Pairs -> SweepStates]
PairType   == genOf \in [Pairs -> Nat] /\ latest \in Conns
HolderType == holder \in Tasks \cup {NoTask}

\* TypeOK without the lock's queue.
DataType == /\ StateType /\ HolderType /\ RegType /\ UserType
            /\ ReaderType /\ SweepType /\ PairType
            /\ NetType /\ ApicType /\ SeenType

\* The lock's queue.
QueueInv == /\ waiting \in Seq(Tasks) /\ NoRepeats(waiting)
            /\ \A u : Among(waiting, u) => StillWants(u)

LEMMA TypeOKParts == TypeOK <=> DataType /\ QueueInv
<1>1. LockType <=> HolderType /\ QueueInv
  BY DEF LockType, HolderType, QueueInv, NoRepeats, Among
<1> QED
  BY <1>1 DEF TypeOK, DataType, TaskType, ReaderType, SweepType, PairType

\* The states a background task starts in and returns to.
LEMMA ReaderStateTypes ==
    /\ ReaderIdle \in ReaderStates
    /\ \A pc \in {"done", "failall", "connect", "top"} : ReaderAt(pc) \in ReaderStates
    /\ \A pc \in {"recv", "connected", "discard"}, c \in Conns :
          ReaderWith(pc, c) \in ReaderStates
    /\ \A S \in SUBSET Subs : Resubscribing(S) \in ReaderStates
<1>1. ReaderIdle \in ReaderStates
  BY DEF ReaderIdle, ReaderStates, Conns, NoConn, NoWire
<1> QED
  BY <1>1, ZenonT(60) DEF ReaderAt, ReaderWith, Resubscribing, ReaderStates

LEMMA SweepStateTypes ==
    /\ SweepIdle \in SweepStates
    /\ \A pc \in {"done", "failall"} : SweepAt(pc) \in SweepStates
    /\ \A S \in SUBSET Subs : Passing(S) \in SweepStates
<1>1. SweepIdle \in SweepStates
  BY DEF SweepIdle, SweepStates, NoWire
<1> QED
  BY <1>1 DEF SweepAt, Passing, SweepStates

\* A new connection and a new wire id stay within their bounds.
LEMMA ConnectTypes ==
    ASSUME NetType, ApicType, Connect
    PROVE  conns + 1 \in Pairs /\ conns' \in Conns /\ up' \subseteq Pairs
<1>1. case.conns \in 0..MaxConn
  BY DEF ApicType
<1> QED
  BY <1>1 DEF NetType, Connect, Conns, Pairs

\* A nonempty set of connections has a newest one.
LEMMA HasMaximum ==
    ASSUME NEW n \in Nat, NEW S \in SUBSET (1..n), S # {}
    PROVE  \E c \in S : \A d \in S : d <= c
<1> DEFINE R == OpToRel(<, Nat)
           T == {m \in Nat : \E c \in S : m + c = n}
<1>1. \A a, b \in Nat : a < b => <<a, b>> \in R
  BY DEF OpToRel
<1>2. IsWellFoundedOn(R, Nat)
  BY NatLessThanWellFounded
<1> HIDE DEF R
<1>3. \A c \in S : \E m \in T : m + c = n
  <2> SUFFICES ASSUME NEW c \in S PROVE \E m \in T : m + c = n
    OBVIOUS
  <2>1. n - c \in Nat /\ (n - c) + c = n
    OBVIOUS
  <2> QED
    BY <2>1
<1>4. PICK x \in T : \A y \in T : <<y, x>> \notin R
  <2>1. T # {} /\ T \subseteq Nat
    BY <1>3
  <2> HIDE DEF T
  <2> QED
    BY <1>2, <2>1, WFMin
<1>5. PICK c \in S : x + c = n
  OBVIOUS
<1>6. ASSUME NEW d \in S PROVE d <= c
  <2>1. PICK y \in T : y + d = n
    BY <1>3
  <2>2. ~(y < x)
    BY <1>1, <1>4
  <2> QED
    BY <1>5, <2>1, <2>2
<1> QED
  BY <1>6

LEMMA GrantTypes == NetType /\ ApicType /\ Grant => ApicType' /\ wires + 1 \in Nat
<1> SUFFICES ASSUME NetType, ApicType, Grant PROVE ApicType' /\ wires + 1 \in Nat
  OBVIOUS
<1>1. Newest \in Conns
  <2>1. up # {} => \E c \in up : \A d \in up : d <= c
    BY HasMaximum DEF NetType, Pairs
  <2>2. Newest \in up \cup {NoConn}
    BY <2>1, Zenon DEF Newest
  <2> QED
    BY <2>2 DEF NetType, Pairs, Conns, NoConn
<1>2. case.wires \in 0..MaxWire
  BY DEF ApicType
<1> QED
  BY <1>1, <1>2 DEF ApicType, Grant

LEMMA ResubscribeTypes ==
    ASSUME NetType, ApicType, NEW answer, Resubscribe(answer) PROVE ApicType'
  BY GrantTypes DEF Resubscribe, ApicType

LEMMA InitDataType == Init => DataType
<1> SUFFICES ASSUME Init PROVE DataType
  OBVIOUS
<1>1. StateType
  <2>1. closed \in BOOLEAN /\ dead \in BOOLEAN
    BY Zenon DEF Init
  <2> QED
    BY <2>1 DEF Init, StateType, Conns, NoConn
<1>2. HolderType /\ RegType /\ UserType
  BY DEF Init, HolderType, RegType, UserType, CallerStates, NoWire, NoConn, Conns
<1>3. ReaderType /\ SweepType /\ PairType
  BY ReaderStateTypes, SweepStateTypes
  DEF Init, ReaderType, SweepType, PairType, Conns, NoConn
<1>4. NetType /\ ApicType /\ SeenType
  BY DEF Init, NetType, ApicType, SeenType, Conns, NoConn
<1> QED
  BY <1>1, <1>2, <1>3, <1>4 DEF DataType

\* Queueing and leaving the queue keep the holder a task.
LEMMA HolderTypes ==
    ASSUME HolderType, NEW t \in Tasks,
           Section(t) \/ Acquire(t) \/ Release(t) \/ UNCHANGED holder
    PROVE  HolderType'
  BY DEF HolderType, Section, Acquire, Release, Tasks, Pairs, Sub, Reader, Sweep,
         Client, Closer, NoTask

LEMMA TaskTypes ==
    /\ Client \in Tasks /\ Closer \in Tasks
    /\ \A s \in Subs : Sub(s) \in Tasks
    /\ \A p \in Pairs : Reader(p) \in Tasks /\ Sweep(p) \in Tasks
  BY DEF Tasks

\* The terminal items of one stream, and of all of them.
LEMMA ForgetTypes ==
    ASSUME RegType, NEW s \in Subs, Forget(s)
    PROVE  RegType' /\ (ends \in [Subs -> Nat] => ends' \in [Subs -> Nat])
  BY DEF RegType, Forget

LEMMA EndAllTypes ==
    ASSUME RegType, EndAll
    PROVE  RegType' /\ (ends \in [Subs -> Nat] => ends' \in [Subs -> Nat])
  BY DEF RegType, EndAll

LEMMA SettleTypes ==
    ASSUME RegType, SeenType, NEW s, NEW old, NEW new \in Nat,
           NEW reset \in BOOLEAN, Settle(s, old, new, reset), UNCHANGED strays
    PROVE  RegType' /\ SeenType'
<1>1. CASE UNCHANGED <<regVars, ends, late>>
  BY <1>1 DEF RegType, SeenType
<1>2. CASE s \in regs /\ Forget(s) /\ UNCHANGED late
  BY <1>2, ForgetTypes DEF SeenType, RegType
<1>3. CASE /\ s \in regs
           /\ route' = {r \in route : r[1] # old} \cup {<<new, s>>}
           /\ wire' = [wire EXCEPT ![s] = new]
           /\ failures' = IF reset THEN [failures EXCEPT ![s] = 0] ELSE failures
           /\ late' = LateWith(s, new)
           /\ UNCHANGED <<regs, ends>>
  <2>1. s \in Subs /\ late' \subseteq Subs
    BY <1>3 DEF RegType, SeenType, LateWith
  <2>2. failures' \in [Subs -> 0..EscalationThreshold]
    BY <1>3 DEF RegType
  <2> QED
    BY <1>3, <2>1, <2>2 DEF RegType, SeenType
<1> QED
  BY <1>1, <1>2, <1>3 DEF Settle

LEMMA FailAllTypes ==
    ASSUME StateType, RegType, NetType, SeenType, FailAll,
           UNCHANGED <<up, conns, late, strays>>
    PROVE  StateType' /\ RegType' /\ NetType' /\ SeenType'
<1>1. RegType' /\ SeenType'
  BY EndAllTypes DEF FailAll, SeenType
<1>2. NetType'
  BY DEF FailAll, StateType, NetType, Conns, Pairs, NoConn
<1>3. StateType'
  <2>1. closed' \in BOOLEAN /\ dead' \in BOOLEAN
    BY Zenon DEF FailAll, StateType
  <2> QED
    BY <2>1 DEF FailAll, StateType, Conns, NoConn
<1> QED
  BY <1>1, <1>2, <1>3

\* Every step keeps every variable other than the queue within its type.
LEMMA NextDataType == DataType /\ Numbered /\ Escalates /\ [Next]_vars => DataType'
<1> SUFFICES ASSUME DataType, Numbered, Escalates, [Next]_vars PROVE DataType'
  OBVIOUS
<1> USE TaskTypes DEF DataType
\* The steps of subscribe() that only move the caller.
<1>1. ASSUME NEW s \in Subs, CheckOpen(s) \/ ConnectFailed(s) \/ Abandon(s)
      PROVE  DataType'
  <2>1. UserType'
    BY <1>1 DEF CheckOpen, ConnectFailed, Abandon, UserType, CallerStates
  <2>2. HolderType'
    BY <1>1, HolderTypes DEF CheckOpen, ConnectFailed, Abandon
  <2> QED
    BY <1>1, <2>1, <2>2, ZenonT(60)
    DEF CheckOpen, ConnectFailed, Abandon, StateType, RegType, ReaderType,
        SweepType, PairType, NetType, ApicType, SeenType
<1>2. ASSUME NEW s \in Subs, NEW c \in Pairs, SettleConnection(s, c)
      PROVE  /\ StateType' /\ HolderType' /\ UserType'
             /\ ReaderType' /\ SweepType' /\ PairType'
  <2>1. HolderType'
    BY <1>2, HolderTypes DEF SettleConnection
  <2>2. UserType' /\ c \in Conns
    BY <1>2 DEF SettleConnection, UserType, CallerStates, Conns, Pairs, NoConn
  <2>3. CASE UNCHANGED <<stateVars, taskVars>>
    BY <2>1, <2>2, <2>3 DEF StateType, ReaderType, SweepType, PairType
  <2>4. CASE /\ ws' = c /\ dead' = FALSE /\ gen' = gen + 1
             /\ genOf' = [genOf EXCEPT ![c] = gen + 1]
             /\ latest' = c
             /\ reader' = [reader EXCEPT ![c].pc = "top"]
             /\ sweep' = [sweep EXCEPT ![c].pc = "sleep"]
             /\ UNCHANGED closed
    <3>1. StateType' /\ PairType'
      <4>1. closed' \in BOOLEAN /\ dead' \in BOOLEAN
        BY <2>4, Zenon DEF StateType
      <4> QED
        BY <2>2, <2>4, <4>1 DEF StateType, PairType
    <3>2. ReaderType' /\ SweepType'
      <4>1. [reader[c] EXCEPT !.pc = "top"] \in ReaderStates
        BY DEF ReaderType, ReaderStates
      <4>2. [sweep[c] EXCEPT !.pc = "sleep"] \in SweepStates
        BY DEF SweepType, SweepStates
      <4> QED
        BY <2>4, <4>1, <4>2 DEF ReaderType, SweepType
    <3> QED
      BY <2>1, <2>2, <3>1, <3>2
  <2> QED
    BY <1>2, <2>3, <2>4 DEF SettleConnection
<1>3. ASSUME NEW s \in Subs, Connected(s) PROVE DataType'
  <2>1. NetType' /\ conns + 1 \in Pairs
    BY <1>3, ConnectTypes DEF Connected, NetType
  <2>2. RegType' /\ ApicType' /\ SeenType'
    BY <1>3 DEF Connected, RegType, ApicType, SeenType
  <2>3. CASE SettleConnection(s, conns + 1)
    BY <1>2, <2>1, <2>2, <2>3
  <2>4. CASE /\ caller' = [caller EXCEPT ![s] = "connected"]
             /\ hand' = [hand EXCEPT ![s] = conns + 1]
             /\ UNCHANGED <<stateVars, holder, taskVars>>
    BY <2>1, <2>2, <2>4
    DEF StateType, HolderType, UserType, CallerStates, ReaderType, SweepType,
        PairType, Conns, Pairs
  <2> QED
    BY <1>3, <2>3, <2>4 DEF Connected
<1>4. ASSUME NEW s \in Subs, ConnectedResumes(s) PROVE DataType'
  <2>1. hand[s] \in Pairs
    BY <1>4 DEF ConnectedResumes, Numbered, UserType, Conns, Pairs, NoConn
  <2> QED
    BY <1>2, <1>4, <2>1
    DEF ConnectedResumes, RegType, NetType, ApicType, SeenType
<1>5. ASSUME NEW s \in Subs, RedundantClosed(s) PROVE DataType'
  <2>1. UserType' /\ NetType'
    BY <1>5 DEF RedundantClosed, UserType, CallerStates, NetType, Conns, NoConn
  <2>2. HolderType'
    BY <1>5, HolderTypes DEF RedundantClosed
  <2> QED
    BY <1>5, <2>1, <2>2
    DEF RedundantClosed, StateType, RegType, ReaderType, SweepType, PairType,
        ApicType, SeenType
<1>6. ASSUME NEW s \in Subs, RestSubscribe(s) PROVE DataType'
  <2>1. RegType' /\ ApicType'
    BY <1>6, GrantTypes, ZenonT(60) DEF RestSubscribe, RegType, ApicType
  <2>2. UserType'
    BY <1>6 DEF RestSubscribe, UserType, CallerStates
  <2> QED
    BY <1>6, <2>1, <2>2
    DEF RestSubscribe, StateType, HolderType, ReaderType, SweepType, PairType,
        NetType, SeenType
<1>7. ASSUME NEW s \in Subs, Insert(s) PROVE DataType'
  <2>1. UserType' /\ RegType'
    BY <1>7 DEF Insert, UserType, CallerStates, RegType
  <2>2. SeenType'
    BY <1>7 DEF Insert, SeenType, LateWith
  <2>3. HolderType'
    BY <1>7, HolderTypes DEF Insert
  <2> QED
    BY <1>7, <2>1, <2>2, <2>3
    DEF Insert, StateType, ReaderType, SweepType, PairType, NetType, ApicType
<1>8. ASSUME NEW s \in Subs, Cancel(s) PROVE DataType'
  <2>1. {hand[s]} \ {NoConn} \subseteq Pairs
    BY DEF UserType, Conns, Pairs, NoConn
  <2>2. SeenType'
    BY <1>8, <2>1 DEF Cancel, SeenType
  <2>3. UserType'
    BY <1>8 DEF Cancel, UserType, CallerStates, Conns, NoConn
  <2> QED
    BY <1>8, <2>2, <2>3
    DEF Cancel, StateType, HolderType, RegType, ReaderType, SweepType, PairType,
        NetType, ApicType
\* The ends of one stream, or of all.
<1>9. ASSUME NEW s \in Subs, CloseOne(s) \/ DropRegistration(s) PROVE DataType'
  <2>1. RegType' /\ SeenType'
    BY <1>9, ForgetTypes DEF CloseOne, DropRegistration, SeenType
  <2>2. HolderType'
    BY <1>9, HolderTypes DEF CloseOne, DropRegistration
  <2> QED
    BY <1>9, <2>1, <2>2
    DEF CloseOne, DropRegistration, StateType, UserType, ReaderType, SweepType,
        PairType, NetType, ApicType
<1>10. ASSUME NEW s \in Subs, ManualRefresh(s) PROVE DataType'
  <2>1. RegType'
    BY <1>10 DEF ManualRefresh, RegType
  <2> QED
    BY <1>10, <2>1
    DEF ManualRefresh, StateType, HolderType, UserType, ReaderType, SweepType,
        PairType, NetType, ApicType, SeenType
<1>11. CASE CloseAllSubscriptions
  <2>1. RegType' /\ SeenType'
    BY <1>11, EndAllTypes DEF CloseAllSubscriptions, SeenType
  <2>2. HolderType'
    BY <1>11, HolderTypes DEF CloseAllSubscriptions
  <2> QED
    BY <1>11, <2>1, <2>2
    DEF CloseAllSubscriptions, StateType, UserType, ReaderType, SweepType,
        PairType, NetType, ApicType
<1>12. CASE AClose
  <2>1. RegType' /\ ends' \in [Subs -> Nat]
    BY <1>12, EndAllTypes DEF AClose, SeenType
  <2>2. SeenType'
    <3>1. \A p \in Pairs : reader[p].pc = "connected" => reader[p].conn \in Pairs
      BY SMTT(60) DEF Numbered, ReaderType, ReaderStates, Conns, Pairs, NoConn
    <3> QED
      BY <1>12, <2>1, <3>1 DEF AClose, SeenType
  <2>3. StateType'
    <3>1. closed' \in BOOLEAN /\ dead' \in BOOLEAN
      BY <1>12, Zenon DEF AClose, StateType
    <3> QED
      BY <1>12, <3>1 DEF AClose, StateType, Conns, NoConn
  <2>4. ReaderType' /\ SweepType'
    BY <1>12, ReaderStateTypes, SweepStateTypes DEF AClose, ReaderType, SweepType
  <2>5. NetType'
    BY <1>12 DEF AClose, NetType, StateType, Conns, Pairs, NoConn
  <2> QED
    BY <1>12, <2>1, <2>2, <2>3, <2>4, <2>5
    DEF AClose, HolderType, UserType, PairType, ApicType
\* The reader task.
<1>13. ASSUME NEW p \in Pairs,
              ReaderTop(p) \/ ReaderRecv(p) \/ ReaderLost(p) \/ ReaderConnectFailed(p)
              \/ ReaderGiveUp(p) \/ ReaderCrash(p)
       PROVE  DataType'
  <2>1. ReaderType'
    <3>1. CASE ReaderTop(p)
      BY <3>1, ReaderStateTypes DEF ReaderTop, ReaderType, StateType
    <3>2. CASE ReaderRecv(p) \/ ReaderLost(p) \/ ReaderGiveUp(p) \/ ReaderCrash(p)
      BY <3>2, ReaderStateTypes
      DEF ReaderRecv, ReaderLost, ReaderGiveUp, ReaderCrash, ReaderType
    <3>3. CASE ReaderConnectFailed(p)
      <4> DEFINE next == IF reader[p].tries + 1 = ReconnectAttempts
                         THEN "giveup" ELSE "connect"
                 tried == [reader[p] EXCEPT !.tries = @ + 1]
      <4>1. tried \in ReaderStates
        BY DEF ReaderType, ReaderStates
      <4>2. [tried EXCEPT !.pc = next] \in ReaderStates
        BY <4>1 DEF ReaderStates
      <4>3. reader' = [reader EXCEPT ![p] = [tried EXCEPT !.pc = next]]
        BY <3>3 DEF ReaderConnectFailed, ReaderType
      <4> QED
        BY <4>2, <4>3 DEF ReaderType
    <3> QED
      BY <1>13, <3>1, <3>2, <3>3
  <2>2. HolderType'
    BY <1>13, HolderTypes
    DEF ReaderTop, ReaderRecv, ReaderLost, ReaderConnectFailed, ReaderGiveUp,
        ReaderCrash
  <2> QED
    BY <1>13, <2>1, <2>2
    DEF ReaderTop, ReaderRecv, ReaderLost, ReaderConnectFailed, ReaderGiveUp,
        ReaderCrash, StateType, RegType, UserType, SweepType, PairType, NetType,
        ApicType, SeenType
<1>14. ASSUME NEW p \in Pairs, ReaderFailAll(p) PROVE DataType'
  <2>1. StateType' /\ RegType' /\ NetType' /\ SeenType'
    BY <1>14, FailAllTypes DEF ReaderFailAll
  <2>2. ReaderType' /\ HolderType'
    BY <1>14, ReaderStateTypes, HolderTypes DEF ReaderFailAll, ReaderType
  <2> QED
    BY <1>14, <2>1, <2>2
    DEF ReaderFailAll, UserType, SweepType, PairType, ApicType
<1>15. ASSUME NEW p \in Pairs, NEW c \in Pairs, AdoptReconnect(p, c)
       PROVE  StateType' /\ HolderType' /\ ReaderType' /\ strays' \subseteq Pairs
  <2>1. HolderType'
    BY <1>15, HolderTypes DEF AdoptReconnect
  <2>2. StateType' /\ strays' \subseteq Pairs
    <3>1. closed' \in BOOLEAN /\ dead' \in BOOLEAN /\ gen' \in Nat
      BY <1>15, Zenon DEF AdoptReconnect, StateType
    <3>2. ws' \in Conns
      BY <1>15 DEF AdoptReconnect, StateType, Conns, Pairs
    <3>3. {ws, c} \ {NoConn} \subseteq Pairs
      BY DEF StateType, Conns, Pairs, NoConn
    <3>4. strays' \subseteq Pairs
      BY <1>15, <3>3 DEF AdoptReconnect, SeenType
    <3> QED
      BY <3>1, <3>2, <3>4 DEF StateType
  <2>3. ReaderType'
    BY <1>15, ReaderStateTypes DEF AdoptReconnect, ReaderType, RegType, Conns, Pairs
  <2> QED
    BY <2>1, <2>2, <2>3
<1>16. ASSUME NEW p \in Pairs, ReaderConnected(p) PROVE DataType'
  <2>1. NetType' /\ conns + 1 \in Pairs
    BY <1>16, ConnectTypes DEF ReaderConnected, NetType
  <2>2. StateType' /\ HolderType' /\ ReaderType' /\ strays' \subseteq Pairs
    <3>1. CASE AdoptReconnect(p, conns + 1)
      BY <1>15, <2>1, <3>1
    <3>2. CASE /\ reader' = [reader EXCEPT ![p] = ReaderWith("connected", conns + 1)]
               /\ UNCHANGED <<stateVars, holder, strays>>
      BY <2>1, <3>2, ReaderStateTypes
      DEF StateType, HolderType, ReaderType, SeenType, Conns, Pairs
    <3> QED
      BY <1>16, <3>1, <3>2 DEF ReaderConnected
  <2> QED
    BY <1>16, <2>1, <2>2
    DEF ReaderConnected, RegType, UserType, SweepType, PairType, ApicType, SeenType
<1>17. ASSUME NEW p \in Pairs, ReaderConnectedResumes(p) PROVE DataType'
  <2>1. reader[p].conn \in Pairs
    <3>1. reader[p].conn # NoConn
      BY <1>17 DEF ReaderConnectedResumes, Numbered
    <3> QED
      BY <3>1, SMTT(60) DEF ReaderType, ReaderStates, Conns, Pairs, NoConn
  <2>2. StateType' /\ HolderType' /\ ReaderType' /\ strays' \subseteq Pairs
    BY <1>15, <1>17, <2>1 DEF ReaderConnectedResumes
  <2> QED
    BY <1>17, <2>2
    DEF ReaderConnectedResumes, RegType, UserType, SweepType, PairType, NetType,
        ApicType, SeenType
<1>18. ASSUME NEW p \in Pairs, ReaderDiscarded(p) PROVE DataType'
  <2>1. ReaderType' /\ HolderType' /\ NetType'
    BY <1>18, ReaderStateTypes, HolderTypes DEF ReaderDiscarded, ReaderType, NetType
  <2> QED
    BY <1>18, <2>1, SMTT(60)
    DEF ReaderDiscarded, StateType, RegType, UserType, SweepType, PairType, ApicType,
        SeenType
<1>19. ASSUME NEW p \in Pairs, ReaderResub(p) PROVE DataType'
  <2>1. PICK s \in reader[p].todo, answer \in 0..MaxWire :
           /\ Resubscribe(answer)
           /\ reader' = [reader EXCEPT ![p].pc = "adopt", ![p].todo = @ \ {s},
                            ![p].sub = s, ![p].old = wire[s], ![p].new = answer]
    BY <1>19 DEF ReaderResub
  <2>2. s \in Subs /\ wire[s] \in Nat
    BY DEF ReaderType, ReaderStates, RegType
  <2>3. ReaderType' /\ ApicType'
    BY <2>1, <2>2, ResubscribeTypes DEF ReaderType, ReaderStates
  <2> QED
    BY <1>19, <2>3, SMTT(60)
    DEF ReaderResub, StateType, HolderType, RegType, UserType, SweepType, PairType,
        NetType, SeenType
<1>20. ASSUME NEW p \in Pairs, ReaderAdopt(p) PROVE DataType'
  <2>1. reader[p].new \in Nat /\ reader[p].todo \in SUBSET Subs
    BY DEF ReaderType, ReaderStates
  <2>2. RegType' /\ SeenType'
    BY <1>20, <2>1, SettleTypes DEF ReaderAdopt
  <2>3. ReaderType' /\ HolderType'
    BY <1>20, <2>1, ReaderStateTypes, HolderTypes DEF ReaderAdopt, ReaderType
  <2> QED
    BY <1>20, <2>2, <2>3
    DEF ReaderAdopt, StateType, UserType, SweepType, PairType, NetType, ApicType
\* The refresh sweep.
<1>21. ASSUME NEW p \in Pairs, NEW S \in SUBSET Subs, SweepTick(p, S)
       PROVE  DataType'
  <2>1. SweepType' /\ HolderType'
    BY <1>21, SweepStateTypes, HolderTypes DEF SweepTick, SweepType
  <2> QED
    BY <1>21, <2>1
    DEF SweepTick, StateType, RegType, UserType, ReaderType, PairType, NetType,
        ApicType, SeenType
<1>22. ASSUME NEW p \in Pairs, NEW s \in Subs, NEW ok \in BOOLEAN,
              SweepRefresh(p, s, ok)
       PROVE  DataType'
  <2>1. RegType'
    BY <1>22 DEF SweepRefresh, RegType
  <2>2. SweepType'
    <3> DEFINE due == sweep[p].due \ {s}
               moved == [SweepIdle EXCEPT !.pc = "escalate", !.sub = s, !.due = due]
    <3>1. due \in SUBSET Subs
      BY DEF SweepType, SweepStates
    <3>2. moved \in SweepStates
      BY <3>1 DEF SweepIdle, SweepStates, NoWire
    <3>3. Passing(due) \in SweepStates
      BY <3>1, SweepStateTypes
    <3>4. \E r \in {moved, Passing(due)} : sweep' = [sweep EXCEPT ![p] = r]
      BY <1>22 DEF SweepRefresh
    <3> QED
      BY <3>2, <3>3, <3>4 DEF SweepType
  <2>3. HolderType'
    BY <1>22, HolderTypes DEF SweepRefresh
  <2> QED
    BY <1>22, <2>1, <2>2, <2>3
    DEF SweepRefresh, StateType, UserType, ReaderType, PairType, NetType, ApicType,
        SeenType
<1>23. ASSUME NEW p \in Pairs, SweepEscalate(p) PROVE DataType'
  <2>1. PICK answer \in 0..MaxWire :
           /\ Resubscribe(answer)
           /\ sweep' = [sweep EXCEPT ![p].pc = "adopt", ![p].new = answer,
                                     ![p].old = wire[sweep[p].sub]]
    BY <1>23 DEF SweepEscalate
  <2>2. wire[sweep[p].sub] \in Nat
    BY <1>23 DEF SweepEscalate, Escalates, RegType
  <2>3. SweepType'
    <3> DEFINE asked == [sweep[p] EXCEPT !.pc = "adopt"]
               answered == [asked EXCEPT !.new = answer]
               settled == [answered EXCEPT !.old = wire[sweep[p].sub]]
    <3>1. asked \in SweepStates
      BY DEF SweepType, SweepStates
    <3>2. answered \in SweepStates
      <4>1. answer \in Nat
        OBVIOUS
      <4> HIDE DEF asked
      <4> QED
        BY <3>1, <4>1 DEF SweepStates
    <3>3. settled \in SweepStates
      BY <2>2, <3>2 DEF SweepStates
    <3>4. sweep' = [sweep EXCEPT ![p] = settled]
      BY <2>1 DEF SweepType
    <3> QED
      BY <3>3, <3>4 DEF SweepType
  <2>4. ApicType'
    BY <2>1, ResubscribeTypes
  <2> QED
    BY <1>23, <2>3, <2>4
    DEF SweepEscalate, StateType, HolderType, RegType, UserType, ReaderType, PairType,
        NetType, SeenType
<1>24. ASSUME NEW p \in Pairs, SweepAdopt(p) PROVE DataType'
  <2>1. sweep[p].new \in Nat /\ sweep[p].due \in SUBSET Subs
    BY DEF SweepType, SweepStates
  <2>2. RegType' /\ SeenType'
    BY <1>24, <2>1, SettleTypes DEF SweepAdopt
  <2>3. SweepType' /\ HolderType'
    BY <1>24, <2>1, SweepStateTypes, HolderTypes DEF SweepAdopt, SweepType
  <2> QED
    BY <1>24, <2>2, <2>3
    DEF SweepAdopt, StateType, UserType, ReaderType, PairType, NetType, ApicType
<1>25. ASSUME NEW p \in Pairs, SweepCrash(p) PROVE DataType'
  <2>1. SweepType'
    BY <1>25, SweepStateTypes DEF SweepCrash, SweepType
  <2> QED
    BY <1>25, <2>1
    DEF SweepCrash, StateType, HolderType, RegType, UserType, ReaderType, PairType,
        NetType, ApicType, SeenType
<1>26. ASSUME NEW p \in Pairs, SweepFailAll(p) PROVE DataType'
  <2>1. StateType' /\ RegType' /\ NetType' /\ SeenType'
    BY <1>26, FailAllTypes DEF SweepFailAll
  <2>2. SweepType' /\ HolderType'
    BY <1>26, SweepStateTypes, HolderTypes DEF SweepFailAll, SweepType
  <2> QED
    BY <1>26, <2>1, <2>2
    DEF SweepFailAll, UserType, ReaderType, PairType, ApicType
\* The queue and the network.
<1>27. ASSUME NEW c \in 1..MaxConn, CloseConn(c) \/ Disconnect(c)
       PROVE  DataType'
  <2>1. NetType'
    BY <1>27 DEF CloseConn, Disconnect, NetType
  <2> QED
    BY <1>27, <2>1
    DEF CloseConn, Disconnect, StateType, HolderType, RegType, UserType, ReaderType,
        SweepType, PairType, ApicType, SeenType
<1>28. ASSUME NEW t \in Tasks, Wait(t) PROVE DataType'
  BY <1>28
  DEF Wait, StateType, HolderType, RegType, UserType, ReaderType, SweepType, PairType,
      NetType, ApicType, SeenType
<1>29. CASE UNCHANGED vars
  BY <1>29
  DEF vars, StateType, HolderType, RegType, UserType, ReaderType, SweepType, PairType,
      NetType, ApicType, SeenType
<1> QED
  BY <1>1, <1>3, <1>4, <1>5, <1>6, <1>7, <1>8, <1>9, <1>10, <1>11, <1>12, <1>13,
     <1>14, <1>16, <1>17, <1>18, <1>19, <1>20, <1>21, <1>22, <1>23, <1>24, <1>25,
     <1>26, <1>27, <1>28, <1>29
  DEF Next, SubStep, UserStep, ReaderStep, SweepStep

-------------------------------------------------------------------------------
(* Who has which connection.                                               *)

Carries(s) == caller[s] \in {"connected", "redundant"}
Carried(p) == /\ reader[p].conn <= conns
              /\ reader[p].pc \in {"connected", "discard"} => reader[p].conn # NoConn

\* A step in which no subscribe() call gets a connection and no pair starts.
LEMMA NumberedKept ==
    ASSUME Numbered, conns \in Nat, conns' \in Nat, conns <= conns',
           ws' <= conns', up' \subseteq 1..conns', UNCHANGED latest,
           \A s \in Subs : hand[s] \in Nat,
           \A s \in Subs : \/ hand'[s] = hand[s] /\ (Carries(s)' <=> Carries(s))
                           \/ hand'[s] = NoConn /\ ~Carries(s)',
           \A p \in Pairs : /\ Carried(p)'
                            /\ p = latest
                               \/ (reader[p].pc = "none" => reader'[p].pc = "none")
                            /\ p = latest
                               \/ (sweep[p].pc = "none" => sweep'[p].pc = "none")
    PROVE  Numbered'
<1>1. ASSUME NEW s \in Subs
      PROVE  /\ hand'[s] <= conns'
             /\ hand'[s] # NoConn <=> caller'[s] \in {"connected", "redundant"}
             /\ \A r \in Subs : hand'[s] = hand'[r] /\ hand'[s] # NoConn => s = r
  BY DEF Numbered, Carries, NoConn
<1>2. ASSUME NEW p \in Pairs,
             reader'[p].pc # "none" \/ sweep'[p].pc # "none" \/ p = latest
      PROVE  p <= conns' /\ \A s \in Subs : hand'[s] # p
  BY <1>2 DEF Numbered, Pairs, NoConn
<1> QED
  BY <1>1, <1>2 DEF Numbered, Carried

LEMMA NextNumbered == DataType /\ Numbered /\ [Next]_vars => Numbered'
<1> SUFFICES ASSUME DataType, Numbered, [Next]_vars PROVE Numbered'
  OBVIOUS
<1>1. conns \in Nat /\ ws \in Nat /\ \A s \in Subs : hand[s] \in Nat
  BY DEF DataType, NetType, StateType, UserType, Conns
<1>2. \A p \in Pairs : Carried(p)
  BY DEF Numbered, Carried
<1>3. up \subseteq 1..conns /\ ws <= conns
  BY DEF Numbered
\* The steps of subscribe() and of the user, with no new connection.
<1>4. ASSUME UNCHANGED <<ws, conns, reader, sweep, latest>>, up' \subseteq up,
             \A s \in Subs : \/ hand'[s] = hand[s] /\ (Carries(s)' <=> Carries(s))
                             \/ hand'[s] = NoConn /\ ~Carries(s)'
      PROVE  Numbered'
  <2>1. \A p \in Pairs : Carried(p)'
    BY <1>2, <1>4 DEF Carried
  <2> QED
    BY <1>1, <1>3, <1>4, <2>1, NumberedKept
<1>5. ASSUME NEW s \in Subs,
             CheckOpen(s) \/ ConnectFailed(s) \/ RedundantClosed(s) \/ RestSubscribe(s)
             \/ Insert(s) \/ Cancel(s) \/ CloseOne(s) \/ Abandon(s)
             \/ DropRegistration(s) \/ ManualRefresh(s)
      PROVE  Numbered'
  <2>1. UNCHANGED <<ws, conns, reader, sweep, latest>> /\ up' \subseteq up
    BY <1>5 DEF CheckOpen, ConnectFailed, RedundantClosed, RestSubscribe, Insert,
                Cancel, CloseOne, Abandon, DropRegistration, ManualRefresh
  <2>2. \A r \in Subs : \/ hand'[r] = hand[r] /\ (Carries(r)' <=> Carries(r))
                        \/ hand'[r] = NoConn /\ ~Carries(r)'
    <3>1. CASE CheckOpen(s) \/ RestSubscribe(s) \/ Insert(s)
      BY <3>1 DEF CheckOpen, RestSubscribe, Insert, Carries, DataType, UserType
    <3>2. CASE ConnectFailed(s) \/ Abandon(s)
      BY <3>2 DEF ConnectFailed, Abandon, Carries, DataType, UserType
    <3>3. CASE RedundantClosed(s) \/ Cancel(s)
      BY <3>3 DEF RedundantClosed, Cancel, Carries, DataType, UserType
    <3>4. CASE CloseOne(s) \/ DropRegistration(s) \/ ManualRefresh(s)
      BY <3>4 DEF CloseOne, DropRegistration, ManualRefresh, Carries
    <3> QED
      BY <1>5, <3>1, <3>2, <3>3, <3>4
  <2> QED
    BY <1>4, <2>1, <2>2
<1>6. CASE CloseAllSubscriptions
  BY <1>4, <1>6 DEF CloseAllSubscriptions, Carries
<1>7. ASSUME NEW c \in 1..MaxConn, CloseConn(c) \/ Disconnect(c)
      PROVE  Numbered'
  BY <1>4, <1>7 DEF CloseConn, Disconnect, Carries
<1>8. ASSUME NEW t \in Tasks, Wait(t) PROVE Numbered'
  BY <1>4, <1>8 DEF Wait, Carries
<1>9. CASE UNCHANGED vars
  BY <1>4, <1>9 DEF vars, Carries
\* The steps of the background tasks.
<1>10. ASSUME UNCHANGED <<userVars, latest>>, conns' \in Nat, conns <= conns', ws' <= conns',
              up' \subseteq 1..conns',
              \A p \in Pairs : /\ Carried(p)'
                               /\ reader[p].pc = "none" => reader'[p].pc = "none"
                               /\ sweep[p].pc = "none" => sweep'[p].pc = "none"
       PROVE  Numbered'
  BY <1>1, <1>10, NumberedKept DEF Carries
<1>11. ASSUME UNCHANGED <<userVars, latest, conns, reader>>, ws' \in {ws, NoConn},
              up' = up, NEW p \in Pairs, sweep[p].pc # "none", NEW r,
              sweep' = [sweep EXCEPT ![p] = r]
       PROVE  Numbered'
  <2>1. \A q \in Pairs : /\ Carried(q)'
                         /\ sweep[q].pc = "none" => sweep'[q].pc = "none"
    BY <1>2, <1>11 DEF Carried, DataType, SweepType
  <2> QED
    BY <1>1, <1>3, <1>10, <1>11, <2>1 DEF NoConn
<1>12. ASSUME UNCHANGED <<userVars, latest, sweep>>, conns' \in Nat, conns <= conns',
              ws' <= conns', up' \subseteq 1..conns',
              NEW p \in Pairs, reader[p].pc # "none", NEW r,
              reader' = [reader EXCEPT ![p] = r], r.conn <= conns',
              r.pc \in {"connected", "discard"} => r.conn # NoConn
       PROVE  Numbered'
  <2>1. \A q \in Pairs : reader[q].conn \in Nat
    BY DEF DataType, ReaderType, ReaderStates, Conns
  <2>2. \A q \in Pairs : /\ Carried(q)'
                         /\ reader[q].pc = "none" => reader'[q].pc = "none"
    BY <1>1, <1>2, <1>12, <2>1 DEF Carried, DataType, ReaderType
  <2> QED
    BY <1>10, <1>12, <2>2
<1>13. ASSUME UNCHANGED <<userVars, latest, sweep, conns>>, ws' \in {ws, NoConn},
              up' \subseteq up, NEW p \in Pairs, reader[p].pc # "none", NEW r,
              reader' = [reader EXCEPT ![p] = r], r.conn \in {NoConn, ws},
              r.pc \notin {"connected", "discard"}
       PROVE  Numbered'
  <2>1. /\ conns' \in Nat /\ conns <= conns' /\ ws' <= conns'
        /\ up' \subseteq 1..conns' /\ r.conn <= conns'
    BY <1>1, <1>3, <1>13 DEF NoConn
  <2> QED
    BY <1>12, <1>13, <2>1
<1>14. ASSUME NEW p \in Pairs,
              ReaderTop(p) \/ ReaderRecv(p) \/ ReaderLost(p) \/ ReaderGiveUp(p)
              \/ ReaderFailAll(p) \/ ReaderDiscarded(p) \/ ReaderCrash(p)
       PROVE  Numbered'
  <2>1. /\ UNCHANGED <<userVars, latest, sweep, conns>> /\ ws' \in {ws, NoConn}
        /\ up' \subseteq up /\ reader[p].pc # "none"
    BY <1>14 DEF ReaderTop, ReaderRecv, ReaderLost, ReaderGiveUp, ReaderFailAll,
                 ReaderDiscarded, ReaderCrash, FailAll
  <2>2. \E r : /\ reader' = [reader EXCEPT ![p] = r] /\ r.conn \in {NoConn, ws}
               /\ r.pc \notin {"connected", "discard"}
    <3>1. CASE ReaderTop(p)
      <4> DEFINE r == IF Superseded(p) THEN ReaderAt("done")
                      ELSE IF ws = NoConn THEN ReaderAt("failall")
                      ELSE ReaderWith("recv", ws)
      <4>1. reader' = [reader EXCEPT ![p] = r]
        BY <3>1 DEF ReaderTop
      <4>2. r.conn \in {NoConn, ws} /\ r.pc \notin {"connected", "discard"}
        BY DEF ReaderAt, ReaderWith, ReaderIdle
      <4> QED
        BY <4>1, <4>2
    <3>2. \A pc : ReaderAt(pc).conn = NoConn /\ ReaderAt(pc).pc = pc
      BY DEF ReaderAt, ReaderIdle
    <3>3. CASE ~ReaderTop(p)
      <4>1. \E pc \in {"top", "done", "connect", "failall"} :
                reader' = [reader EXCEPT ![p] = ReaderAt(pc)]
        BY <1>14, <3>3 DEF ReaderRecv, ReaderLost, ReaderGiveUp, ReaderFailAll,
                           ReaderDiscarded, ReaderCrash
      <4> QED
        BY <3>2, <4>1
    <3> QED
      BY <3>1, <3>3
  <2> QED
    BY <1>13, <2>1, <2>2
<1>15. ASSUME UNCHANGED <<userVars, latest, sweep, conns, ws, up>>, NEW p \in Pairs,
              reader[p].pc # "none", UNCHANGED reader[p].conn,
              \A q \in Pairs \ {p} : reader'[q] = reader[q],
              reader'[p].pc \notin {"connected", "discard"}
       PROVE  Numbered'
  <2>1. \A q \in Pairs : /\ Carried(q)'
                         /\ reader[q].pc = "none" => reader'[q].pc = "none"
    BY <1>2, <1>15 DEF Carried
  <2> QED
    BY <1>1, <1>3, <1>10, <1>15, <2>1
<1>16. ASSUME NEW p \in Pairs,
              ReaderConnectFailed(p) \/ ReaderResub(p) \/ ReaderAdopt(p)
       PROVE  Numbered'
  <2>1. UNCHANGED <<userVars, latest, sweep, conns, ws, up>> /\ reader[p].pc # "none"
    BY <1>16 DEF ReaderConnectFailed, ReaderResub, ReaderAdopt
  <2>2. ASSUME ReaderConnectFailed(p) PROVE Numbered'
    <3>1. /\ \A q \in Pairs \ {p} : reader'[q] = reader[q]
          /\ reader'[p].pc \in {"giveup", "connect"}
          /\ UNCHANGED reader[p].conn
      BY <2>2 DEF ReaderConnectFailed, DataType, ReaderType, ReaderStates
    <3> QED
      BY <1>15, <2>1, <3>1
  <2>4. ASSUME ReaderResub(p) PROVE Numbered'
    <3>1. /\ \A q \in Pairs \ {p} : reader'[q] = reader[q]
          /\ reader'[p].pc = "adopt"
          /\ UNCHANGED reader[p].conn
      BY <2>4 DEF ReaderResub, DataType, ReaderType, ReaderStates
    <3> QED
      BY <1>15, <2>1, <3>1
  <2>3. CASE ReaderAdopt(p)
    <3>1. reader' = [reader EXCEPT ![p] = Resubscribing(reader[p].todo)]
      BY <2>3 DEF ReaderAdopt
    <3>2. /\ Resubscribing(reader[p].todo).conn = NoConn
          /\ Resubscribing(reader[p].todo).pc \notin {"connected", "discard"}
      BY DEF Resubscribing, ReaderAt, ReaderIdle
    <3> QED
      BY <1>13, <2>1, <3>1, <3>2
  <2> QED
    BY <1>16, <2>2, <2>3, <2>4, SMTT(60)
<1>17. ASSUME NEW p \in Pairs, NEW c \in Nat, AdoptReconnect(p, c), c # NoConn,
              conns' \in Nat, conns <= conns', c <= conns',
              up' \subseteq 1..conns', UNCHANGED <<userVars, latest, sweep>>,
              reader[p].pc # "none"
       PROVE  Numbered'
  <2>1. ws' <= conns'
    BY <1>1, <1>3, <1>17 DEF AdoptReconnect
  <2>2. \E r : /\ reader' = [reader EXCEPT ![p] = r] /\ r.conn \in {NoConn, c}
               /\ r.pc \in {"connected", "discard"} => r.conn # NoConn
    <3>1. /\ ReaderWith("discard", c).conn = c
          /\ Resubscribing(regs).conn = NoConn
          /\ Resubscribing(regs).pc \notin {"connected", "discard"}
      BY DEF ReaderWith, Resubscribing, ReaderAt, ReaderIdle
    <3> QED
      BY <1>17, <3>1 DEF AdoptReconnect
  <2>3. PICK r : /\ reader' = [reader EXCEPT ![p] = r] /\ r.conn \in {NoConn, c}
                 /\ r.pc \in {"connected", "discard"} => r.conn # NoConn
    BY <2>2
  <2>4. r.conn <= conns'
    BY <1>17, <2>3 DEF NoConn
  <2> QED
    BY <1>12, <1>17, <2>1, <2>3, <2>4
<1>18. ASSUME Connect
       PROVE  /\ conns' = conns + 1 /\ up' \subseteq 1..conns'
              /\ conns' \in Nat /\ conns <= conns'
  BY <1>1, <1>3, <1>18 DEF Connect
<1>19. ASSUME NEW p \in Pairs, ReaderConnected(p) PROVE Numbered'
  <2>1. /\ conns' = conns + 1 /\ up' \subseteq 1..conns'
        /\ conns' \in Nat /\ conns <= conns'
        /\ UNCHANGED <<userVars, latest, sweep>> /\ reader[p].pc # "none"
    BY <1>18, <1>19 DEF ReaderConnected
  <2>2. CASE AdoptReconnect(p, conns + 1)
    BY <1>1, <1>17, <2>1, <2>2 DEF NoConn
  <2>3. CASE /\ reader' = [reader EXCEPT ![p] = ReaderWith("connected", conns + 1)]
             /\ UNCHANGED ws
    <3>1. ReaderWith("connected", conns + 1).conn = conns + 1
      BY DEF ReaderWith, ReaderIdle
    <3>2. ws' <= conns' /\ conns + 1 <= conns' /\ conns + 1 # NoConn
      BY <1>1, <1>3, <2>1, <2>3 DEF NoConn
    <3> QED
      BY <1>12, <2>1, <2>3, <3>1, <3>2
  <2> QED
    BY <1>19, <2>2, <2>3 DEF ReaderConnected
<1>20. ASSUME NEW p \in Pairs, ReaderConnectedResumes(p) PROVE Numbered'
  <2>1. /\ UNCHANGED <<userVars, latest, sweep, conns, up>> /\ reader[p].pc = "connected"
        /\ AdoptReconnect(p, reader[p].conn)
    BY <1>20 DEF ReaderConnectedResumes
  <2>2. reader[p].conn \in Nat /\ reader[p].conn # NoConn /\ reader[p].conn <= conns
    BY <2>1 DEF DataType, ReaderType, ReaderStates, Conns, Numbered
  <2> QED
    BY <1>1, <1>3, <1>17, <2>1, <2>2
<1>21. ASSUME NEW p \in Pairs,
              \/ \E S \in SUBSET Subs : SweepTick(p, S)
              \/ \E s \in Subs, ok \in BOOLEAN : SweepRefresh(p, s, ok)
              \/ SweepAdopt(p) \/ SweepCrash(p) \/ SweepFailAll(p)
       PROVE  Numbered'
  <2>1. /\ UNCHANGED <<userVars, latest, conns, reader>> /\ up' = up
        /\ ws' \in {ws, NoConn} /\ sweep[p].pc # "none"
    BY <1>21, ZenonT(60) DEF SweepTick, SweepRefresh, SweepAdopt, SweepCrash, SweepFailAll, FailAll
  <2>2. \E r : sweep' = [sweep EXCEPT ![p] = r]
    BY <1>21 DEF SweepTick, SweepRefresh, SweepAdopt, SweepCrash, SweepFailAll
  <2> QED
    BY <1>11, <2>1, <2>2
<1>22. ASSUME NEW p \in Pairs, SweepEscalate(p) PROVE Numbered'
  <2>1. \A q \in Pairs : sweep[q].pc = "none" => sweep'[q].pc = "none"
    BY <1>22 DEF SweepEscalate, DataType, SweepType
  <2>2. UNCHANGED <<userVars, latest, conns, reader, ws, up>>
    BY <1>22 DEF SweepEscalate
  <2> QED
    BY <1>1, <1>2, <1>3, <1>10, <2>1, <2>2 DEF Carried
<1>23. CASE AClose
  <2>1. /\ UNCHANGED <<userVars, latest, conns, up>> /\ ws' = NoConn
    BY <1>23 DEF AClose
  <2>2. \A p \in Pairs : p # latest => reader'[p] = reader[p] /\ sweep'[p] = sweep[p]
    BY <1>23 DEF AClose
  <2>3. \A p \in Pairs : p = latest => reader'[p] = ReaderAt("done")
    BY <1>23 DEF AClose
  <2>4. ReaderAt("done").conn = NoConn /\ ReaderAt("done").pc = "done"
    BY DEF ReaderAt, ReaderIdle
  <2>5. \A p \in Pairs : Carried(p)'
    BY <1>1, <1>2, <2>1, <2>2, <2>3, <2>4 DEF Carried, NoConn
  <2> QED
    BY <1>1, <1>3, <2>1, <2>2, <2>5, NumberedKept DEF NoConn, Carries
\* The steps that hand a connection to a subscribe() call, or take it.
<1>24. ASSUME NEW s \in Subs, NEW c \in Pairs, SettleConnection(s, c),
              conns' \in Nat, conns <= conns', c <= conns',
              up' \subseteq 1..conns',
              \/ caller[s] = "connect" /\ c = conns + 1
              \/ caller[s] = "connected" /\ c = hand[s]
       PROVE  Numbered'
  <2>1. \A r \in Subs : hand[r] <= conns
    BY DEF Numbered
  <2>2. /\ c # NoConn
        /\ \A r \in Subs \ {s} : hand[r] # c
        /\ \A r \in Subs \ {s} : hand'[r] = hand[r] /\ (Carries(r)' <=> Carries(r))
    <3>1. \A r \in Subs \ {s} : hand[r] # c
      BY <1>1, <1>24, <2>1 DEF Numbered, NoConn, Pairs
    <3>2. \A r \in Subs \ {s} : hand'[r] = hand[r] /\ caller'[r] = caller[r]
      BY <1>24 DEF SettleConnection, DataType, UserType
    <3> QED
      BY <3>1, <3>2 DEF Pairs, NoConn, Carries
  <2>3. CASE /\ caller' = [caller EXCEPT ![s] = "redundant"]
             /\ hand' = [hand EXCEPT ![s] = c]
             /\ UNCHANGED <<stateVars, taskVars>>
    <3>1. hand'[s] = c /\ Carries(s)'
      BY <2>3 DEF DataType, UserType, Carries
    <3>2. ASSUME NEW p \in Pairs, reader[p].pc # "none" \/ sweep[p].pc # "none"
                                  \/ p = latest
          PROVE  p <= conns' /\ \A r \in Subs : hand'[r] # p
      <4>1. p <= conns /\ \A r \in Subs : hand[r] # p
        BY <3>2 DEF Numbered
      <4>2. p # c
        BY <1>1, <1>24, <4>1 DEF Pairs
      <4> QED
        BY <1>1, <1>24, <2>2, <3>1, <4>1, <4>2 DEF Pairs
    <3>3. \A p \in Pairs : Carried(p)'
      <4>1. \A p \in Pairs : reader[p].conn \in Nat
        BY DEF DataType, ReaderType, ReaderStates, Conns
      <4> QED
        BY <1>1, <1>2, <1>24, <2>3, <4>1 DEF Carried
    <3>4. \A r \in Subs : hand'[r] <= conns'
      BY <1>1, <1>24, <2>1, <2>2, <3>1
    <3>5. ASSUME NEW r \in Subs
          PROVE  /\ hand'[r] # NoConn <=> Carries(r)'
                 /\ \A q \in Subs : hand'[r] = hand'[q] /\ hand'[r] # NoConn => r = q
      BY <2>2, <3>1 DEF Numbered, Carries
    <3>6. ws' <= conns'
      BY <1>1, <1>3, <1>24, <2>3
    <3> QED
      BY <1>24, <2>3, <3>2, <3>3, <3>4, <3>5, <3>6 DEF Numbered, Carried, Carries
  <2>4. CASE /\ ws' = c /\ latest' = c
             /\ reader' = [reader EXCEPT ![c].pc = "top"]
             /\ sweep' = [sweep EXCEPT ![c].pc = "sleep"]
             /\ caller' = [caller EXCEPT ![s] = "rest"]
             /\ hand' = [hand EXCEPT ![s] = NoConn]
    <3>1. hand'[s] = NoConn /\ ~Carries(s)'
      BY <2>4 DEF DataType, UserType, Carries
    <3>2. \A r \in Subs : hand'[r] <= conns' /\ hand'[r] # c
      BY <1>1, <1>24, <2>1, <2>2, <3>1 DEF NoConn
    <3>3. ASSUME NEW p \in Pairs, p # c
          PROVE  /\ reader'[p] = reader[p] /\ sweep'[p] = sweep[p]
                 /\ p # latest'
      BY <2>4, <3>3 DEF DataType, ReaderType, SweepType
    <3>4. ASSUME NEW p \in Pairs, reader'[p].pc # "none" \/ sweep'[p].pc # "none"
                                  \/ p = latest'
          PROVE  p <= conns' /\ \A r \in Subs : hand'[r] # p
      <4>1. CASE p = c
        BY <1>24, <3>2, <4>1
      <4>2. CASE p # c
        <5>1. p <= conns /\ \A r \in Subs : hand[r] # p
          BY <3>3, <3>4, <4>2 DEF Numbered
        <5> QED
          BY <1>1, <1>24, <2>2, <3>1, <5>1 DEF Pairs, NoConn
      <4> QED
        BY <4>1, <4>2
    <3>5. \A p \in Pairs : Carried(p)'
      <4>1. \A p \in Pairs : reader[p].conn \in Nat
        BY DEF DataType, ReaderType, ReaderStates, Conns
      <4>2. reader'[c].pc = "top" /\ reader'[c].conn = reader[c].conn
        BY <2>4 DEF DataType, ReaderType, ReaderStates
      <4> QED
        BY <1>1, <1>2, <1>24, <3>3, <4>1, <4>2 DEF Carried
    <3>6. ASSUME NEW r \in Subs
          PROVE  /\ hand'[r] # NoConn <=> Carries(r)'
                 /\ \A q \in Subs : hand'[r] = hand'[q] /\ hand'[r] # NoConn => r = q
      BY <2>2, <3>1 DEF Numbered, Carries
    <3> QED
      BY <1>24, <2>4, <3>2, <3>4, <3>5, <3>6 DEF Numbered, Carried, Carries
  <2> QED
    BY <1>24, <2>3, <2>4 DEF SettleConnection
<1>25. ASSUME NEW s \in Subs, Connected(s) PROVE Numbered'
  <2>1. /\ conns' = conns + 1 /\ up' \subseteq 1..conns'
        /\ conns' \in Nat /\ conns <= conns' /\ conns + 1 <= conns'
        /\ conns + 1 \in Pairs
    BY <1>1, <1>18, <1>25, ConnectTypes DEF Connected, DataType
  <2>2. CASE SettleConnection(s, conns + 1)
    BY <1>24, <1>25, <2>1, <2>2 DEF Connected
  <2>3. CASE /\ caller' = [caller EXCEPT ![s] = "connected"]
             /\ hand' = [hand EXCEPT ![s] = conns + 1]
             /\ UNCHANGED <<stateVars, taskVars>>
    <3>1. hand'[s] = conns + 1 /\ Carries(s)'
      BY <2>3 DEF DataType, UserType, Carries
    <3>2. \A r \in Subs \ {s} : hand'[r] = hand[r] /\ (Carries(r)' <=> Carries(r))
      BY <2>3 DEF DataType, UserType, Carries
    <3>3. \A r \in Subs : hand[r] <= conns
      BY DEF Numbered
    <3>4. \A r \in Subs : hand'[r] <= conns'
      BY <1>1, <2>1, <3>1, <3>2, <3>3
    <3>5. ASSUME NEW r \in Subs
          PROVE  /\ hand'[r] # NoConn <=> Carries(r)'
                 /\ \A q \in Subs : hand'[r] = hand'[q] /\ hand'[r] # NoConn => r = q
      <4>1. \A q \in Subs \ {s} : hand'[q] # conns + 1
        BY <1>1, <3>2, <3>3
      <4> QED
        BY <1>1, <3>1, <3>2, <4>1 DEF Numbered, Carries, NoConn
    <3>6. ASSUME NEW p \in Pairs, reader[p].pc # "none" \/ sweep[p].pc # "none"
                                  \/ p = latest
          PROVE  p <= conns' /\ \A r \in Subs : hand'[r] # p
      <4>1. p <= conns /\ \A r \in Subs : hand[r] # p
        BY <3>6 DEF Numbered
      <4> QED
        BY <1>1, <2>1, <3>1, <3>2, <4>1 DEF Pairs
    <3>7. \A p \in Pairs : Carried(p)'
      <4>1. \A p \in Pairs : reader[p].conn \in Nat
        BY DEF DataType, ReaderType, ReaderStates, Conns
      <4> QED
        BY <1>1, <1>2, <2>1, <2>3, <4>1 DEF Carried
    <3>8. ws' <= conns'
      BY <1>1, <1>3, <2>1, <2>3
    <3> QED
      BY <2>1, <2>3, <3>4, <3>5, <3>6, <3>7, <3>8 DEF Numbered, Carried, Carries
  <2> QED
    BY <1>25, <2>2, <2>3 DEF Connected
<1>26. ASSUME NEW s \in Subs, ConnectedResumes(s) PROVE Numbered'
  <2>1. /\ caller[s] = "connected" /\ SettleConnection(s, hand[s])
        /\ UNCHANGED <<conns, up>>
    BY <1>26 DEF ConnectedResumes
  <2>2. hand[s] \in Pairs /\ hand[s] <= conns
    BY <2>1 DEF Numbered, DataType, UserType, Conns, Pairs, NoConn
  <2> QED
    BY <1>1, <1>3, <1>24, <2>1, <2>2
<1> QED
  BY <1>5, <1>6, <1>7, <1>8, <1>9, <1>14, <1>16, <1>19, <1>20, <1>21, <1>22, <1>23,
     <1>25, <1>26
  DEF Next, SubStep, UserStep, ReaderStep, SweepStep

LEMMA NextEscalates == DataType /\ Escalates /\ [Next]_vars => Escalates'
<1> SUFFICES ASSUME DataType, Escalates, [Next]_vars PROVE Escalates'
  OBVIOUS
<1>1. ASSUME \A p \in Pairs : sweep'[p].pc # "escalate" \/ sweep'[p] = sweep[p]
      PROVE  Escalates'
  BY <1>1 DEF Escalates
<1>2. CASE UNCHANGED sweep
  BY <1>2 DEF Escalates
<1>3. ASSUME NEW p \in Pairs, NEW r, sweep' = [sweep EXCEPT ![p] = r],
             r.pc # "escalate"
      PROVE  Escalates'
  BY <1>1, <1>3 DEF DataType, SweepType
<1>4. /\ \A pc : SweepAt(pc).pc = pc
      /\ \A S : Passing(S).pc # "escalate"
  BY DEF Passing, SweepAt, SweepIdle
<1>5. ASSUME NEW s \in Subs, NEW c, SettleConnection(s, c) PROVE Escalates'
  BY <1>1, <1>2, <1>5 DEF SettleConnection, DataType, SweepType, SweepStates
<1>6. ASSUME NEW s \in Subs, SubStep(s) \/ UserStep(s) PROVE Escalates'
  <2>1. CASE Connected(s) \/ ConnectedResumes(s)
    BY <1>2, <1>5, <2>1 DEF Connected, ConnectedResumes
  <2>2. CASE ~(Connected(s) \/ ConnectedResumes(s))
    <3>1. UNCHANGED sweep
      BY <1>6, <2>2
      DEF SubStep, UserStep, CheckOpen, ConnectFailed, RedundantClosed, RestSubscribe,
          Insert, CloseOne, Abandon, DropRegistration, ManualRefresh, Cancel
    <3> QED
      BY <1>2, <3>1
  <2> QED
    BY <2>1, <2>2
<1>7. CASE CloseAllSubscriptions
  BY <1>2, <1>7 DEF CloseAllSubscriptions
<1>8. CASE AClose
  <2>1. \A p \in Pairs : sweep'[p] \in {sweep[p], SweepAt("done")}
    BY <1>8 DEF AClose
  <2> QED
    BY <1>1, <1>4, <2>1
<1>9. ASSUME NEW p \in Pairs, ReaderStep(p) \/ ReaderRecv(p) \/ ReaderCrash(p)
      PROVE  Escalates'
  <2>1. UNCHANGED sweep
    BY <1>9
    DEF ReaderStep, ReaderTop, ReaderLost, ReaderConnectFailed, ReaderGiveUp,
        ReaderFailAll, ReaderConnected, ReaderConnectedResumes, ReaderDiscarded,
        ReaderResub, ReaderAdopt, ReaderRecv, ReaderCrash
  <2> QED
    BY <1>2, <2>1, SMTT(60)
<1>10. ASSUME NEW p \in Pairs, NEW S, SweepTick(p, S) PROVE Escalates'
  BY <1>3, <1>4, <1>10 DEF SweepTick
<1>11. ASSUME NEW p \in Pairs, NEW s \in Subs, NEW ok, SweepRefresh(p, s, ok)
       PROVE  Escalates'
  <2> DEFINE moved == [SweepIdle EXCEPT !.pc = "escalate", !.sub = s,
                                        !.due = sweep[p].due \ {s}]
  <2>1. CASE sweep' = [sweep EXCEPT ![p] = moved]
    <3>1. moved.sub = s
      BY DEF SweepIdle
    <3>2. \A q \in Pairs : sweep'[q] = sweep[q] \/ sweep'[q].sub = s
      BY <2>1, <3>1 DEF DataType, SweepType
    <3> QED
      BY <3>2 DEF Escalates
  <2>2. CASE sweep' = [sweep EXCEPT ![p] = Passing(sweep[p].due \ {s})]
    BY <1>3, <1>4, <2>2
  <2> QED
    BY <1>11, <2>1, <2>2 DEF SweepRefresh
<1>12. ASSUME NEW p \in Pairs, SweepEscalate(p) PROVE Escalates'
  BY <1>1, <1>12 DEF SweepEscalate, DataType, SweepType, SweepStates
<1>13. ASSUME NEW p \in Pairs, SweepAdopt(p) \/ SweepCrash(p) \/ SweepFailAll(p)
       PROVE  Escalates'
  BY <1>3, <1>4, <1>13, ZenonT(60) DEF SweepAdopt, SweepCrash, SweepFailAll
<1>14. ASSUME NEW t, Wait(t) PROVE Escalates'
  BY <1>2, <1>14 DEF Wait
<1>15. ASSUME NEW c, CloseConn(c) \/ Disconnect(c) PROVE Escalates'
  BY <1>2, <1>15 DEF CloseConn, Disconnect
<1>16. CASE UNCHANGED vars
  BY <1>2, <1>16 DEF vars
<1> QED
  BY <1>6, <1>7, <1>8, <1>9, <1>10, <1>11, <1>12, <1>13, <1>14, <1>15, <1>16
  DEF Next, SweepStep

-------------------------------------------------------------------------------
(* The lock.                                                               *)

LEMMA TasksDiffer ==
    /\ \A s, r : Sub(s) = Sub(r) => s = r
    /\ \A p, q : Reader(p) = Reader(q) => p = q
    /\ \A p, q : Sweep(p) = Sweep(q) => p = q
    /\ \A s, p : Sub(s) # Reader(p) /\ Sub(s) # Sweep(p)
    /\ \A p, q : Reader(p) # Sweep(q)
    /\ \A x : /\ Sub(x) \notin {Client, Closer, NoTask}
              /\ Reader(x) \notin {Client, Closer, NoTask}
              /\ Sweep(x) \notin {Client, Closer, NoTask}
    /\ Client # Closer /\ Client # NoTask /\ Closer # NoTask
  BY DEF Sub, Reader, Sweep, Client, Closer, NoTask

\* t closes a spare connection under the lock.
Spare(t) == \/ \E s \in Subs : t = Sub(s) /\ caller[s] = "redundant"
            \/ \E p \in Pairs : t = Reader(p) /\ reader[p].pc = "discard"

HolderInv == LockIsReleased /\ SparesHold

HolderIsSpare == /\ \A t : Spare(t) => t = holder
                 /\ holder # NoTask => Spare(holder) /\ ~Among(waiting, holder)

LEMMA HolderInvMeans ==
    (HolderInv <=> HolderIsSpare) /\ (HolderInv' <=> HolderIsSpare')
<1>1. HolderInv <=> HolderIsSpare
  BY TasksDiffer
  DEF HolderInv, HolderIsSpare, LockIsReleased, SparesHold, Spare, Queued, Among
<1>2. HolderInv' <=> HolderIsSpare'
  BY TasksDiffer
  DEF HolderInv, HolderIsSpare, LockIsReleased, SparesHold, Spare, Queued, Among
<1> QED
  BY <1>1, <1>2

\* A step of t: it leaves alone where every other coroutine stands, except
\* that it may start a pair of tasks, and opens at most a new connection.
ActsAlone(t) ==
    /\ closed' = closed
    /\ \A c \in up' \ up : c > conns
    /\ \A s \in Subs : t # Sub(s) => caller'[s] = caller[s]
    /\ \A p \in Pairs :
          /\ t # Reader(p) => \/ reader'[p] = reader[p]
                              \/ reader[p].pc = "none" /\ reader'[p].pc = "top"
          /\ t # Sweep(p) => sweep'[p] = sweep[p] \/ sweep[p].pc = "none"

LEMMA WantsKept ==
    ASSUME DataType, Numbered, NEW t, ActsAlone(t), NEW u, u # t, StillWants(u)
    PROVE  StillWants(u)'
<1>1. CASE u = Client \/ (u = Closer /\ ~closed)
  BY <1>1 DEF StillWants, WantsLock, ActsAlone
<1>2. ASSUME NEW s \in Subs, u = Sub(s),
             caller[s] \in {"new", "insert", "live", "connected"}
      PROVE  StillWants(u)'
  BY <1>2 DEF StillWants, WantsLock, ActsAlone
<1>3. ASSUME NEW p \in Pairs, u = Reader(p), reader'[p] = reader[p],
             \/ reader[p].pc \in {"top", "giveup", "failall", "adopt", "connected"}
             \/ reader[p].pc = "recv" /\ reader[p].conn \notin up
      PROVE  StillWants(u)'
  <2>1. reader[p].conn \in Nat /\ conns \in Nat /\ reader[p].conn <= conns
    BY DEF DataType, ReaderType, ReaderStates, NetType, Conns, Numbered
  <2>2. reader[p].conn \notin up => reader[p].conn \notin up'
    BY <2>1 DEF ActsAlone
  <2> QED
    BY <1>3, <2>2 DEF StillWants, WantsLock
<1>4. ASSUME NEW p \in Pairs, u = Sweep(p),
             sweep[p].pc \in {"sleep", "pass", "adopt", "failall"}
      PROVE  StillWants(u)'
  BY <1>4 DEF StillWants, WantsLock, ActsAlone
<1>5. ASSUME NEW p \in Pairs, u = Reader(p), reader[p].pc # "none"
      PROVE  reader'[p] = reader[p]
  BY <1>5 DEF ActsAlone
<1> QED
  BY <1>1, <1>2, <1>3, <1>4, <1>5 DEF StillWants, WantsLock

LEMMA LockKept ==
    ASSUME DataType, QueueInv, HolderInv, Numbered, NEW t \in Tasks, ActsAlone(t),
           \/ Section(t) /\ ~Spare(t)'
           \/ Acquire(t) /\ Spare(t)'
           \/ Release(t) /\ ~Spare(t)'
           \/ /\ UNCHANGED holder /\ ~Spare(t) /\ ~Spare(t)'
              /\ \/ UNCHANGED waiting /\ (~Among(waiting, t) \/ StillWants(t)')
                 \/ waiting' = Without(waiting, t)
                 \/ /\ waiting' = Append(waiting, t) /\ ~Among(waiting, t)
                    /\ StillWants(t)'
    PROVE  QueueInv' /\ HolderInv'
<1>1. \A u : u # t /\ StillWants(u) => StillWants(u)'
  BY WantsKept
<1>2. \A u : u # t => (Spare(u)' <=> Spare(u))
  BY DEF Spare, ActsAlone
<1>3. HolderIsSpare
  BY HolderInvMeans
<1>4. HolderIsSpare' => HolderInv'
  BY HolderInvMeans
<1>5. CASE waiting' = Without(waiting, t)
  <2>1. /\ waiting' \in Seq(Tasks) /\ NoRepeats(waiting')
        /\ \A u : Among(waiting', u) <=> Among(waiting, u) /\ u # t
    BY <1>5, WithoutProperties DEF QueueInv
  <2>2. QueueInv'
    BY <1>1, <2>1 DEF QueueInv, NoRepeats, Among
  <2>3. (\A u : Among(waiting, u)' <=> Among(waiting, u) /\ u # t)
    BY <2>1 DEF Among
  <2>4. CASE Section(t) /\ ~Spare(t)'
    <3>1. holder = NoTask /\ holder' = NoTask
      BY <2>4 DEF Section, Free
    <3>2. \A u : ~Spare(u)'
      BY <1>2, <2>4, <3>1, <1>3, TasksDiffer DEF Spare, HolderIsSpare
    <3> QED
      BY <2>2, <3>1, <3>2, <1>3, <1>4 DEF HolderIsSpare
  <2>5. CASE Acquire(t) /\ Spare(t)'
    <3>1. holder = NoTask /\ holder' = t
      BY <2>5 DEF Acquire, Free
    <3>2. \A u : u # t => ~Spare(u)'
      BY <1>2, <3>1, <1>3, TasksDiffer DEF Spare, HolderIsSpare
    <3> QED
      BY <2>2, <2>3, <2>5, <3>1, <3>2, <1>3, <1>4 DEF HolderIsSpare
  <2>6. CASE UNCHANGED holder /\ ~Spare(t) /\ ~Spare(t)'
    BY <1>2, <2>2, <2>3, <2>6, <1>3, <1>4 DEF HolderIsSpare
  <2>7. CASE Release(t) /\ ~Spare(t)'
    <3>1. holder' = NoTask /\ \A u : ~Spare(u)'
      BY <1>2, <2>7, <1>3 DEF Release, HolderIsSpare
    <3> QED
      BY <2>2, <3>1, <1>3, <1>4 DEF HolderIsSpare
  <2> QED
    BY <2>4, <2>5, <2>6, <2>7
<1>6. CASE Release(t) /\ ~Spare(t)'
  <2>1. holder = t /\ holder' = NoTask /\ UNCHANGED waiting
    BY <1>6 DEF Release
  <2>2. t # NoTask /\ ~Among(waiting, t)
    BY <2>1, <1>3, TasksDiffer DEF Tasks, HolderIsSpare
  <2>3. QueueInv'
    BY <1>1, <2>1, <2>2 DEF QueueInv, NoRepeats, Among
  <2>4. \A u : ~Spare(u)'
    BY <1>2, <1>6, <2>1, <1>3, <1>4 DEF HolderIsSpare
  <2> QED
    BY <2>1, <2>3, <2>4, <1>3, <1>4 DEF HolderIsSpare
<1>7. CASE /\ UNCHANGED <<holder, waiting>> /\ ~Spare(t) /\ ~Spare(t)'
           /\ ~Among(waiting, t) \/ StillWants(t)'
  <2>1. QueueInv'
    BY <1>1, <1>7 DEF QueueInv, NoRepeats, Among
  <2>2. \A u : Among(waiting, u)' <=> Among(waiting, u)
    BY <1>7 DEF Among
  <2> QED
    BY <1>2, <1>7, <2>1, <2>2, <1>3, <1>4 DEF HolderIsSpare
<1>8. CASE /\ UNCHANGED holder /\ ~Spare(t) /\ ~Spare(t)'
           /\ waiting' = Append(waiting, t) /\ ~Among(waiting, t) /\ StillWants(t)'
  <2>1. /\ waiting' \in Seq(Tasks) /\ NoRepeats(waiting')
        /\ \A u : Among(waiting', u) <=> Among(waiting, u) \/ u = t
    BY <1>8, AppendedProperties DEF QueueInv
  <2>2. QueueInv'
    BY <1>1, <1>8, <2>1 DEF QueueInv, NoRepeats, Among
  <2>3. \A u : Among(waiting, u)' <=> Among(waiting, u) \/ u = t
    BY <2>1 DEF Among
  <2> QED
    BY <1>2, <1>8, <2>2, <2>3, <1>3, <1>4 DEF HolderIsSpare
<1> QED
  BY <1>5, <1>6, <1>7, <1>8 DEF Section, Acquire

\* Every step keeps the queue and the holder in order: whoever queues wants
\* the lock, and whoever has it will let it go.
LEMMA NextLock ==
    DataType /\ Numbered /\ QueueInv /\ HolderInv /\ [Next]_vars
        => QueueInv' /\ HolderInv'
<1> SUFFICES ASSUME DataType, Numbered, QueueInv, HolderInv, [Next]_vars
             PROVE  QueueInv' /\ HolderInv'
  OBVIOUS
<1> DEFINE Done == QueueInv' /\ HolderInv'
<1>1. /\ \A s \in Subs : /\ Spare(Sub(s)) <=> caller[s] = "redundant"
                         /\ Spare(Sub(s))' <=> caller'[s] = "redundant"
      /\ \A p \in Pairs : /\ Spare(Reader(p)) <=> reader[p].pc = "discard"
                          /\ Spare(Reader(p))' <=> reader'[p].pc = "discard"
                          /\ ~Spare(Sweep(p)) /\ ~Spare(Sweep(p))'
      /\ ~Spare(Client) /\ ~Spare(Client)' /\ ~Spare(Closer)
  BY TasksDiffer DEF Spare
<1>2. ASSUME NEW s \in Subs, UNCHANGED <<closed, reader, sweep>>,
             \A r \in Subs \ {s} : caller'[r] = caller[r],
             \A c \in up' \ up : c > conns
      PROVE  ActsAlone(Sub(s))
  BY <1>2 DEF ActsAlone
<1>3. ASSUME NEW p \in Pairs, UNCHANGED <<closed, caller, sweep>>,
             \A q \in Pairs \ {p} : reader'[q] = reader[q],
             \A c \in up' \ up : c > conns
      PROVE  ActsAlone(Reader(p))
  BY <1>3 DEF ActsAlone
<1>4. ASSUME NEW p \in Pairs, UNCHANGED <<closed, caller, reader, up>>,
             \A q \in Pairs \ {p} : sweep'[q] = sweep[q]
      PROVE  ActsAlone(Sweep(p))
  BY <1>4 DEF ActsAlone
<1>5. ASSUME UNCHANGED <<closed, caller, reader, sweep>>, up' \subseteq up, NEW t
      PROVE  ActsAlone(t)
  BY <1>5 DEF ActsAlone
<1>6. \A t : Among(waiting, t) => StillWants(t)
  BY DEF QueueInv
<1>7. /\ \A s \in Subs : Among(waiting, Sub(s)) =>
             caller[s] \in {"new", "insert", "live", "connected"}
      /\ \A p \in Pairs : Among(waiting, Reader(p)) =>
             reader[p].pc \in {"top", "giveup", "failall", "adopt", "recv", "connected"}
      /\ \A p \in Pairs : Among(waiting, Sweep(p)) =>
             sweep[p].pc \in {"sleep", "pass", "adopt", "failall"}
  BY <1>6, TasksDiffer DEF StillWants, WantsLock
<1>8. \A t : Queued(t) <=> Among(waiting, t)
  BY DEF Queued, Among
<1>9. caller \in [Subs -> CallerStates] /\ reader \in [Pairs -> ReaderStates]
      /\ sweep \in [Pairs -> SweepStates]
  BY DEF DataType, UserType, ReaderType, SweepType
<1> USE TaskTypes
\* The critical sections of a subscribe() call.
<1>10. ASSUME NEW s \in Subs, CheckOpen(s) \/ Insert(s) \/ CloseOne(s) PROVE Done
  <2>1. /\ Section(Sub(s)) /\ UNCHANGED <<closed, reader, sweep, up>>
        /\ \A r \in Subs \ {s} : caller'[r] = caller[r]
        /\ caller'[s] # "redundant"
    BY <1>9, <1>10 DEF CheckOpen, Insert, CloseOne
  <2> QED
    BY <1>1, <1>2, <2>1, LockKept
<1>11. ASSUME NEW s \in Subs,
              ConnectFailed(s) \/ RestSubscribe(s) \/ Abandon(s)
       PROVE  Done
  <2>1. /\ UNCHANGED <<lockVars, closed, reader, sweep, up>>
        /\ \A r \in Subs \ {s} : caller'[r] = caller[r]
        /\ caller'[s] # "redundant" /\ caller[s] # "redundant"
    BY <1>9, <1>11 DEF ConnectFailed, RestSubscribe, Abandon
  <2>2. ~Among(waiting, Sub(s))
    BY <1>7, <1>8, <1>11 DEF ConnectFailed, RestSubscribe, Abandon
  <2> QED
    BY <1>1, <1>2, <2>1, <2>2, LockKept
<1>12. ASSUME NEW s \in Subs, Cancel(s) PROVE Done
  <2>1. /\ UNCHANGED <<holder, closed, reader, sweep, up>>
        /\ waiting' = Without(waiting, Sub(s))
        /\ \A r \in Subs \ {s} : caller'[r] = caller[r]
        /\ caller'[s] # "redundant" /\ caller[s] # "redundant"
    BY <1>9, <1>12 DEF Cancel
  <2> QED
    BY <1>1, <1>2, <2>1, LockKept
<1>13. ASSUME NEW s \in Subs, DropRegistration(s) \/ ManualRefresh(s) PROVE Done
  <2>1. UNCHANGED <<lockVars, closed, caller, reader, sweep, up>>
    BY <1>13 DEF DropRegistration, ManualRefresh
  <2>2. StillWants(Client)'
    BY DEF StillWants, WantsLock
  <2> QED
    BY <1>1, <1>5, <2>1, <2>2, LockKept
<1>14. ASSUME NEW s \in Subs, NEW c \in Pairs, SettleConnection(s, c),
              \A d \in up' \ up : d > conns,
              reader[c].pc = "none", sweep[c].pc = "none"
       PROVE  Done
  <2>1. /\ UNCHANGED closed
        /\ \A r \in Subs \ {s} : caller'[r] = caller[r]
    BY <1>9, <1>14 DEF SettleConnection
  <2>2. \A p \in Pairs : /\ \/ reader'[p] = reader[p]
                            \/ reader[p].pc = "none" /\ reader'[p].pc = "top"
                         /\ sweep'[p] = sweep[p] \/ sweep[p].pc = "none"
    <3>1. CASE UNCHANGED taskVars
      BY <3>1
    <3>2. CASE /\ reader' = [reader EXCEPT ![c].pc = "top"]
               /\ sweep' = [sweep EXCEPT ![c].pc = "sleep"]
      <4>1. reader'[c].pc = "top"
        BY <1>9, <3>2 DEF ReaderStates
      <4>2. \A p \in Pairs \ {c} : reader'[p] = reader[p] /\ sweep'[p] = sweep[p]
        BY <1>9, <3>2
      <4> QED
        BY <1>14, <4>1, <4>2
    <3> QED
      BY <1>14, <3>1, <3>2 DEF SettleConnection
  <2>3. ActsAlone(Sub(s))
    BY <1>14, <2>1, <2>2 DEF ActsAlone
  <2>4. \/ Acquire(Sub(s)) /\ caller'[s] = "redundant"
        \/ Section(Sub(s)) /\ caller'[s] # "redundant"
    BY <1>9, <1>14 DEF SettleConnection
  <2> QED
    BY <1>1, <2>3, <2>4, LockKept
\* Nobody has tasks on a connection that is not settled yet.
<1>15. ASSUME NEW c \in Pairs, \/ c > conns
                               \/ \E s \in Subs : hand[s] = c
       PROVE  reader[c].pc = "none" /\ sweep[c].pc = "none"
  <2>1. conns \in Nat
    BY DEF DataType, NetType, Conns
  <2> QED
    BY <1>15, <2>1 DEF Numbered, Pairs
<1>16. ASSUME Connect
       PROVE  /\ conns + 1 \in Pairs /\ conns + 1 > conns
              /\ \A c \in up' \ up : c > conns
  BY <1>16, ConnectTypes DEF Connect, DataType, NetType, Conns
<1>17. ASSUME NEW s \in Subs, Connected(s) PROVE Done
  <2>1. Connect /\ caller[s] = "connect"
    BY <1>17 DEF Connected
  <2>2. CASE SettleConnection(s, conns + 1)
    BY <1>14, <1>15, <1>16, <2>1, <2>2
  <2>3. CASE /\ waiting' = Append(waiting, Sub(s))
             /\ caller' = [caller EXCEPT ![s] = "connected"]
             /\ UNCHANGED <<stateVars, holder, taskVars>>
    <3>1. /\ \A r \in Subs \ {s} : caller'[r] = caller[r]
          /\ caller'[s] = "connected"
      BY <1>9, <2>3
    <3>2. ActsAlone(Sub(s)) /\ ~Among(waiting, Sub(s))
      BY <1>2, <1>7, <1>16, <2>1, <2>3, <3>1
    <3>3. StillWants(Sub(s))'
      BY <3>1 DEF StillWants
    <3> QED
      BY <1>1, <2>1, <2>3, <3>1, <3>2, <3>3, LockKept
  <2> QED
    BY <1>17, <2>2, <2>3 DEF Connected
<1>18. ASSUME NEW s \in Subs, ConnectedResumes(s) PROVE Done
  <2>1. caller[s] = "connected" /\ SettleConnection(s, hand[s]) /\ UNCHANGED up
    BY <1>18 DEF ConnectedResumes
  <2>2. hand[s] \in Pairs
    BY <2>1 DEF Numbered, DataType, UserType, Conns, Pairs, NoConn
  <2> QED
    BY <1>14, <1>15, <2>1, <2>2
<1>19. ASSUME NEW s \in Subs, RedundantClosed(s) PROVE Done
  <2>1. /\ Release(Sub(s)) /\ UNCHANGED <<closed, reader, sweep>> /\ up' \subseteq up
        /\ \A r \in Subs \ {s} : caller'[r] = caller[r]
        /\ caller'[s] # "redundant"
    BY <1>9, <1>19 DEF RedundantClosed
  <2> QED
    BY <1>1, <1>2, <2>1, LockKept
\* The critical sections and the other steps of a reader.
<1>20. ASSUME NEW p \in Pairs,
              ReaderTop(p) \/ ReaderLost(p) \/ ReaderGiveUp(p) \/ ReaderFailAll(p)
              \/ ReaderAdopt(p)
       PROVE  Done
  <2>1. /\ Section(Reader(p)) /\ UNCHANGED <<closed, caller, sweep, up>>
        /\ \A q \in Pairs \ {p} : reader'[q] = reader[q]
    BY <1>9, <1>20
    DEF ReaderTop, ReaderLost, ReaderGiveUp, ReaderFailAll, FailAll, ReaderAdopt
  <2>2. reader'[p].pc # "discard"
    <3>1. CASE ReaderTop(p)
      BY <1>9, <3>1 DEF ReaderTop, ReaderAt, ReaderWith, ReaderIdle
    <3>3. CASE ReaderAdopt(p)
      BY <1>9, <3>3 DEF ReaderAdopt, ReaderAt, ReaderIdle, Resubscribing
    <3>2. CASE ReaderLost(p) \/ ReaderGiveUp(p) \/ ReaderFailAll(p)
      BY <1>9, <3>2 DEF ReaderLost, ReaderGiveUp, ReaderFailAll, ReaderAt, ReaderIdle
    <3> QED
      BY <1>20, <3>1, <3>2, <3>3
  <2> QED
    BY <1>1, <1>3, <2>1, <2>2, LockKept
<1>21. ASSUME NEW p \in Pairs,
              ReaderRecv(p) \/ ReaderConnectFailed(p) \/ ReaderResub(p) \/ ReaderCrash(p)
       PROVE  Done
  <2>1. /\ UNCHANGED <<lockVars, closed, caller, sweep, up>>
        /\ \A q \in Pairs \ {p} : reader'[q] = reader[q]
    BY <1>9, <1>21 DEF ReaderRecv, ReaderConnectFailed, ReaderResub, ReaderCrash
  <2>2. reader'[p].pc # "discard"
    <3>1. CASE ReaderRecv(p) \/ ReaderCrash(p)
      BY <1>9, <3>1 DEF ReaderRecv, ReaderCrash, ReaderAt, ReaderIdle
    <3>2. ASSUME ReaderConnectFailed(p) PROVE reader'[p].pc \in {"giveup", "connect"}
      BY <1>9, <3>2 DEF ReaderConnectFailed, ReaderStates
    <3>3. ASSUME ReaderResub(p) PROVE reader'[p].pc = "adopt"
      BY <1>9, <3>3, SMTT(60) DEF ReaderResub, ReaderStates
    <3> QED
      BY <1>21, <3>1, <3>2, <3>3
  <2>3. ~Among(waiting, Reader(p)) /\ reader[p].pc # "discard"
    BY <1>7, <1>8, <1>21 DEF ReaderRecv, ReaderConnectFailed, ReaderResub, ReaderCrash
  <2> QED
    BY <1>1, <1>3, <2>1, <2>2, <2>3, LockKept
<1>22. ASSUME NEW p \in Pairs, NEW c, AdoptReconnect(p, c),
              UNCHANGED <<caller, sweep>>, \A d \in up' \ up : d > conns
       PROVE  Done
  <2>1. UNCHANGED closed /\ \A q \in Pairs \ {p} : reader'[q] = reader[q]
    BY <1>9, <1>22 DEF AdoptReconnect
  <2>2. \/ Acquire(Reader(p)) /\ reader'[p].pc = "discard"
        \/ Section(Reader(p)) /\ reader'[p].pc # "discard"
    BY <1>9, <1>22, ZenonT(60) DEF AdoptReconnect, ReaderWith, ReaderAt, ReaderIdle, Resubscribing
  <2> QED
    BY <1>1, <1>3, <1>22, <2>1, <2>2, LockKept
<1>23. ASSUME NEW p \in Pairs, ReaderConnected(p) PROVE Done
  <2>1. Connect /\ reader[p].pc = "connect" /\ UNCHANGED <<caller, sweep>>
    BY <1>23 DEF ReaderConnected
  <2>2. CASE AdoptReconnect(p, conns + 1)
    BY <1>16, <1>22, <2>1, <2>2
  <2>3. CASE /\ waiting' = Append(waiting, Reader(p))
             /\ reader' = [reader EXCEPT ![p] = ReaderWith("connected", conns + 1)]
             /\ UNCHANGED <<stateVars, holder, strays>>
    <3>1. /\ \A q \in Pairs \ {p} : reader'[q] = reader[q]
          /\ reader'[p].pc = "connected"
      BY <1>9, <2>3 DEF ReaderWith, ReaderIdle
    <3>2. ActsAlone(Reader(p)) /\ ~Among(waiting, Reader(p))
      BY <1>3, <1>7, <1>16, <2>1, <2>3, <3>1
    <3>3. StillWants(Reader(p))'
      BY <3>1 DEF StillWants
    <3> QED
      BY <1>1, <2>1, <2>3, <3>1, <3>2, <3>3, LockKept
  <2> QED
    BY <1>23, <2>2, <2>3 DEF ReaderConnected
<1>24. ASSUME NEW p \in Pairs, ReaderConnectedResumes(p) PROVE Done
  BY <1>22, <1>24 DEF ReaderConnectedResumes
<1>25. ASSUME NEW p \in Pairs, ReaderDiscarded(p) PROVE Done
  <2>1. /\ Release(Reader(p)) /\ UNCHANGED <<closed, caller, sweep>> /\ up' \subseteq up
        /\ \A q \in Pairs \ {p} : reader'[q] = reader[q]
        /\ reader'[p].pc # "discard"
    BY <1>9, <1>25 DEF ReaderDiscarded, ReaderAt, ReaderIdle
  <2> QED
    BY <1>1, <1>3, <2>1, LockKept
\* The refresh sweep.
<1>26. ASSUME NEW p \in Pairs,
              \/ \E S \in SUBSET Subs : SweepTick(p, S)
              \/ \E s \in Subs, ok \in BOOLEAN : SweepRefresh(p, s, ok)
              \/ SweepAdopt(p) \/ SweepFailAll(p)
       PROVE  Done
  <2>1. /\ Section(Sweep(p)) /\ UNCHANGED <<closed, caller, reader, up>>
        /\ \A q \in Pairs \ {p} : sweep'[q] = sweep[q]
    BY <1>9, <1>26 DEF SweepTick, SweepRefresh, SweepAdopt, SweepFailAll, FailAll
  <2> QED
    BY <1>1, <1>4, <2>1, LockKept, SMTT(60)
<1>27. ASSUME NEW p \in Pairs, SweepEscalate(p) \/ SweepCrash(p) PROVE Done
  <2>1. /\ UNCHANGED <<lockVars, closed, caller, reader, up>>
        /\ \A q \in Pairs \ {p} : sweep'[q] = sweep[q]
    BY <1>9, <1>27 DEF SweepEscalate, SweepCrash
  <2>2. ~Among(waiting, Sweep(p))
    BY <1>7, <1>8, <1>27 DEF SweepEscalate, SweepCrash
  <2> QED
    BY <1>1, <1>4, <2>1, <2>2, LockKept
\* The steps of nobody in particular, and queueing.
<1>28. CASE CloseAllSubscriptions
  <2>1. Section(Client) /\ UNCHANGED <<closed, caller, reader, sweep, up>>
    BY <1>28 DEF CloseAllSubscriptions
  <2> QED
    BY <1>1, <1>5, <2>1, LockKept
<1>29. ASSUME UNCHANGED <<lockVars, closed, caller, reader, sweep>>, up' \subseteq up
       PROVE  Done
  <2>1. StillWants(Client)'
    BY DEF StillWants, WantsLock
  <2> QED
    BY <1>1, <1>5, <1>29, <2>1, LockKept
<1>30. ASSUME NEW c \in 1..MaxConn, CloseConn(c) \/ Disconnect(c) PROVE Done
  BY <1>29, <1>30 DEF CloseConn, Disconnect
<1>31. CASE UNCHANGED vars
  BY <1>29, <1>31 DEF vars
<1>32. ASSUME NEW t \in Tasks, Wait(t) PROVE Done
  <2>1. /\ UNCHANGED <<holder, closed, caller, reader, sweep, up>>
        /\ waiting' = Append(waiting, t) /\ WantsLock(t) /\ ~Among(waiting, t)
    BY <1>8, <1>32 DEF Wait
  <2>2. StillWants(t)'
    BY <2>1 DEF StillWants, WantsLock
  <2>3. ~Spare(t) /\ ~Spare(t)'
    BY <2>1, TasksDiffer DEF Spare, WantsLock
  <2> QED
    BY <1>5, <2>1, <2>2, <2>3, LockKept
\* aclose() takes the latest pair of tasks out of the queue.
<1>33. CASE AClose
  <2> DEFINE q1 == Without(waiting, Closer)
             q2 == Without(q1, Reader(latest))
             q3 == Without(q2, Sweep(latest))
  <2>1. /\ waiting' = q3 /\ holder = NoTask /\ holder' = NoTask
        /\ UNCHANGED <<caller, up>>
        /\ \A p \in Pairs : p # latest => reader'[p] = reader[p] /\ sweep'[p] = sweep[p]
        /\ \A p \in Pairs : p = latest => reader'[p] = ReaderAt("done")
    BY <1>33 DEF AClose, Free
  <2>2. waiting \in Seq(Tasks) /\ NoRepeats(waiting)
    BY DEF QueueInv
  <2>3. /\ q1 \in Seq(Tasks) /\ NoRepeats(q1)
        /\ \A u : Among(q1, u) <=> Among(waiting, u) /\ u # Closer
    BY <2>2, WithoutProperties
  <2> HIDE DEF q1
  <2>4. /\ q2 \in Seq(Tasks) /\ NoRepeats(q2)
        /\ \A u : Among(q2, u) <=> Among(q1, u) /\ u # Reader(latest)
    BY <2>3, WithoutProperties
  <2> HIDE DEF q2
  <2>5. /\ q3 \in Seq(Tasks) /\ NoRepeats(q3)
        /\ \A u : Among(q3, u) <=> Among(q2, u) /\ u # Sweep(latest)
    BY <2>4, WithoutProperties
  <2> HIDE DEF q3
  <2>6. ASSUME NEW u, Among(waiting', u) PROVE StillWants(u)'
    <3>1. StillWants(u) /\ u \notin {Closer, Reader(latest), Sweep(latest)}
      BY <1>6, <2>1, <2>3, <2>4, <2>5, <2>6
    <3> QED
      BY <2>1, <3>1 DEF StillWants, WantsLock
  <2>7. QueueInv'
    BY <2>1, <2>5, <2>6 DEF QueueInv, NoRepeats, Among
  <2>8. \A u : ~Spare(u)'
    <3>1. \A u : ~Spare(u)
      BY <2>1, HolderInvMeans, TasksDiffer DEF HolderIsSpare, Spare
    <3>2. ReaderAt("done").pc = "done"
      BY DEF ReaderAt, ReaderIdle
    <3> QED
      BY <2>1, <3>1, <3>2 DEF Spare
  <2> QED
    BY <2>1, <2>7, <2>8, HolderInvMeans DEF HolderIsSpare
<1> QED
  BY <1>10, <1>11, <1>12, <1>13, <1>17, <1>18, <1>19, <1>20, <1>21, <1>23, <1>24,
     <1>25, <1>26, <1>27, <1>28, <1>30, <1>31, <1>32, <1>33
  DEF Next, SubStep, UserStep, ReaderStep, SweepStep

LEMMA LockInvParts ==
    /\ LockInv <=> DataType /\ QueueInv /\ Numbered /\ Escalates /\ HolderInv
    /\ LockInv' <=> DataType' /\ QueueInv' /\ Numbered' /\ Escalates' /\ HolderInv'
<1>1. TypeOK' <=> DataType' /\ QueueInv'
  <2>1. LockType' <=> HolderType' /\ QueueInv'
    BY DEF LockType, HolderType, QueueInv, NoRepeats, Among
  <2> QED
    BY <2>1 DEF TypeOK, DataType, TaskType, ReaderType, SweepType, PairType
<1> QED
  BY <1>1, TypeOKParts DEF LockInv, HolderInv

LEMMA InitLockInv == Init => LockInv
<1> SUFFICES ASSUME Init PROVE LockInv
  OBVIOUS
<1>1. DataType
  BY InitDataType
<1>2. QueueInv
  BY DEF Init, QueueInv, NoRepeats, Among
<1>3. Numbered /\ Escalates
  BY DEF Init, Numbered, Escalates, ReaderIdle, SweepIdle, NoConn, Pairs
<1>4. HolderInv
  BY DEF Init, HolderInv, LockIsReleased, SparesHold, ReaderIdle
<1> QED
  BY <1>1, <1>2, <1>3, <1>4, LockInvParts

LEMMA NextLockInv == LockInv /\ [Next]_vars => LockInv'
  BY LockInvParts, NextDataType, NextNumbered, NextEscalates, NextLock

\* The inductive invariant everything below builds on: types, connection numbers,
\* and who may hold the lock.
THEOREM LockCorrect == Spec => []LockInv
  BY InitLockInv, NextLockInv, PTL DEF Spec

\* Every variable stays within its type, and whoever queues for the lock is
\* suspended where it wants it: cancelled tasks leave the queue.
THEOREM TypeCorrect == Spec => []TypeOK
<1>1. LockInv => TypeOK
  BY DEF LockInv
<1> QED
  BY <1>1, LockCorrect, PTL

\* The lock's holder awaits nothing but the close of its own spare connection.
THEOREM LockAlwaysReleased == Spec => []LockIsReleased
<1>1. LockInv => LockIsReleased
  BY DEF LockInv
<1> QED
  BY <1>1, LockCorrect, PTL

-------------------------------------------------------------------------------
(* What a step does to the streams: nothing, a refusal, the opening of one *)
(* stream, or the end of one or of all, with their terminal items.         *)

Unseen == /\ UNCHANGED <<closed, regs, ends>>
          /\ \A r \in Subs : /\ Returned(r)' <=> Returned(r)
                             /\ caller'[r] = "refused" <=> caller[r] = "refused"

OthersStay(s) == \A r \in Subs \ {s} : caller'[r] = caller[r]

Refuses(s) == /\ ~Returned(s) /\ caller[s] # "refused" /\ caller'[s] = "refused"
              /\ OthersStay(s) /\ UNCHANGED <<closed, regs, ends>>

Opens(s) == /\ caller[s] = "insert" /\ caller'[s] = "live" /\ OthersStay(s)
            /\ ~closed /\ regs' = regs \cup {s} /\ UNCHANGED <<closed, ends>>

Pops(S) == /\ S \subseteq regs /\ regs' = regs \ S /\ UNCHANGED caller
           /\ \A s \in Subs : ends'[s] = IF s \in S THEN ends[s] + 1 ELSE ends[s]

LEMMA StepKinds ==
    DataType /\ [Next]_vars =>
        \/ Unseen
        \/ \E s \in Subs : Refuses(s) \/ Opens(s) \/ (Pops({s}) /\ UNCHANGED closed)
        \/ Pops(regs) /\ UNCHANGED closed
        \/ Pops(regs) /\ ~closed /\ closed' = TRUE
<1> DEFINE Kind ==
        \/ Unseen
        \/ \E s \in Subs : Refuses(s) \/ Opens(s) \/ (Pops({s}) /\ UNCHANGED closed)
        \/ Pops(regs) /\ UNCHANGED closed
        \/ Pops(regs) /\ ~closed /\ closed' = TRUE
<1> SUFFICES ASSUME DataType, [Next]_vars PROVE Kind
  OBVIOUS
<1>1. /\ caller \in [Subs -> CallerStates] /\ regs \subseteq Subs
      /\ ends \in [Subs -> Nat]
  BY DEF DataType, UserType, RegType, SeenType
<1>2. ASSUME UNCHANGED <<closed, regs, ends, caller>> PROVE Kind
  BY <1>2 DEF Unseen, Returned
<1>3. ASSUME NEW s \in Subs, Forget(s), UNCHANGED <<closed, caller>> PROVE Kind
  <2>1. CASE s \in regs
    BY <1>1, <1>3, <2>1 DEF Forget, Pops
  <2>2. CASE s \notin regs
    <3>1. UNCHANGED <<regs, ends>>
      BY <1>3, <2>2 DEF Forget
    <3> QED
      BY <1>2, <1>3, <3>1
  <2> QED
    BY <2>1, <2>2
<1>4. ASSUME EndAll, UNCHANGED caller PROVE Pops(regs)
  BY <1>1, <1>4 DEF EndAll, Pops
<1>5. ASSUME NEW s, NEW old, NEW new, NEW reset, Settle(s, old, new, reset),
             UNCHANGED <<closed, caller>>
      PROVE  Kind
  BY <1>1, <1>2, <1>3, <1>5 DEF Settle
\* A subscribe() call that goes on, or is refused.
<1>6. ASSUME NEW s \in Subs, UNCHANGED <<closed, regs, ends>>, OthersStay(s),
             caller[s] \in {"new", "connect", "connected", "redundant", "rest", "insert"},
             caller'[s] \in {"connect", "connected", "redundant", "rest", "insert",
                             "refused"}
      PROVE  Kind
  <2>1. CASE caller'[s] = "refused"
    BY <1>6, <2>1 DEF Refuses, Returned
  <2>2. CASE caller'[s] # "refused"
    BY <1>6, <2>2 DEF Unseen, Returned, OthersStay
  <2> QED
    BY <2>1, <2>2
<1>7. ASSUME NEW s \in Subs,
             CheckOpen(s) \/ ConnectFailed(s) \/ RedundantClosed(s) \/ RestSubscribe(s)
             \/ Cancel(s)
      PROVE  Kind
  <2>1. /\ UNCHANGED <<closed, regs, ends>>
        /\ caller[s] \in {"new", "connect", "connected", "redundant", "rest", "insert"}
    BY <1>7 DEF CheckOpen, ConnectFailed, RedundantClosed, RestSubscribe, Cancel
  <2>2. \E pc \in {"connect", "connected", "redundant", "rest", "insert", "refused"} :
            caller' = [caller EXCEPT ![s] = pc]
    BY <1>7 DEF CheckOpen, ConnectFailed, RedundantClosed, RestSubscribe, Cancel
  <2> QED
    BY <1>1, <1>6, <2>1, <2>2 DEF OthersStay
<1>8. ASSUME NEW s \in Subs, Connected(s) \/ ConnectedResumes(s) PROVE Kind
  <2>1. /\ UNCHANGED <<closed, regs, ends>> /\ caller[s] \in {"connect", "connected"}
        /\ \E pc \in {"connected", "redundant", "rest"} :
               caller' = [caller EXCEPT ![s] = pc]
    BY <1>8 DEF Connected, ConnectedResumes, SettleConnection
  <2> QED
    BY <1>1, <1>6, <2>1 DEF OthersStay
<1>9. ASSUME NEW s \in Subs, Insert(s) PROVE Kind
  <2>1. /\ caller[s] = "insert" /\ UNCHANGED <<closed, ends>>
    BY <1>9 DEF Insert
  <2>2. CASE closed /\ UNCHANGED regs /\ caller' = [caller EXCEPT ![s] = "refused"]
    BY <1>1, <1>6, <2>1, <2>2 DEF OthersStay
  <2>3. CASE /\ ~closed /\ regs' = regs \cup {s}
             /\ caller' = [caller EXCEPT ![s] = "live"]
    BY <1>1, <2>1, <2>3 DEF Opens, OthersStay
  <2> QED
    BY <1>9, <2>2, <2>3 DEF Insert
\* The user's side.
<1>10. ASSUME NEW s \in Subs, Abandon(s) PROVE Kind
  BY <1>1, <1>10 DEF Abandon, Unseen, Returned
<1>11. ASSUME NEW s \in Subs, CloseOne(s) \/ DropRegistration(s) PROVE Kind
  BY <1>3, <1>11 DEF CloseOne, DropRegistration
<1>12. ASSUME NEW s \in Subs, ManualRefresh(s) PROVE Kind
  BY <1>2, <1>12 DEF ManualRefresh
<1>13. CASE CloseAllSubscriptions
  BY <1>4, <1>13 DEF CloseAllSubscriptions
<1>14. CASE AClose
  BY <1>4, <1>14 DEF AClose
\* The background tasks and the network.
<1>15. ASSUME NEW p \in Pairs,
              ReaderTop(p) \/ ReaderLost(p) \/ ReaderConnectFailed(p) \/ ReaderGiveUp(p)
              \/ ReaderConnected(p) \/ ReaderConnectedResumes(p) \/ ReaderDiscarded(p)
              \/ ReaderResub(p) \/ ReaderRecv(p) \/ ReaderCrash(p)
       PROVE  Kind
  BY <1>2, <1>15
  DEF ReaderTop, ReaderLost, ReaderConnectFailed, ReaderGiveUp, ReaderConnected,
      ReaderConnectedResumes, AdoptReconnect, ReaderDiscarded, ReaderResub, ReaderRecv,
      ReaderCrash
<1>16. ASSUME NEW p \in Pairs, ReaderFailAll(p) \/ SweepFailAll(p) PROVE Kind
  BY <1>4, <1>16 DEF ReaderFailAll, SweepFailAll, FailAll
<1>17. ASSUME NEW p \in Pairs, ReaderAdopt(p) \/ SweepAdopt(p) PROVE Kind
  BY <1>5, <1>17 DEF ReaderAdopt, SweepAdopt
<1>18. ASSUME NEW p \in Pairs,
              \/ \E S \in SUBSET Subs : SweepTick(p, S)
              \/ \E s \in Subs, ok \in BOOLEAN : SweepRefresh(p, s, ok)
              \/ SweepEscalate(p) \/ SweepCrash(p)
       PROVE  Kind
  BY <1>2, <1>18, ZenonT(60) DEF SweepTick, SweepRefresh, SweepEscalate, SweepCrash
<1>19. ASSUME NEW c, CloseConn(c) \/ Disconnect(c) PROVE Kind
  BY <1>2, <1>19 DEF CloseConn, Disconnect
<1>20. ASSUME NEW t, Wait(t) PROVE Kind
  BY <1>2, <1>20 DEF Wait
<1>21. CASE UNCHANGED vars
  BY <1>2, <1>21 DEF vars
<1> HIDE DEF Kind
<1> QED
  BY <1>7, <1>8, <1>9, <1>10, <1>11, <1>12, <1>13, <1>14, <1>15, <1>16, <1>17, <1>18,
     <1>19, <1>20, <1>21
  DEF Next, SubStep, UserStep, ReaderStep, SweepStep

\* A registration that is popped gives its queue one terminal item, the only one.
LEMMA NextEndedOnce == DataType /\ EndedOnce /\ [Next]_vars => EndedOnce'
<1> SUFFICES ASSUME DataType, EndedOnce, [Next]_vars PROVE EndedOnce'
  OBVIOUS
<1>1. regs \subseteq Subs
  BY DEF DataType, RegType
<1>2. CASE Unseen
  BY <1>2 DEF EndedOnce, Unseen
<1>3. ASSUME NEW s \in Subs, Refuses(s) PROVE EndedOnce'
  BY <1>3 DEF EndedOnce, Refuses, OthersStay, Returned
<1>4. ASSUME NEW s \in Subs, Opens(s) PROVE EndedOnce'
  BY <1>4 DEF EndedOnce, Opens, OthersStay, Returned
<1>5. ASSUME NEW S, Pops(S) PROVE EndedOnce'
  BY <1>1, <1>5 DEF EndedOnce, Pops, Returned
<1> QED
  BY <1>2, <1>3, <1>4, <1>5, StepKinds

\* EndedOnce holds in every state.
LEMMA EndsExactlyOnce == Spec => []EndedOnce
<1>1. Init => EndedOnce
  BY DEF Init, EndedOnce, Returned
<1>2. LockInv => DataType
  BY LockInvParts
<1> QED
  BY <1>1, <1>2, NextEndedOnce, LockCorrect, PTL DEF Spec

-------------------------------------------------------------------------------
(* The refinement: each step is a step of the promise or none.             *)

Phases == [s \in Subs |-> Phase(s)]

PhaseByCase(s) ==
    IF caller[s] = "refused" THEN "refused"
    ELSE IF ~Returned(s) THEN "unborn"
    ELSE IF s \in regs THEN "open"
    ELSE IF ends[s] = 1 THEN "ended" ELSE "ending"

LEMMA PhaseCases ==
    /\ \A s : Phase(s) = PhaseByCase(s)
    /\ \A s : Phase(s)' = PhaseByCase(s)'
<1>1. \A s : Phase(s) = PhaseByCase(s)
  BY DEF Phase, PhaseByCase, Returned
<1>2. \A s : Phase(s)' = PhaseByCase(s)'
  BY DEF Phase, PhaseByCase, Returned
<1> QED
  BY <1>1, <1>2

\* The open streams are the registered ones.
LEMMA OpenIsRegistered == DataType /\ EndedOnce => Promise!OpenSubs = regs
<1> SUFFICES ASSUME DataType, EndedOnce PROVE Promise!OpenSubs = regs
  OBVIOUS
<1>1. ASSUME NEW s \in Subs PROVE Phase(s) = "open" <=> s \in regs
  BY PhaseCases DEF PhaseByCase, EndedOnce, Returned
<1> QED
  BY <1>1 DEF Promise!OpenSubs, DataType, RegType

LEMMA StepImplements ==
    DataType /\ EndedOnce /\ [Next]_vars => [Promise!Next]_(Promise!vars)
<1> SUFFICES ASSUME DataType, EndedOnce, [Next]_vars
             PROVE  [Promise!Next]_(Promise!vars)
  OBVIOUS
<1>1. ASSUME Unseen PROVE UNCHANGED Promise!vars
  <2>1. \A s \in Subs : Phase(s)' = Phase(s)
    BY <1>1, PhaseCases DEF PhaseByCase, Unseen
  <2> QED
    BY <1>1, <2>1 DEF Promise!vars, Unseen
<1>2. ASSUME NEW s \in Subs, Refuses(s) PROVE Promise!Refuse(s)
  <2>1. Phase(s) = "unborn" /\ Phase(s)' = "refused"
    BY <1>2, PhaseCases DEF PhaseByCase, Refuses
  <2>2. \A r \in Subs \ {s} : Phase(r)' = Phase(r)
    BY <1>2, PhaseCases DEF PhaseByCase, Refuses, OthersStay, Returned
  <2>3. Phases' = [Phases EXCEPT ![s] = "refused"]
    BY <2>1, <2>2 DEF Phases
  <2> QED
    BY <1>2, <2>1, <2>3 DEF Promise!Refuse, Phases, Refuses
<1>3. ASSUME NEW s \in Subs, Opens(s) PROVE Promise!Open(s)
  <2>1. Phase(s) = "unborn" /\ Phase(s)' = "open"
    BY <1>3, PhaseCases DEF PhaseByCase, Opens, Returned
  <2>2. \A r \in Subs \ {s} : Phase(r)' = Phase(r)
    BY <1>3, PhaseCases DEF PhaseByCase, Opens, OthersStay, Returned
  <2>3. Phases' = [Phases EXCEPT ![s] = "open"]
    BY <2>1, <2>2 DEF Phases
  <2> QED
    BY <1>3, <2>1, <2>3 DEF Promise!Open, Phases, Opens
<1>4. ASSUME NEW S, Pops(S) PROVE S \subseteq Promise!OpenSubs /\ Promise!Ending(S)
  <2>1. S \subseteq Promise!OpenSubs
    BY <1>4, OpenIsRegistered DEF Pops
  <2>2. ASSUME NEW s \in Subs PROVE Phase(s)' = IF s \in S THEN "ended" ELSE Phase(s)
    <3>1. CASE s \in S
      <4>1. Returned(s) /\ ends[s] = 0 /\ s \in regs
        BY <1>4, <3>1 DEF Pops, EndedOnce
      <4>2. caller'[s] = caller[s] /\ ends'[s] = 1 /\ s \notin regs'
        BY <1>4, <3>1, <4>1 DEF Pops
      <4> QED
        BY <3>1, <4>1, <4>2, PhaseCases DEF PhaseByCase, Returned
    <3>2. CASE s \notin S
      BY <1>4, <3>2, PhaseCases DEF PhaseByCase, Returned, Pops
    <3> QED
      BY <3>1, <3>2
  <2>3. Phases' = [s \in Subs |-> IF s \in S THEN "ended" ELSE Phases[s]]
    BY <2>2 DEF Phases
  <2> QED
    BY <2>1, <2>3 DEF Promise!Ending, Phases
<1>5. ASSUME NEW s \in Subs, Pops({s}), UNCHANGED closed PROVE Promise!End({s})
  BY <1>4, <1>5 DEF Promise!End
<1>6. ASSUME Pops(regs), UNCHANGED closed PROVE Promise!End(Promise!OpenSubs)
  BY <1>4, <1>6, OpenIsRegistered DEF Promise!End
<1>7. ASSUME Pops(regs), ~closed, closed' = TRUE PROVE Promise!Shutdown
  BY <1>4, <1>7, OpenIsRegistered DEF Promise!Shutdown
<1> QED
  BY <1>1, <1>2, <1>3, <1>5, <1>6, <1>7, StepKinds DEF Promise!Next

\* Whatever the event loop interleaves, and whoever is cancelled or crashes, the
\* asyncio socket behaves to its users as Subscriptions says: a stream opens
\* only while the socket is open, ends once, with its terminal item in the same
\* step, and aclose() ends all of them at once.
THEOREM ImplementsPromise == Spec => KeepsPromise
<1>1. Init => Promise!Init
  BY PhaseCases DEF Init, Promise!Init, PhaseByCase, Returned
<1>2. LockInv => DataType
  BY LockInvParts
<1> QED
  BY <1>1, <1>2, StepImplements, LockCorrect, EndsExactlyOnce, PTL
  DEF Spec, Promise!Spec, KeepsPromise

-------------------------------------------------------------------------------
(* The demux table.                                                        *)

Holds(s) == s \in regs \/ caller[s] = "insert"

RouteIsTable == route = {<<wire[s], s>> : s \in regs}

LEMMA OwnsOf ==
    /\ \A s : Owns(Sub(s)) = SubWires(s)
    /\ \A p : Owns(Reader(p)) = ReaderWires(p) /\ Owns(Sweep(p)) = SweepWires(p)
    /\ \A s : Owns(Sub(s))' = SubWires(s)'
    /\ \A p : Owns(Reader(p))' = ReaderWires(p)' /\ Owns(Sweep(p))' = SweepWires(p)'
  BY DEF Owns, Sub, Reader, Sweep

LEMMA OwnersOf ==
    /\ \A s \in Subs : Sub(s) \in Owners
    /\ \A p \in Pairs : Reader(p) \in Owners /\ Sweep(p) \in Owners
  BY DEF Owners

\* A step after which every owner other than o owns no more than before, and o
\* only ids never given out, or those of an owner q that has none any more.
LEMMA OwnedByOne ==
    ASSUME WiresOwnedOnce, wires \in Nat, wires' \in Nat, wires' >= wires,
           NEW o \in Owners, NEW q \in Owners,
           \A r \in Owners \ {o} : Owns(r)' \subseteq Owns(r),
           \/ Owns(o)' \subseteq (wires + 1)..wires'
           \/ Owns(o)' \subseteq Owns(o)
           \/ Owns(o)' \subseteq Owns(q) /\ Owns(q)' = {}
    PROVE  WiresOwnedOnce'
<1>1. \A r \in Owners : Owns(r) \subseteq 1..wires'
  BY DEF WiresOwnedOnce
<1>2. \A r \in Owners : Owns(r)' \subseteq 1..wires'
  BY <1>1
<1>3. \A r \in Owners \ {o} : Owns(r)' \cap Owns(o)' = {}
  BY DEF WiresOwnedOnce
<1>4. \A r, t \in Owners \ {o} : r # t => Owns(r)' \cap Owns(t)' = {}
  BY DEF WiresOwnedOnce
<1> QED
  BY <1>2, <1>3, <1>4 DEF WiresOwnedOnce, Owners

\* A step after which no owner owns more than before.
LEMMA OwnedLess ==
    ASSUME WiresOwnedOnce, UNCHANGED wires,
           \A s \in Subs : SubWires(s)' \subseteq SubWires(s),
           \A p \in Pairs : /\ ReaderWires(p)' \subseteq ReaderWires(p)
                            /\ SweepWires(p)' \subseteq SweepWires(p)
    PROVE  WiresOwnedOnce'
<1>1. \A o \in Owners : Owns(o)' \subseteq Owns(o)
  BY OwnsOf DEF Owners
<1>2. Owners' = Owners
  BY DEF Owners, Sub, Reader, Sweep
<1> QED
  BY <1>1, <1>2 DEF WiresOwnedOnce

\* Two registrations never have the same wire id.
LEMMA WiresDiffer ==
    ASSUME WiresOwnedOnce, NEW s \in Subs, NEW r \in Subs, Holds(s), Holds(r),
           wire[s] = wire[r]
    PROVE  s = r
<1>1. Owns(Sub(s)) \cap Owns(Sub(r)) # {}
  BY OwnsOf DEF SubWires, Holds
<1> QED
  BY <1>1, OwnersOf, TasksDiffer DEF WiresOwnedOnce

\* A step that leaves the registrations, their wire ids and the table alone.
LEMMA TableKept ==
    ASSUME RouteIsTable, UNCHANGED <<regs, route>>,
           \A s \in regs : wire'[s] = wire[s]
    PROVE  RouteIsTable'
  BY DEF RouteIsTable

\* Dropping the pairs of wire[s] from the table unmaps s and nobody else.
LEMMA Unmapped ==
    ASSUME RegType, RouteInv, NEW s \in regs
    PROVE  {r \in route : r[1] # wire[s]} = {<<wire[t], t>> : t \in regs \ {s}}
<1>1. \A t \in regs : wire[t] = wire[s] => t = s
  BY WiresDiffer DEF Holds, RegType, RouteInv
<1> QED
  BY <1>1 DEF RouteInv

LEMMA NextRouteInv ==
    DataType /\ EndedOnce /\ RouteInv /\ [Next]_vars => RouteInv'
<1> SUFFICES ASSUME DataType, EndedOnce, RouteInv, [Next]_vars PROVE RouteInv'
  OBVIOUS
<1>0. wires \in Nat /\ RegType /\ WiresOwnedOnce /\ RouteIsTable
  BY DEF DataType, ApicType, RouteInv, RouteIsTable
<1>1. WiresOwnedOnce' /\ RouteIsTable' => RouteInv'
  BY DEF RouteInv, RouteIsTable
<1>2. /\ caller \in [Subs -> CallerStates] /\ reader \in [Pairs -> ReaderStates]
      /\ sweep \in [Pairs -> SweepStates]
  BY DEF DataType, UserType, ReaderType, SweepType
\* The steps that give no owner a wire id and leave the table alone.
<1>3. ASSUME UNCHANGED <<regs, route, wire, wires>>,
             \A s \in Subs : caller'[s] = "insert" => caller[s] = "insert",
             \A p \in Pairs : /\ ReaderWires(p)' \subseteq ReaderWires(p)
                              /\ SweepWires(p)' \subseteq SweepWires(p)
      PROVE  RouteInv'
  <2>1. \A s \in Subs : SubWires(s)' \subseteq SubWires(s)
    BY <1>3 DEF SubWires
  <2> QED
    BY <1>0, <1>1, <1>3, <2>1, OwnedLess, TableKept
<1>4. ASSUME UNCHANGED <<regs, route, wire, wires, reader, sweep>>,
             \A s \in Subs : caller'[s] = "insert" => caller[s] = "insert"
      PROVE  RouteInv'
  BY <1>3, <1>4 DEF ReaderWires, SweepWires
<1>5. ASSUME UNCHANGED <<regs, route, wire, wires, sweep>>,
             \A s \in Subs : caller'[s] = "insert" => caller[s] = "insert",
             NEW p, NEW r, reader' = [reader EXCEPT ![p] = r], r.pc # "adopt"
      PROVE  RouteInv'
  <2>1. \A q \in Pairs : ReaderWires(q)' \subseteq ReaderWires(q)
    BY <1>2, <1>5 DEF ReaderWires
  <2> QED
    BY <1>3, <1>5, <2>1 DEF SweepWires
<1>6. ASSUME UNCHANGED <<regs, route, wire, wires, caller, reader>>,
             NEW p, NEW r, sweep' = [sweep EXCEPT ![p] = r], r.pc # "adopt"
      PROVE  RouteInv'
  <2>1. \A q \in Pairs : SweepWires(q)' \subseteq SweepWires(q)
    BY <1>2, <1>6 DEF SweepWires
  <2> QED
    BY <1>3, <1>6, <2>1 DEF ReaderWires
<1>7. ASSUME NEW s \in Subs,
             CheckOpen(s) \/ ConnectFailed(s) \/ RedundantClosed(s) \/ Abandon(s)
             \/ ManualRefresh(s) \/ Cancel(s)
      PROVE  RouteInv'
  <2>1. /\ UNCHANGED <<regs, route, wire, wires, reader, sweep>>
        /\ \A r \in Subs : caller'[r] = "insert" => caller[r] = "insert"
    BY <1>2, <1>7 DEF CheckOpen, ConnectFailed, RedundantClosed, Abandon,
                      ManualRefresh, Cancel
  <2> QED
    BY <1>4, <2>1
<1>8. ASSUME NEW s \in Subs, NEW c, SettleConnection(s, c),
             UNCHANGED <<regVars, apicVars>>
      PROVE  RouteInv'
  <2>1. /\ UNCHANGED <<regs, route, wire, wires>>
        /\ \A r \in Subs : caller'[r] = "insert" => caller[r] = "insert"
    BY <1>2, <1>8 DEF SettleConnection
  <2>2. \A p \in Pairs : /\ reader'[p].pc = "adopt" => reader'[p] = reader[p]
                         /\ sweep'[p].pc = "adopt" => sweep'[p] = sweep[p]
    BY <1>2, <1>8 DEF SettleConnection, ReaderStates, SweepStates
  <2> QED
    BY <1>3, <2>1, <2>2 DEF ReaderWires, SweepWires
<1>9. ASSUME NEW s \in Subs, Connected(s) \/ ConnectedResumes(s) PROVE RouteInv'
  <2>1. UNCHANGED <<regVars, apicVars>>
    BY <1>9 DEF Connected, ConnectedResumes
  <2>2. CASE \E c : SettleConnection(s, c)
    BY <1>8, <2>1, <2>2
  <2>3. CASE UNCHANGED taskVars /\ caller' = [caller EXCEPT ![s] = "connected"]
    BY <1>2, <1>4, <2>1, <2>3
  <2> QED
    BY <1>9, <2>2, <2>3 DEF Connected, ConnectedResumes
<1>10. /\ \A pc : ReaderAt(pc).pc = pc /\ SweepAt(pc).pc = pc
       /\ \A pc, c : ReaderWith(pc, c).pc = pc
       /\ \A S : /\ Resubscribing(S).pc \in {"top", "resub"}
                 /\ Passing(S).pc \in {"sleep", "pass"}
  BY DEF ReaderAt, ReaderWith, Resubscribing, ReaderIdle, SweepAt, Passing, SweepIdle
<1>11. ASSUME NEW p \in Pairs,
              ReaderTop(p) \/ ReaderLost(p) \/ ReaderGiveUp(p) \/ ReaderRecv(p)
              \/ ReaderConnected(p) \/ ReaderConnectedResumes(p) \/ ReaderDiscarded(p)
              \/ ReaderCrash(p)
       PROVE  RouteInv'
  <2>1. UNCHANGED <<regs, route, wire, wires, sweep, caller>>
    BY <1>11
    DEF ReaderTop, ReaderLost, ReaderGiveUp, ReaderRecv, ReaderConnected,
        ReaderConnectedResumes, ReaderDiscarded, ReaderCrash
  <2>2. \E r : reader' = [reader EXCEPT ![p] = r] /\ r.pc # "adopt"
    <3>1. CASE ReaderTop(p)
      <4> DEFINE r == IF Superseded(p) THEN ReaderAt("done")
                      ELSE IF ws = NoConn THEN ReaderAt("failall")
                      ELSE ReaderWith("recv", ws)
      <4>1. reader' = [reader EXCEPT ![p] = r] /\ r.pc # "adopt"
        BY <1>10, <3>1 DEF ReaderTop
      <4> QED
        BY <4>1
    <3>2. CASE ReaderConnected(p) \/ ReaderConnectedResumes(p)
      BY <1>10, <3>2 DEF ReaderConnected, ReaderConnectedResumes, AdoptReconnect
    <3>3. CASE ReaderLost(p) \/ ReaderGiveUp(p) \/ ReaderRecv(p) \/ ReaderDiscarded(p)
               \/ ReaderCrash(p)
      <4>1. \E pc \in {"done", "connect", "failall", "top"} :
                reader' = [reader EXCEPT ![p] = ReaderAt(pc)]
        BY <3>3 DEF ReaderLost, ReaderGiveUp, ReaderRecv, ReaderDiscarded, ReaderCrash
      <4> QED
        BY <1>10, <4>1
    <3> QED
      BY <1>11, <3>1, <3>2, <3>3
  <2> QED
    BY <1>5, <2>1, <2>2
<1>12. ASSUME NEW p \in Pairs, ReaderConnectFailed(p) PROVE RouteInv'
  <2>1. /\ UNCHANGED <<regs, route, wire, wires, sweep, caller>>
        /\ \A q \in Pairs : reader'[q].pc = "adopt" => reader'[q] = reader[q]
    BY <1>2, <1>12 DEF ReaderConnectFailed, ReaderStates
  <2> QED
    BY <1>3, <2>1 DEF ReaderWires, SweepWires
<1>13. ASSUME NEW p \in Pairs, NEW S, SweepTick(p, S) PROVE RouteInv'
  <2>1. UNCHANGED <<regs, route, wire, wires, caller, reader>>
    BY <1>13 DEF SweepTick
  <2> DEFINE r == IF Superseded(p) \/ dead THEN SweepAt("done") ELSE Passing(S)
  <2>2. sweep' = [sweep EXCEPT ![p] = r] /\ r.pc # "adopt"
    BY <1>10, <1>13 DEF SweepTick
  <2> HIDE DEF r
  <2> QED
    BY <1>6, <2>1, <2>2
<1>14. ASSUME NEW p \in Pairs, NEW s \in Subs, NEW ok, SweepRefresh(p, s, ok)
       PROVE  RouteInv'
  <2>1. UNCHANGED <<regs, route, wire, wires, caller, reader>>
    BY <1>14 DEF SweepRefresh
  <2> DEFINE moved == [SweepIdle EXCEPT !.pc = "escalate", !.sub = s,
                                        !.due = sweep[p].due \ {s}]
  <2>2. moved.pc = "escalate"
    BY DEF SweepIdle
  <2>3. \E r : sweep' = [sweep EXCEPT ![p] = r] /\ r.pc # "adopt"
    BY <1>10, <1>14, <2>2 DEF SweepRefresh
  <2> QED
    BY <1>6, <2>1, <2>3
<1>15. ASSUME NEW p \in Pairs, SweepCrash(p) PROVE RouteInv'
  BY <1>6, <1>10, <1>15, ZenonT(60) DEF SweepCrash
<1>16. ASSUME NEW t, Wait(t) PROVE RouteInv'
  BY <1>4, <1>16 DEF Wait
<1>17. ASSUME NEW c, CloseConn(c) \/ Disconnect(c) PROVE RouteInv'
  BY <1>4, <1>17 DEF CloseConn, Disconnect
<1>18. CASE UNCHANGED vars
  BY <1>4, <1>18 DEF vars
\* The answers of the APIC: a new wire id gets one owner.
<1>19. ASSUME NEW s \in Subs, RestSubscribe(s) PROVE RouteInv'
  <2>1. s \notin regs /\ caller[s] = "rest"
    BY <1>19 DEF RestSubscribe, EndedOnce, Returned
  <2>2. UNCHANGED <<regs, route, reader, sweep>>
    BY <1>19 DEF RestSubscribe
  <2>3. CASE UNCHANGED <<wire, wires>> /\ caller' = [caller EXCEPT ![s] = "refused"]
    BY <1>2, <1>4, <2>2, <2>3
  <2>4. CASE wires' = wires + 1 /\ wire' = [wire EXCEPT ![s] = wires + 1]
             /\ caller' = [caller EXCEPT ![s] = "insert"]
    <3>1. \A r \in Subs \ {s} : wire'[r] = wire[r] /\ caller'[r] = caller[r]
      BY <1>0, <1>2, <2>4 DEF RegType
    <3>2. RouteIsTable'
      BY <1>0, <2>1, <2>2, <3>1, TableKept DEF RegType
    <3>3. SubWires(s)' = {wires + 1}
      BY <1>0, <1>2, <2>4 DEF SubWires, RegType
    <3>4. \A r \in Subs \ {s} : SubWires(r)' = SubWires(r)
      BY <2>2, <3>1 DEF SubWires
    <3>5. \A o \in Owners \ {Sub(s)} : Owns(o)' \subseteq Owns(o)
      BY <2>2, <3>4, OwnsOf DEF Owners, ReaderWires, SweepWires
    <3>6. Owns(Sub(s))' \subseteq (wires + 1)..wires'
      BY <1>0, <2>4, <3>3, OwnsOf
    <3>7. Sub(s) \in Owners /\ wires' \in Nat /\ wires' >= wires
      BY <1>0, <2>4, OwnersOf
    <3>8. WiresOwnedOnce'
      BY <1>0, <3>5, <3>6, <3>7, OwnedByOne
    <3> QED
      BY <1>1, <3>2, <3>8
  <2> QED
    BY <1>19, <2>3, <2>4 DEF RestSubscribe, Grant
<1>20. ASSUME NEW p \in Pairs, ReaderResub(p) PROVE RouteInv'
  <2>1. UNCHANGED <<regs, route, wire, caller, sweep>>
    BY <1>20 DEF ReaderResub
  <2>2. PICK answer \in 0..MaxWire :
           /\ Resubscribe(answer)
           /\ \E s \in reader[p].todo :
                 reader' = [reader EXCEPT ![p].pc = "adopt", ![p].todo = @ \ {s},
                              ![p].sub = s, ![p].old = wire[s], ![p].new = answer]
    BY <1>20 DEF ReaderResub
  <2>3. ReaderWires(p)' = {answer} \ {NoWire}
    BY <1>2, <2>2 DEF ReaderWires, ReaderStates
  <2>4. \A q \in Pairs \ {p} : ReaderWires(q)' = ReaderWires(q)
    BY <1>2, <2>2 DEF ReaderWires
  <2>5. \A o \in Owners \ {Reader(p)} : Owns(o)' \subseteq Owns(o)
    BY <2>1, <2>4, OwnsOf DEF Owners, SubWires, SweepWires
  <2>6. /\ wires' \in Nat /\ wires' >= wires
        /\ Owns(Reader(p))' \subseteq (wires + 1)..wires'
    BY <1>0, <2>2, <2>3, OwnsOf DEF Resubscribe, Grant
  <2>7. WiresOwnedOnce'
    BY <1>0, <2>5, <2>6, OwnersOf, OwnedByOne
  <2> QED
    BY <1>0, <1>1, <2>1, <2>7, TableKept
<1>21. ASSUME NEW p \in Pairs, SweepEscalate(p) PROVE RouteInv'
  <2>1. UNCHANGED <<regs, route, wire, caller, reader>>
    BY <1>21 DEF SweepEscalate
  <2>2. PICK answer \in 0..MaxWire :
           /\ Resubscribe(answer)
           /\ sweep' = [sweep EXCEPT ![p].pc = "adopt", ![p].new = answer,
                                     ![p].old = wire[sweep[p].sub]]
    BY <1>21 DEF SweepEscalate
  <2>3. SweepWires(p)' = {answer} \ {NoWire}
    BY <1>2, <2>2 DEF SweepWires, SweepStates
  <2>4. \A q \in Pairs \ {p} : SweepWires(q)' = SweepWires(q)
    BY <1>2, <2>2 DEF SweepWires
  <2>5. \A o \in Owners \ {Sweep(p)} : Owns(o)' \subseteq Owns(o)
    BY <2>1, <2>4, OwnsOf DEF Owners, SubWires, ReaderWires
  <2>6. /\ wires' \in Nat /\ wires' >= wires
        /\ Owns(Sweep(p))' \subseteq (wires + 1)..wires'
    BY <1>0, <2>2, <2>3, OwnsOf DEF Resubscribe, Grant
  <2>7. WiresOwnedOnce'
    BY <1>0, <2>5, <2>6, OwnersOf, OwnedByOne
  <2> QED
    BY <1>0, <1>1, <2>1, <2>7, TableKept
\* Registering: the id stays with the same owner.
<1>22. ASSUME NEW s \in Subs, Insert(s) PROVE RouteInv'
  <2>1. UNCHANGED <<wire, wires, reader, sweep>>
    BY <1>22 DEF Insert
  <2>2. \A r \in Subs : Holds(r)' => Holds(r)
    BY <1>2, <1>22 DEF Insert, Holds
  <2>3. \A r \in Subs : SubWires(r)' \subseteq SubWires(r)
    BY <2>1, <2>2 DEF SubWires, Holds
  <2>4. WiresOwnedOnce'
    BY <1>0, <2>1, <2>3, OwnedLess DEF ReaderWires, SweepWires
  <2>5. RouteIsTable'
    BY <1>0, <1>22 DEF Insert, RouteIsTable
  <2> QED
    BY <1>1, <2>4, <2>5
\* Popping.
<1>23. ASSUME NEW S, regs' = regs \ S, RouteIsTable', UNCHANGED <<wire, wires, caller>>,
              \A p \in Pairs : /\ ReaderWires(p)' \subseteq ReaderWires(p)
                               /\ SweepWires(p)' \subseteq SweepWires(p)
       PROVE  RouteInv'
  <2>1. \A s \in Subs : SubWires(s)' \subseteq SubWires(s)
    BY <1>23 DEF SubWires
  <2> QED
    BY <1>0, <1>1, <1>23, <2>1, OwnedLess
<1>24. ASSUME NEW s, Forget(s) PROVE RouteIsTable' /\ regs' = regs \ {s} /\ UNCHANGED wire
  <2>1. CASE s \in regs
    BY <1>0, <1>24, <2>1, Unmapped DEF Forget, RouteIsTable
  <2>2. CASE s \notin regs
    BY <1>0, <1>24, <2>2 DEF Forget, RouteIsTable
  <2> QED
    BY <2>1, <2>2
<1>25. ASSUME NEW s \in Subs, CloseOne(s) \/ DropRegistration(s) PROVE RouteInv'
  <2>1. UNCHANGED <<wires, caller, reader, sweep>> /\ Forget(s)
    BY <1>25 DEF CloseOne, DropRegistration
  <2> QED
    BY <1>23, <1>24, <2>1 DEF ReaderWires, SweepWires
<1>26. ASSUME EndAll, UNCHANGED <<wires, caller>>,
              \A p \in Pairs : /\ reader'[p].pc = "adopt" => reader'[p] = reader[p]
                               /\ sweep'[p].pc = "adopt" => sweep'[p] = sweep[p]
       PROVE  RouteInv'
  <2>1. regs' = regs \ regs /\ UNCHANGED wire /\ RouteIsTable'
    BY <1>26 DEF EndAll, RouteIsTable
  <2>2. \A p \in Pairs : /\ ReaderWires(p)' \subseteq ReaderWires(p)
                         /\ SweepWires(p)' \subseteq SweepWires(p)
    BY <1>26 DEF ReaderWires, SweepWires
  <2> QED
    BY <1>23, <1>26, <2>1, <2>2
<1>27. CASE CloseAllSubscriptions
  BY <1>26, <1>27 DEF CloseAllSubscriptions
<1>28. CASE AClose
  <2>1. EndAll /\ UNCHANGED <<wires, caller>>
    BY <1>28 DEF AClose
  <2>2. \A p \in Pairs : /\ reader'[p] \in {reader[p], ReaderAt("done")}
                         /\ sweep'[p] \in {sweep[p], SweepAt("done")}
    BY <1>28 DEF AClose
  <2> QED
    BY <1>10, <1>26, <2>1, <2>2
<1>29. ASSUME NEW p \in Pairs, ReaderFailAll(p) \/ SweepFailAll(p) PROVE RouteInv'
  <2>1. EndAll /\ UNCHANGED <<wires, caller>>
    BY <1>29 DEF ReaderFailAll, SweepFailAll, FailAll
  <2>2. \A q \in Pairs : /\ reader'[q] \in {reader[q], ReaderAt("done")}
                         /\ sweep'[q] \in {sweep[q], SweepAt("done")}
    BY <1>2, <1>29 DEF ReaderFailAll, SweepFailAll
  <2> QED
    BY <1>10, <1>26, <2>1, <2>2
\* Adopting a resubscribe's answer: its id passes from the task to s.
<1>30. ASSUME NEW t \in Owners, NEW s, NEW new,
              \/ \E reset : Settle(s, wire[s], new, reset)
              \/ UNCHANGED <<regVars, ends, late>>,
              UNCHANGED <<wires, caller>>, {new} \ {NoWire} \subseteq Owns(t),
              Owns(t)' = {}, \A r : t # Sub(r),
              \A p \in Pairs : /\ ReaderWires(p)' \subseteq ReaderWires(p)
                               /\ SweepWires(p)' \subseteq SweepWires(p)
       PROVE  RouteInv'
  <2>1. CASE UNCHANGED <<regVars, ends, late>>
    BY <1>3, <1>30, <2>1
  <2>2. CASE Forget(s)
    BY <1>23, <1>24, <1>30, <2>2
  <2>3. CASE /\ s \in regs /\ new # NoWire /\ UNCHANGED regs
             /\ route' = {r \in route : r[1] # wire[s]} \cup {<<new, s>>}
             /\ wire' = [wire EXCEPT ![s] = new]
    <3>1. s \in Subs
      BY <1>0, <2>3 DEF RegType
    <3>2. wire'[s] = new /\ \A r \in Subs \ {s} : wire'[r] = wire[r]
      BY <1>0, <2>3, <3>1 DEF RegType
    <3>3. route' = {<<wire[r], r>> : r \in regs \ {s}} \cup {<<new, s>>}
      BY <1>0, <2>3, Unmapped
    <3>4. RouteIsTable'
      BY <1>0, <2>3, <3>1, <3>2, <3>3 DEF RouteIsTable, RegType
    <3>5. \A r \in Subs \ {s} : SubWires(r)' = SubWires(r)
      BY <1>30, <2>3, <3>2 DEF SubWires
    <3>6. SubWires(s)' \subseteq Owns(t)
      BY <1>30, <2>3, <3>2 DEF SubWires
    <3>7. \A o \in Owners \ {Sub(s)} : Owns(o)' \subseteq Owns(o)
      BY <1>30, <3>5, OwnsOf DEF Owners
    <3>8. Owns(Sub(s))' \subseteq Owns(t) /\ Sub(s) \in Owners
      BY <3>1, <3>6, OwnersOf, OwnsOf
    <3>9. WiresOwnedOnce'
      BY <1>0, <1>30, <3>7, <3>8, OwnedByOne
    <3> QED
      BY <1>1, <3>4, <3>9
  <2> QED
    BY <1>30, <2>1, <2>2, <2>3 DEF Settle
<1>31. ASSUME NEW p \in Pairs, ReaderAdopt(p) PROVE RouteInv'
  <2> DEFINE s == reader[p].sub
  <2>1. /\ UNCHANGED <<wires, caller, sweep>>
        /\ Settle(s, reader[p].old, reader[p].new, FALSE)
        /\ reader' = [reader EXCEPT ![p] = Resubscribing(reader[p].todo)]
        /\ reader[p].pc = "adopt"
    BY <1>31 DEF ReaderAdopt
  <2>2. \/ \E reset : Settle(s, wire[s], reader[p].new, reset)
        \/ UNCHANGED <<regVars, ends, late>>
    BY <2>1 DEF Settle
  <2>3. Owns(Reader(p)) = {reader[p].new} \ {NoWire} /\ Owns(Reader(p))' = {}
    BY <1>2, <1>10, <2>1, OwnsOf DEF ReaderWires
  <2>4. \A q \in Pairs : /\ ReaderWires(q)' \subseteq ReaderWires(q)
                         /\ SweepWires(q)' \subseteq SweepWires(q)
    BY <1>2, <1>10, <2>1 DEF ReaderWires, SweepWires
  <2>5. Reader(p) \in Owners /\ \A r : Reader(p) # Sub(r)
    BY OwnersOf, TasksDiffer
  <2>6. {reader[p].new} \ {NoWire} \subseteq Owns(Reader(p))
    BY <2>3
  <2> HIDE DEF s
  <2> QED
    BY <1>30, <2>1, <2>2, <2>3, <2>4, <2>5, <2>6
<1>32. ASSUME NEW p \in Pairs, SweepAdopt(p) PROVE RouteInv'
  <2> DEFINE s == sweep[p].sub
  <2>1. /\ UNCHANGED <<wires, caller, reader>>
        /\ Settle(s, sweep[p].old, sweep[p].new, TRUE)
        /\ sweep' = [sweep EXCEPT ![p] = Passing(sweep[p].due)]
        /\ sweep[p].pc = "adopt"
    BY <1>32 DEF SweepAdopt
  <2>2. \/ \E reset : Settle(s, wire[s], sweep[p].new, reset)
        \/ UNCHANGED <<regVars, ends, late>>
    BY <2>1 DEF Settle
  <2>3. Owns(Sweep(p)) = {sweep[p].new} \ {NoWire} /\ Owns(Sweep(p))' = {}
    BY <1>2, <1>10, <2>1, OwnsOf DEF SweepWires
  <2>4. \A q \in Pairs : /\ ReaderWires(q)' \subseteq ReaderWires(q)
                         /\ SweepWires(q)' \subseteq SweepWires(q)
    BY <1>2, <1>10, <2>1 DEF ReaderWires, SweepWires
  <2>5. Sweep(p) \in Owners /\ \A r : Sweep(p) # Sub(r)
    BY OwnersOf, TasksDiffer
  <2>6. {sweep[p].new} \ {NoWire} \subseteq Owns(Sweep(p))
    BY <2>3
  <2> HIDE DEF s
  <2> QED
    BY <1>30, <2>1, <2>2, <2>3, <2>4, <2>5, <2>6
<1> QED
  BY <1>7, <1>9, <1>11, <1>12, <1>13, <1>14, <1>15, <1>16, <1>17, <1>18, <1>19, <1>20,
     <1>21, <1>22, <1>25, <1>27, <1>28, <1>29, <1>31, <1>32
  DEF Next, SubStep, UserStep, ReaderStep, SweepStep

LEMMA RouteKept == Spec => []RouteInv
<1>1. Init => RouteInv
  <2> SUFFICES ASSUME Init PROVE RouteInv
    OBVIOUS
  <2>1. \A o \in Owners : Owns(o) = {}
    BY OwnsOf DEF Init, Owners, SubWires, ReaderWires, SweepWires, ReaderIdle, SweepIdle
  <2> QED
    BY <2>1 DEF Init, RouteInv, WiresOwnedOnce
<1>2. LockInv => DataType
  BY LockInvParts
<1> QED
  BY <1>1, <1>2, NextRouteInv, LockCorrect, EndsExactlyOnce, PTL DEF Spec

\* The table a frame's subscriptionId is looked up in always maps the current
\* wire id of each registration to it, to it alone, and nothing else.
THEOREM RouteIsAlwaysInverse == Spec => []RouteIsInverse
<1>1. LockInv => RegType
  BY LockInvParts DEF DataType
<1>2. RegType /\ RouteInv => RouteIsInverse
  BY WiresDiffer DEF RouteInv, RouteIsInverse, Holds, RegType
<1> QED
  BY <1>1, <1>2, LockCorrect, RouteKept, PTL

-------------------------------------------------------------------------------
(* Connections.                                                            *)

\* A step that opens, hands over and replaces no connection, and only lets
\* readers start to receive on the socket or leave what they received on.
CalmReader(p) ==
    \/ reader'[p] = reader[p]
    \/ /\ reader[p].pc \notin {"none", "connected", "discard"}
       /\ \/ reader'[p].pc \notin {"recv", "connect", "connected", "discard"}
          \/ reader'[p].pc = "recv" /\ reader'[p].conn = ws
          \/ /\ reader'[p].pc = "connect"
             /\ \/ reader[p].pc = "connect"
                \/ reader[p].pc = "recv" /\ reader[p].conn \notin up

Calm == /\ UNCHANGED <<closed, gen, ws, genOf, latest, hand, strays>>
        /\ up' \subseteq up /\ closing \cap up' \subseteq closing'
        /\ \A p \in Pairs : CalmReader(p)

LEMMA CalmKeeps == ConnInv /\ Calm => ConnInv'
<1> SUFFICES ASSUME ConnInv, Calm PROVE ConnInv'
  OBVIOUS
<1> USE DEF ConnInv
<1>1. Generations'
  BY DEF Generations, Calm, CalmReader
<1>2. Replaceable'
  BY DEF Replaceable, Calm, CalmReader
<1>3. Parked'
  BY DEF Parked, Calm, CalmReader
<1>4. InHand \subseteq InHand'
  BY DEF InHand, Calm, CalmReader
<1>5. NoLeakedConnection'
  BY <1>4 DEF NoLeakedConnection, Calm
<1> QED
  BY <1>1, <1>2, <1>3, <1>5

LEMMA NextConnInv == LockInv /\ ConnInv /\ [Next]_vars => ConnInv'
<1> SUFFICES ASSUME LockInv, ConnInv, [Next]_vars PROVE ConnInv'
  OBVIOUS
<1>1. DataType /\ Numbered /\ SparesHold
  BY LockInvParts DEF LockInv
<1>2. /\ caller \in [Subs -> CallerStates] /\ hand \in [Subs -> Conns]
      /\ reader \in [Pairs -> ReaderStates] /\ genOf \in [Pairs -> Nat]
      /\ gen \in Nat /\ ws \in Conns /\ conns \in Nat
      /\ up \subseteq 1..conns /\ ws <= conns
  BY <1>1 DEF DataType, UserType, ReaderType, PairType, StateType, NetType, Conns,
              Numbered
<1>3. \A p \in Pairs : reader[p].conn \in Nat /\ reader[p].conn <= conns
  BY <1>1, <1>2 DEF Numbered, ReaderStates, Conns
<1>4. Generations /\ Replaceable /\ Parked /\ NoLeakedConnection
  BY DEF ConnInv
<1>5. /\ \A pc : ReaderAt(pc).pc = pc
      /\ \A pc, c : ReaderWith(pc, c).pc = pc /\ ReaderWith(pc, c).conn = c
      /\ \A S : Resubscribing(S).pc \in {"top", "resub"}
  BY DEF ReaderAt, ReaderWith, Resubscribing, ReaderIdle
\* The calm steps.
<1>6. ASSUME UNCHANGED <<closed, gen, ws, genOf, latest, hand, strays, reader, up, closing>>
      PROVE  ConnInv'
  BY <1>6, CalmKeeps DEF Calm, CalmReader
<1>7. ASSUME NEW s \in Subs,
             CheckOpen(s) \/ ConnectFailed(s) \/ RestSubscribe(s) \/ Insert(s)
             \/ CloseOne(s) \/ Abandon(s) \/ DropRegistration(s) \/ ManualRefresh(s)
      PROVE  ConnInv'
  BY <1>6, <1>7
  DEF CheckOpen, ConnectFailed, RestSubscribe, Insert, CloseOne, Abandon,
      DropRegistration, ManualRefresh
<1>8. CASE CloseAllSubscriptions \/ UNCHANGED vars
  BY <1>6, <1>8 DEF CloseAllSubscriptions, vars
<1>9. ASSUME NEW p \in Pairs,
             \/ \E S \in SUBSET Subs : SweepTick(p, S)
             \/ \E s \in Subs, ok \in BOOLEAN : SweepRefresh(p, s, ok)
             \/ SweepEscalate(p) \/ SweepAdopt(p) \/ SweepCrash(p)
      PROVE  ConnInv'
  BY <1>6, <1>9, ZenonT(60) DEF SweepTick, SweepRefresh, SweepEscalate, SweepAdopt, SweepCrash
<1>10. ASSUME NEW t, Wait(t) PROVE ConnInv'
  BY <1>6, <1>10 DEF Wait
<1>11. ASSUME NEW c, CloseConn(c) \/ Disconnect(c) PROVE ConnInv'
  BY <1>11, CalmKeeps DEF CloseConn, Disconnect, Calm, CalmReader
<1>12. ASSUME NEW p \in Pairs, NEW r, reader' = [reader EXCEPT ![p] = r],
              UNCHANGED <<closed, gen, ws, genOf, latest, hand, strays, up, closing>>,
              reader[p].pc \notin {"none", "connected", "discard"},
              \/ r.pc \notin {"recv", "connect", "connected", "discard"}
              \/ r.pc = "recv" /\ r.conn = ws
              \/ /\ r.pc = "connect" /\ reader[p].pc = "recv"
                 /\ reader[p].conn \notin up
       PROVE  ConnInv'
  BY <1>2, <1>12, CalmKeeps DEF Calm, CalmReader
<1>13. ASSUME NEW p \in Pairs, ReaderTop(p) PROVE ConnInv'
  <2> DEFINE r == IF Superseded(p) THEN ReaderAt("done")
                  ELSE IF ws = NoConn THEN ReaderAt("failall")
                  ELSE ReaderWith("recv", ws)
  <2>1. /\ reader' = [reader EXCEPT ![p] = r] /\ reader[p].pc = "top"
        /\ UNCHANGED <<closed, gen, ws, genOf, latest, hand, strays, up, closing>>
    BY <1>13 DEF ReaderTop
  <2>2. \/ r.pc \notin {"recv", "connect", "connected", "discard"}
        \/ r.pc = "recv" /\ r.conn = ws
    BY <1>5
  <2> HIDE DEF r
  <2> QED
    BY <1>12, <2>1, <2>2
<1>14. ASSUME NEW p \in Pairs, ReaderLost(p) PROVE ConnInv'
  <2>1. /\ \E pc \in {"done", "connect"} : reader' = [reader EXCEPT ![p] = ReaderAt(pc)]
        /\ reader[p].pc = "recv" /\ reader[p].conn \notin up
        /\ UNCHANGED <<closed, gen, ws, genOf, latest, hand, strays, up, closing>>
    BY <1>14 DEF ReaderLost
  <2> QED
    BY <1>5, <1>12, <2>1
<1>15. ASSUME NEW p \in Pairs, ReaderRecv(p) \/ ReaderGiveUp(p) \/ ReaderCrash(p)
       PROVE  ConnInv'
  <2>1. /\ \E pc \in {"done", "failall", "top"} :
               reader' = [reader EXCEPT ![p] = ReaderAt(pc)]
        /\ reader[p].pc \notin {"none", "connected", "discard"}
        /\ UNCHANGED <<closed, gen, ws, genOf, latest, hand, strays, up, closing>>
    BY <1>15 DEF ReaderRecv, ReaderGiveUp, ReaderCrash
  <2> QED
    BY <1>5, <1>12, <2>1
<1>16. ASSUME NEW p \in Pairs, ReaderAdopt(p) PROVE ConnInv'
  BY <1>5, <1>12, <1>16 DEF ReaderAdopt
<1>17. ASSUME NEW p \in Pairs, ReaderConnectFailed(p) PROVE ConnInv'
  <2>1. /\ reader[p].pc = "connect" /\ reader'[p].pc \in {"giveup", "connect"}
        /\ \A q \in Pairs \ {p} : reader'[q] = reader[q]
        /\ UNCHANGED <<closed, gen, ws, genOf, latest, hand, strays, up, closing>>
    BY <1>2, <1>17 DEF ReaderConnectFailed, ReaderStates
  <2> QED
    BY <2>1, CalmKeeps DEF Calm, CalmReader
<1>18. ASSUME NEW p \in Pairs, ReaderResub(p) PROVE ConnInv'
  <2>1. /\ reader[p].pc = "resub" /\ reader'[p].pc = "adopt"
        /\ \A q \in Pairs \ {p} : reader'[q] = reader[q]
        /\ UNCHANGED <<closed, gen, ws, genOf, latest, hand, strays, up, closing>>
    BY <1>2, <1>18 DEF ReaderResub, ReaderStates
  <2> QED
    BY <2>1, CalmKeeps DEF Calm, CalmReader
\* A connection leaves the hand it was in.
<1>19. ASSUME NEW s \in Subs, RedundantClosed(s) PROVE ConnInv'
  <2>1. /\ UNCHANGED <<closed, gen, ws, genOf, latest, strays, reader, closing>>
        /\ up' = up \ {hand[s]} /\ \A r \in Subs \ {s} : hand'[r] = hand[r]
    BY <1>2, <1>19 DEF RedundantClosed
  <2>2. Generations' /\ Replaceable' /\ Parked'
    BY <1>4, <2>1 DEF Generations, Replaceable, Parked
  <2>3. InHand \ {hand[s]} \subseteq InHand'
    BY <2>1 DEF InHand
  <2>4. NoLeakedConnection'
    BY <1>4, <2>1, <2>3 DEF NoLeakedConnection
  <2> QED
    BY <2>2, <2>4 DEF ConnInv
<1>20. ASSUME NEW s \in Subs, Cancel(s) PROVE ConnInv'
  <2>1. /\ UNCHANGED <<closed, gen, ws, genOf, latest, reader, up, closing>>
        /\ strays' = strays \cup ({hand[s]} \ {NoConn})
        /\ \A r \in Subs \ {s} : hand'[r] = hand[r]
    BY <1>2, <1>20 DEF Cancel
  <2>2. Generations' /\ Replaceable' /\ Parked'
    BY <1>4, <2>1 DEF Generations, Replaceable, Parked
  <2>3. InHand \ {hand[s]} \subseteq InHand' /\ NoConn \notin up
    BY <1>2, <2>1 DEF InHand, NoConn
  <2>4. NoLeakedConnection'
    BY <1>4, <2>1, <2>3 DEF NoLeakedConnection
  <2> QED
    BY <2>2, <2>4 DEF ConnInv
<1>21. ASSUME NEW p \in Pairs, ReaderDiscarded(p) PROVE ConnInv'
  <2>1. /\ UNCHANGED <<closed, gen, ws, genOf, latest, strays, hand, closing>>
        /\ up' = up \ {reader[p].conn} /\ reader[p].pc = "discard"
        /\ reader'[p] = ReaderAt("done") /\ \A q \in Pairs \ {p} : reader'[q] = reader[q]
    BY <1>2, <1>21 DEF ReaderDiscarded
  <2>2. reader'[p].pc = "done"
    BY <1>5, <2>1
  <2>3. Generations' /\ Replaceable' /\ Parked'
    BY <1>4, <2>1, <2>2 DEF Generations, Replaceable, Parked
  <2>4. InHand \ {reader[p].conn} \subseteq InHand'
    BY <2>1 DEF InHand
  <2>5. NoLeakedConnection'
    BY <1>4, <2>1, <2>4 DEF NoLeakedConnection
  <2> QED
    BY <2>3, <2>5 DEF ConnInv
\* The generation ends, and its connection is closed.
<1>22. ASSUME FailAll, UNCHANGED <<genOf, latest, hand, up, strays>>,
              \A p \in Pairs : \/ reader'[p] = reader[p]
                               \/ reader[p].pc = "failall" /\ reader'[p].pc = "done"
       PROVE  ConnInv'
  <2>1. /\ UNCHANGED closed /\ gen' = gen + 1 /\ ws' = NoConn
        /\ closing' = closing \cup ({ws} \ {NoConn})
    BY <1>22 DEF FailAll
  <2>2. Generations'
    BY <1>2, <1>4, <1>22, <2>1 DEF Generations
  <2>3. Replaceable'
    <3>1. \A p \in Pairs : genOf'[p] # gen'
      BY <1>2, <1>4, <1>22, <2>1 DEF Generations
    <3> QED
      BY <3>1 DEF Replaceable
  <2>4. NoConn \notin up
    BY <1>2 DEF NoConn
  <2>5. Parked'
    BY <1>4, <1>22, <2>1, <2>4 DEF Parked
  <2>6. InHand \subseteq InHand'
    BY <1>22 DEF InHand
  <2>7. NoLeakedConnection'
    BY <1>4, <1>22, <2>1, <2>4, <2>6 DEF NoLeakedConnection
  <2> QED
    BY <2>2, <2>3, <2>5, <2>7 DEF ConnInv
<1>23. ASSUME NEW p \in Pairs, ReaderFailAll(p) \/ SweepFailAll(p) PROVE ConnInv'
  <2>1. FailAll /\ UNCHANGED <<genOf, latest, hand, up, strays>>
    BY <1>23 DEF ReaderFailAll, SweepFailAll
  <2>2. \A q \in Pairs : \/ reader'[q] = reader[q]
                         \/ reader[q].pc = "failall" /\ reader'[q].pc = "done"
    BY <1>2, <1>5, <1>23 DEF ReaderFailAll, SweepFailAll
  <2> QED
    BY <1>22, <2>1, <2>2
<1>24. CASE AClose
  <2>1. /\ UNCHANGED <<gen, genOf, latest, hand, up>> /\ ws' = NoConn /\ closed' = TRUE
        /\ closing' = closing \cup ({ws} \ {NoConn}) /\ holder = NoTask
        /\ \A p \in Pairs : p # latest => reader'[p] = reader[p]
        /\ \A p \in Pairs : p = latest => reader'[p] = ReaderAt("done")
        /\ strays' = strays \cup {reader[p].conn : p \in
                         {q \in Pairs : q = latest /\ reader[q].pc = "connected"}}
    BY <1>24 DEF AClose, Free
  <2>3. Generations'
    BY <1>4, <2>1 DEF Generations
  <2>4. Replaceable'
    BY <2>1 DEF Replaceable
  <2>5. NoConn \notin up
    BY <1>2 DEF NoConn
  <2>6. Parked'
    BY <1>4, <1>5, <2>1, <2>5 DEF Parked
  <2>7. \A p \in Pairs : reader[p].pc # "discard"
    BY <1>1, <2>1, TasksDiffer DEF SparesHold
  <2>8. InHand \subseteq InHand' \cup strays'
    BY <2>1, <2>7 DEF InHand
  <2>9. NoLeakedConnection'
    BY <1>4, <2>1, <2>5, <2>8 DEF NoLeakedConnection
  <2> QED
    BY <2>3, <2>4, <2>6, <2>9 DEF ConnInv
\* A new connection.
<1>25. ASSUME Connect \/ UNCHANGED <<up, conns>>
       PROVE  /\ up' \subseteq up \cup {conns + 1}
              /\ ws \notin up => ws \notin up'
              /\ \A p \in Pairs : reader[p].conn \notin up => reader[p].conn \notin up'
  BY <1>2, <1>3, <1>25 DEF Connect
<1>26. ASSUME NEW s \in Subs, NEW c \in Pairs, SettleConnection(s, c),
              Connect \/ UNCHANGED <<up, conns>>, UNCHANGED <<strays, closing>>,
              \/ Connect /\ c = conns + 1 /\ hand[s] = NoConn
              \/ UNCHANGED <<up, conns>> /\ c = hand[s]
       PROVE  ConnInv'
  <2>1. /\ UNCHANGED closed /\ \A r \in Subs \ {s} : hand'[r] = hand[r]
        /\ up' \subseteq up \cup {c}
        /\ hand[s] \in {c, NoConn} /\ NoConn \notin up
    BY <1>2, <1>25, <1>26 DEF SettleConnection, NoConn
  <2>2. CASE /\ hand' = [hand EXCEPT ![s] = c] /\ UNCHANGED <<stateVars, taskVars>>
    <3>1. Generations' /\ Replaceable' /\ Parked'
      BY <1>4, <1>25, <1>26, <2>2 DEF Generations, Replaceable, Parked
    <3>2. hand'[s] = c
      BY <1>2, <2>2
    <3>3. (InHand \ {NoConn}) \cup {c} \subseteq InHand'
      BY <2>1, <2>2, <3>2 DEF InHand
    <3>4. NoLeakedConnection'
      BY <1>4, <1>26, <2>1, <2>2, <3>3 DEF NoLeakedConnection
    <3> QED
      BY <3>1, <3>4 DEF ConnInv
  <2>3. CASE /\ ~closed /\ ws = NoConn /\ ws' = c /\ gen' = gen + 1
             /\ genOf' = [genOf EXCEPT ![c] = gen + 1]
             /\ latest' = c /\ reader' = [reader EXCEPT ![c].pc = "top"]
    <3>1. /\ genOf'[c] = gen + 1 /\ \A p \in Pairs \ {c} : genOf'[p] = genOf[p]
          /\ reader'[c].pc = "top" /\ \A p \in Pairs \ {c} : reader'[p] = reader[p]
      BY <1>2, <2>3 DEF ReaderStates
    <3>2. \A p \in Pairs : genOf[p] <= gen
      BY <1>4 DEF Generations
    <3>3. Generations'
      <4>1. ASSUME NEW p \in Pairs
            PROVE  /\ genOf'[p] <= gen' /\ (reader'[p].pc # "none" \/ p = latest' => genOf'[p] # 0)
        BY <1>2, <1>4, <2>3, <3>1, <3>2 DEF Generations
      <4>2. ASSUME NEW p \in Pairs, NEW q \in Pairs, genOf'[p] = genOf'[q],
                   genOf'[p] # 0
            PROVE  p = q
        BY <1>2, <1>4, <3>1, <3>2, <4>2 DEF Generations
      <4> QED
        BY <4>1, <4>2 DEF Generations
    <3>4. \A p \in Pairs : genOf'[p] = gen' => p = c
      BY <1>2, <2>3, <3>1, <3>2
    <3>5. Replaceable'
      BY <3>1, <3>4 DEF Replaceable
    <3>6. Parked'
      BY <1>4, <1>25, <1>26, <2>1, <2>3, <3>1 DEF Parked
    <3>7. reader[c].pc \notin {"connected", "discard"}
      BY <1>1, <1>2, <1>26 DEF Numbered
    <3>8. InHand \ {c, NoConn} \subseteq InHand'
      BY <2>1, <3>1, <3>7 DEF InHand
    <3>9. NoLeakedConnection'
      BY <1>4, <1>26, <2>1, <2>3, <3>8 DEF NoLeakedConnection
    <3> QED
      BY <3>3, <3>5, <3>6, <3>9 DEF ConnInv
  <2> QED
    BY <1>26, <2>2, <2>3 DEF SettleConnection
<1>27. ASSUME NEW s \in Subs, Connected(s) \/ ConnectedResumes(s) PROVE ConnInv'
  <2>1. CASE Connected(s)
    <3>1. Connect /\ conns + 1 \in Pairs /\ hand[s] = NoConn /\ caller[s] = "connect"
      <4>1. Connect /\ caller[s] = "connect"
        BY <2>1 DEF Connected
      <4>2. conns + 1 \in Pairs
        BY <1>1, <4>1, ConnectTypes DEF DataType
      <4>3. hand[s] = NoConn
        BY <1>1, <4>1 DEF Numbered
      <4> QED
        BY <4>1, <4>2, <4>3
    <3>2. CASE SettleConnection(s, conns + 1)
      BY <1>26, <2>1, <3>1, <3>2 DEF Connected
    <3>3. CASE /\ hand' = [hand EXCEPT ![s] = conns + 1]
               /\ UNCHANGED <<stateVars, taskVars>>
      <4>1. /\ UNCHANGED <<closed, gen, ws, genOf, latest, reader, closing, strays>>
            /\ up' \subseteq up \cup {conns + 1}
        BY <1>25, <2>1, <3>1, <3>3 DEF Connected
      <4>2. Generations' /\ Replaceable' /\ Parked'
        BY <1>4, <1>25, <3>1, <4>1 DEF Generations, Replaceable, Parked
      <4>3. hand'[s] = conns + 1 /\ \A r \in Subs \ {s} : hand'[r] = hand[r]
        BY <1>2, <3>3
      <4>4. (InHand \ {NoConn}) \cup {conns + 1} \subseteq InHand' /\ NoConn \notin up
        BY <1>2, <3>1, <4>1, <4>3 DEF InHand, NoConn
      <4>5. NoLeakedConnection'
        BY <1>4, <4>1, <4>4 DEF NoLeakedConnection
      <4> QED
        BY <4>2, <4>5 DEF ConnInv
    <3> QED
      BY <2>1, <3>2, <3>3 DEF Connected
  <2>2. CASE ConnectedResumes(s)
    <3>1. hand[s] \in Pairs
      BY <1>1, <1>2, <2>2 DEF ConnectedResumes, Numbered, Conns, Pairs, NoConn
    <3> QED
      BY <1>26, <2>2, <3>1 DEF ConnectedResumes
  <2> QED
    BY <1>27, <2>1, <2>2
<1>28. ASSUME NEW p \in Pairs, NEW c \in Pairs, AdoptReconnect(p, c),
              reader[p].pc \in {"connect", "connected"},
              UNCHANGED <<genOf, latest, hand, closing>>,
              \/ Connect /\ c = conns + 1 /\ reader[p].pc = "connect"
              \/ UNCHANGED <<up, conns>> /\ c = reader[p].conn
       PROVE  ConnInv'
  <2>1. /\ up' \subseteq up \cup {c} /\ NoConn \notin up' /\ c # NoConn
        /\ ws \notin up => ws \notin up'
        /\ \A q \in Pairs : reader[q].conn \notin up => reader[q].conn \notin up'
    BY <1>2, <1>25, <1>28 DEF NoConn, Pairs, Connect
  <2>2. UNCHANGED <<closed, gen>>
    BY <1>28 DEF AdoptReconnect
  <2>3. CASE /\ closed /\ reader' = [reader EXCEPT ![p] = ReaderWith("discard", c)]
             /\ UNCHANGED <<stateVars, strays>>
    <3>1. /\ reader'[p].pc = "discard" /\ reader'[p].conn = c
          /\ \A q \in Pairs \ {p} : reader'[q] = reader[q]
      BY <1>2, <1>5, <2>3
    <3>2. Generations' /\ Replaceable' /\ Parked'
      BY <1>4, <1>28, <2>1, <2>3, <3>1 DEF Generations, Replaceable, Parked
    <3>3. InHand \cup {c} \subseteq InHand'
      BY <1>28, <3>1 DEF InHand
    <3>4. NoLeakedConnection'
      BY <1>4, <1>28, <2>1, <2>3, <3>3 DEF NoLeakedConnection
    <3> QED
      BY <3>2, <3>4 DEF ConnInv
  <2>4. CASE /\ ~closed /\ ws' = c
             /\ reader' = [reader EXCEPT ![p] = Resubscribing(regs)]
             /\ strays' = IF genOf[p] = gen THEN strays
                          ELSE strays \cup ({ws, c} \ {NoConn})
    <3>1. /\ reader'[p].pc \in {"top", "resub"}
          /\ \A q \in Pairs \ {p} : reader'[q] = reader[q]
      BY <1>2, <1>5, <2>4
    <3>2. genOf[p] # 0 /\ \A q \in Pairs \ {p} : genOf[q] = gen /\ genOf[q] # 0
                              => genOf[p] # gen
      BY <1>4, <1>28 DEF Generations
    <3>3. Generations'
      BY <1>4, <1>28, <2>2, <3>1, <3>2 DEF Generations
    <3>4. Replaceable'
      BY <1>28, <2>1, <2>2, <2>4, <3>1, <3>2 DEF Replaceable
    <3>5. (ws \notin up' \/ ws \in strays') /\ strays \subseteq strays'
      BY <1>4, <1>28, <2>1, <2>4, <3>2 DEF Replaceable
    <3>6. Parked'
      BY <1>4, <1>28, <2>1, <2>4, <3>1, <3>5 DEF Parked
    <3>7. InHand \ {c} \subseteq InHand' /\ strays \subseteq strays'
      <4>1. \A q \in Pairs : reader[q].pc \in {"connected", "discard"}
                /\ reader[q].conn # c => q # p
        BY <1>1, <1>28 DEF Numbered
      <4> QED
        BY <1>28, <2>4, <3>1, <4>1 DEF InHand
    <3>8. NoLeakedConnection'
      BY <1>4, <1>28, <2>1, <2>2, <2>4, <3>5, <3>7 DEF NoLeakedConnection
    <3> QED
      BY <3>3, <3>4, <3>6, <3>8 DEF ConnInv
  <2> QED
    BY <1>28, <2>3, <2>4 DEF AdoptReconnect
<1>29. ASSUME NEW p \in Pairs, ReaderConnected(p) PROVE ConnInv'
  <2>1. Connect /\ conns + 1 \in Pairs /\ reader[p].pc = "connect"
    BY <1>1, <1>2, <1>29 DEF ReaderConnected, Connect, NetType, DataType, ApicType,
                             Conns, Pairs
  <2>2. CASE AdoptReconnect(p, conns + 1)
    BY <1>28, <1>29, <2>1, <2>2 DEF ReaderConnected
  <2>3. CASE /\ reader' = [reader EXCEPT ![p] = ReaderWith("connected", conns + 1)]
             /\ UNCHANGED <<stateVars, strays>>
    <3>1. /\ UNCHANGED <<closed, gen, ws, genOf, latest, hand, closing, strays>>
          /\ up' \subseteq up \cup {conns + 1}
      BY <1>25, <1>29, <2>1, <2>3 DEF ReaderConnected
    <3>2. /\ reader'[p].pc = "connected" /\ reader'[p].conn = conns + 1
          /\ \A q \in Pairs \ {p} : reader'[q] = reader[q]
      BY <1>2, <1>5, <2>3
    <3>3. Generations' /\ Parked'
      BY <1>4, <1>25, <2>1, <3>1, <3>2 DEF Generations, Parked
    <3>4. Replaceable'
      BY <1>4, <1>25, <2>1, <3>1, <3>2 DEF Replaceable
    <3>5. InHand \cup {conns + 1} \subseteq InHand'
      BY <2>1, <3>1, <3>2 DEF InHand
    <3>6. NoLeakedConnection'
      BY <1>4, <3>1, <3>5 DEF NoLeakedConnection
    <3> QED
      BY <3>3, <3>4, <3>6 DEF ConnInv
  <2> QED
    BY <1>29, <2>2, <2>3 DEF ReaderConnected
<1>30. ASSUME NEW p \in Pairs, ReaderConnectedResumes(p) PROVE ConnInv'
  <2>1. reader[p].conn \in Pairs /\ reader[p].pc = "connected"
    BY <1>1, <1>2, <1>3, <1>30, SMTT(60) DEF ReaderConnectedResumes, Numbered, ReaderStates,
                                   Conns, Pairs, NoConn
  <2> QED
    BY <1>28, <1>30, <2>1 DEF ReaderConnectedResumes
<1>31. ASSUME NEW s \in Subs, SubStep(s) \/ UserStep(s) PROVE ConnInv'
  BY <1>7, <1>19, <1>20, <1>27, <1>31 DEF SubStep, UserStep
<1>32. ASSUME NEW p \in Pairs, ReaderStep(p) \/ ReaderRecv(p) \/ ReaderCrash(p)
       PROVE  ConnInv'
  BY <1>13, <1>14, <1>15, <1>16, <1>17, <1>18, <1>21, <1>23, <1>29, <1>30, <1>32
  DEF ReaderStep
<1>33. ASSUME NEW p \in Pairs, SweepStep(p) \/ SweepCrash(p) PROVE ConnInv'
  BY <1>9, <1>23, <1>33 DEF SweepStep
<1> QED
  BY <1>8, <1>10, <1>11, <1>24, <1>31, <1>32, <1>33 DEF Next

LEMMA ConnectionsKept == Spec => []ConnInv
<1>1. Init => ConnInv
  <2> SUFFICES ASSUME Init PROVE ConnInv
    OBVIOUS
  <2>1. \A p \in Pairs : reader[p].pc = "none" /\ genOf[p] = 0
    BY DEF Init, ReaderIdle
  <2>2. gen = 0 /\ latest \notin Pairs /\ up = {} /\ closed = FALSE
    BY DEF Init, Pairs, NoConn
  <2> QED
    BY <2>1, <2>2 DEF ConnInv, Generations, Replaceable, Parked, NoLeakedConnection
<1>2. ConnInv /\ LockInv /\ [Next]_vars => ConnInv'
  BY NextConnInv
<1> QED
  BY <1>1, <1>2, LockCorrect, PTL DEF Spec

\* However connects, reconnects, cancellations and shutdowns interleave, every
\* connection left open is in _ws, is being closed, or is carried by a coroutine
\* that will adopt or close it, the strays excepted.
THEOREM NothingLeaks == Spec => []NoLeakedConnection
<1>1. ConnInv => NoLeakedConnection
  BY DEF ConnInv
<1> QED
  BY <1>1, ConnectionsKept, PTL

\* After aclose() no reader, of whatever generation, stays parked in recv() on a
\* connection nobody is going to close, the strays excepted.
THEOREM NoneParked == Spec => []NobodyParked
<1>1. LockInv /\ ConnInv => NobodyParked
  <2> SUFFICES ASSUME LockInv, ConnInv, closed, NEW p \in Pairs, reader[p].pc = "recv"
               PROVE  \/ reader[p].conn \notin up
                      \/ reader[p].conn \in closing \cup strays
    BY DEF NobodyParked
  <2>1. ws = NoConn /\ NoConn \notin up
    BY LockInvParts DEF ConnInv, NoLeakedConnection, Numbered, NoConn
  <2> QED
    BY <2>1 DEF ConnInv, Parked
<1> QED
  BY <1>1, LockCorrect, ConnectionsKept, PTL

-------------------------------------------------------------------------------
(* Who is heard.                                                           *)

HeardNow(s) == ws # NoConn /\ bound[wire[s]] = ws
Survivors   == regs \ late

\* s was a survivor already, under the wire id it still has on its connection.
SameWire(s) == /\ s \in Survivors
               /\ wire'[s] = wire[s] /\ bound'[wire'[s]] = bound[wire'[s]]

\* A step that replaces no connection, moves a survivor's wire id to none but
\* the socket's connection, and after which whoever was awaited still is.
LEMMA HeardKept ==
    ASSUME Heard, UNCHANGED ws,
           \A s \in Survivors' : SameWire(s) \/ HeardNow(s)',
           \A s \in Survivors', p \in Pairs :
               Awaits(p, s) => Awaits(p, s)' \/ HeardNow(s)'
    PROVE  Heard'
<1> SUFFICES ASSUME NEW s \in Survivors', ~HeardNow(s)' PROVE Awaited(s)'
  BY DEF Heard, Survivors, HeardNow
<1>1. SameWire(s)
  OBVIOUS
<1>2. ~HeardNow(s)
  BY <1>1 DEF SameWire, HeardNow
<1>3. PICK p \in Pairs : Awaits(p, s)
  BY <1>1, <1>2 DEF SameWire, Survivors, Heard, HeardNow, Awaited
<1> QED
  BY <1>3 DEF Awaited

\* No wire id in use is bound anew.
LEMMA BoundKept ==
    ASSUME ApicType, Grant \/ UNCHANGED apicVars
    PROVE  \A w \in 1..wires : bound'[w] = bound[w]
  BY DEF Grant, ApicType

LEMMA UsedWires == RegType /\ RouteInv => \A s \in regs : wire[s] \in 1..wires
<1> SUFFICES ASSUME WiresOwnedOnce, NEW s \in regs, s \in Subs PROVE wire[s] \in 1..wires
  BY DEF RouteInv, RegType
<1> QED
  BY OwnsOf, OwnersOf DEF WiresOwnedOnce, SubWires

LEMMA SettleHears ==
    ASSUME RegType, NEW s, NEW old, NEW new, NEW reset, Settle(s, old, new, reset),
           UNCHANGED <<ws, bound>>
    PROVE  \A r \in Survivors' : HeardNow(r)' \/ (SameWire(r) /\ ~(r = s /\ wire[r] = old))
<1>1. CASE /\ s \notin regs \/ wire[s] # old
           /\ UNCHANGED <<regVars, ends, late>>
  BY <1>1 DEF Survivors, SameWire
<1>2. CASE s \in regs /\ Forget(s) /\ UNCHANGED late
  BY <1>2 DEF Survivors, SameWire, Forget
<1>3. CASE /\ s \in regs /\ wire' = [wire EXCEPT ![s] = new]
           /\ late' = LateWith(s, new) /\ UNCHANGED regs
  <2>1. wire'[s] = new /\ \A r \in regs \ {s} : wire'[r] = wire[r]
    BY <1>3 DEF RegType
  <2>3. ASSUME NEW r \in Survivors', r # s PROVE SameWire(r)
    BY <1>3, <2>1, <2>3 DEF Survivors, SameWire, LateWith
  <2>4. ASSUME NEW r \in Survivors'
        PROVE  HeardNow(r)' \/ (SameWire(r) /\ ~(r = s /\ wire[r] = old))
    <3>1. CASE r = s
      <4>1. wire'[r] = new /\ ws' = ws /\ bound' = bound /\ ws # NoConn /\ bound[new] = ws
        BY <1>3, <2>1, <2>4, <3>1 DEF Survivors, LateWith
      <4> QED
        BY <4>1 DEF HeardNow
    <3>2. CASE r # s
      BY <2>3, <2>4, <3>2
    <3> QED
      BY <3>1, <3>2
  <2> QED
    BY <2>4
<1> QED
  BY <1>1, <1>2, <1>3 DEF Settle

LEMMA NextHeard ==
    LockInv /\ EndedOnce /\ RouteInv /\ Heard /\ [Next]_vars => Heard'
<1> SUFFICES ASSUME LockInv, EndedOnce, RouteInv, Heard, [Next]_vars PROVE Heard'
  OBVIOUS
<1>1. DataType /\ Numbered
  BY LockInvParts DEF LockInv
<1>2. /\ RegType /\ ApicType /\ regs \subseteq Subs /\ wire \in [Subs -> Nat]
      /\ reader \in [Pairs -> ReaderStates] /\ caller \in [Subs -> CallerStates]
      /\ hand \in [Subs -> Conns] /\ conns \in Nat
  BY <1>1 DEF DataType, RegType, ReaderType, UserType, NetType, Conns
<1>3. /\ \A pc : ReaderAt(pc).pc = pc
      /\ \A pc, c : ReaderWith(pc, c).pc = pc
      /\ \A S : S # {} => Resubscribing(S).pc = "resub" /\ Resubscribing(S).todo = S
  BY DEF ReaderAt, ReaderWith, Resubscribing, ReaderIdle
\* A step of the background tasks after which everybody is where they were.
<1>4. ASSUME UNCHANGED <<ws, wire, late>>, regs' \subseteq regs,
             Grant \/ UNCHANGED apicVars,
             \A s \in Survivors', p \in Pairs : Awaits(p, s) => Awaits(p, s)'
      PROVE  Heard'
  <2>1. \A s \in Survivors' : SameWire(s)
    BY <1>2, <1>4, BoundKept, UsedWires DEF Survivors, SameWire
  <2> QED
    BY <1>4, <2>1, HeardKept
<1>5. ASSUME regs' = {} PROVE Heard'
  BY <1>5 DEF Heard
<1>6. ASSUME UNCHANGED <<ws, wire, late, reader>>, regs' \subseteq regs,
             Grant \/ UNCHANGED apicVars
      PROVE  Heard'
  BY <1>4, <1>6 DEF Awaits
<1>7. ASSUME UNCHANGED <<ws, wire, late, regs>>, Grant \/ UNCHANGED apicVars,
             NEW p \in Pairs, \A q \in Pairs \ {p} : reader'[q] = reader[q],
             \A s \in Survivors : Awaits(p, s) => Awaits(p, s)'
      PROVE  Heard'
  <2>1. \A s \in Survivors', q \in Pairs : Awaits(q, s) => Awaits(q, s)'
    BY <1>7 DEF Awaits, Survivors
  <2> QED
    BY <1>4, <1>7, <2>1
<1>8. ASSUME UNCHANGED <<ws, wire, late, regs, apicVars>>,
             NEW p \in Pairs, NEW r, reader' = [reader EXCEPT ![p] = r],
             reader[p].pc \notin {"failall", "resub", "adopt"} \/ r.pc = "failall"
      PROVE  Heard'
  BY <1>2, <1>7, <1>8 DEF Awaits
\* The steps of subscribe() and of the user.
<1>9. ASSUME NEW s \in Subs,
             \/ CheckOpen(s) \/ ConnectFailed(s) \/ RedundantClosed(s)
             \/ Abandon(s) \/ ManualRefresh(s) \/ Cancel(s)
      PROVE  Heard'
  BY <1>6, <1>9
  DEF CheckOpen, ConnectFailed, RedundantClosed, Abandon, ManualRefresh, Cancel
<1>10. ASSUME NEW s \in Subs, CloseOne(s) \/ DropRegistration(s) PROVE Heard'
  BY <1>6, <1>10 DEF CloseOne, DropRegistration, Forget
<1>11. ASSUME NEW s \in Subs, NEW c \in Pairs, SettleConnection(s, c),
              c = conns + 1 \/ (c = hand[s] /\ c # NoConn),
              UNCHANGED <<regVars, apicVars, late>>
       PROVE  Heard'
  <2>1. CASE UNCHANGED <<stateVars, taskVars>>
    BY <1>6, <1>11, <2>1
  <2>2. CASE ws = NoConn /\ reader' = [reader EXCEPT ![c].pc = "top"]
    <3>1. reader[c].pc = "none"
      BY <1>1, <1>2, <1>11 DEF Numbered
    <3>2. \A q \in Pairs : \A r : Awaits(q, r) => q # c
      BY <3>1 DEF Awaits
    <3>3. \A q \in Pairs : \A r : Awaits(q, r) => Awaits(q, r)'
      BY <1>2, <1>11, <2>2, <3>2 DEF Awaits
    <3>4. \A r \in regs \ late : Awaited(r)
      BY <2>2 DEF Heard
    <3> QED
      BY <1>11, <3>3, <3>4 DEF Heard, Awaited
  <2> QED
    BY <1>11, <2>1, <2>2 DEF SettleConnection
<1>12. ASSUME NEW s \in Subs, Connected(s) \/ ConnectedResumes(s) PROVE Heard'
  <2>1. CASE Connected(s)
    <3>1. conns + 1 \in Pairs
      BY <1>1, <2>1, ConnectTypes DEF Connected, DataType
    <3>2. CASE SettleConnection(s, conns + 1)
      <4>1. UNCHANGED <<regVars, apicVars, late>>
        BY <2>1 DEF Connected
      <4> QED
        BY <1>11, <3>1, <3>2, <4>1
    <3>3. CASE UNCHANGED <<stateVars, taskVars>>
      BY <1>6, <2>1, <3>3 DEF Connected
    <3> QED
      BY <2>1, <3>2, <3>3 DEF Connected
  <2>2. CASE ConnectedResumes(s)
    <3>1. hand[s] \in Pairs /\ hand[s] # NoConn
      BY <1>1, <1>2, <2>2 DEF ConnectedResumes, Numbered, Conns, Pairs, NoConn
    <3> QED
      BY <1>11, <2>2, <3>1 DEF ConnectedResumes
  <2> QED
    BY <1>12, <2>1, <2>2
<1>13. ASSUME NEW s \in Subs, RestSubscribe(s) PROVE Heard'
  <2>1. /\ UNCHANGED <<ws, regs, late, reader>> /\ s \notin regs
        /\ \A r \in regs : wire'[r] = wire[r]
    BY <1>2, <1>13 DEF RestSubscribe, EndedOnce, Returned
  <2>2. Grant \/ UNCHANGED apicVars
    BY <1>13 DEF RestSubscribe
  <2>3. \A r \in Survivors' : SameWire(r)
    BY <1>2, <2>1, <2>2, BoundKept, UsedWires DEF Survivors, SameWire
  <2>4. \A r \in Survivors', p \in Pairs : Awaits(p, r) => Awaits(p, r)'
    BY <2>1 DEF Awaits, Survivors
  <2> QED
    BY <2>1, <2>3, <2>4, HeardKept
<1>14. ASSUME NEW s \in Subs, Insert(s) PROVE Heard'
  <2>1. CASE UNCHANGED <<regs, late>>
    BY <1>6, <1>14, <2>1 DEF Insert
  <2>2. CASE regs' = regs \cup {s} /\ late' = LateWith(s, wire[s])
    <3>1. UNCHANGED <<ws, wire, bound, reader>>
      BY <1>14 DEF Insert
    <3>2. ASSUME NEW r \in Survivors' PROVE SameWire(r) \/ HeardNow(r)'
      BY <2>2, <3>1, <3>2 DEF Survivors, SameWire, HeardNow, LateWith
    <3>3. \A r \in Survivors', p \in Pairs : Awaits(p, r) => Awaits(p, r)'
      BY <3>1 DEF Awaits
    <3> QED
      BY <3>1, <3>2, <3>3, HeardKept
  <2> QED
    BY <1>14, <2>1, <2>2 DEF Insert
\* The steps that end every stream, and those of nobody in particular.
<1>15. CASE CloseAllSubscriptions \/ AClose
  BY <1>5, <1>15 DEF CloseAllSubscriptions, AClose, EndAll
<1>16. ASSUME NEW p \in Pairs, ReaderFailAll(p) \/ SweepFailAll(p) PROVE Heard'
  BY <1>5, <1>16 DEF ReaderFailAll, SweepFailAll, FailAll, EndAll
<1>17. ASSUME NEW t, Wait(t) \/ CloseConn(t) \/ Disconnect(t) \/ UNCHANGED vars
       PROVE  Heard'
  BY <1>6, <1>17, SMTT(60) DEF Wait, CloseConn, Disconnect, vars
\* The sweep.
<1>18. ASSUME NEW p \in Pairs,
              \/ \E S \in SUBSET Subs : SweepTick(p, S)
              \/ \E s \in Subs, ok \in BOOLEAN : SweepRefresh(p, s, ok)
              \/ SweepCrash(p)
       PROVE  Heard'
  BY <1>6, <1>18, ZenonT(60) DEF SweepTick, SweepRefresh, SweepCrash
<1>19. ASSUME NEW p \in Pairs, SweepEscalate(p) PROVE Heard'
  BY <1>6, <1>19 DEF SweepEscalate, Resubscribe
<1>20. ASSUME NEW p \in Pairs, SweepAdopt(p) PROVE Heard'
  <2>1. /\ Settle(sweep[p].sub, sweep[p].old, sweep[p].new, TRUE)
        /\ UNCHANGED <<ws, bound, reader>>
    BY <1>20 DEF SweepAdopt
  <2>2. \A s \in Survivors' : SameWire(s) \/ HeardNow(s)'
    BY <1>2, <2>1, SettleHears
  <2>3. \A s \in Survivors', q \in Pairs :
            Awaits(q, s) => Awaits(q, s)' \/ HeardNow(s)'
    BY <2>1, <2>2 DEF Awaits, SameWire
  <2> QED
    BY <2>1, <2>2, <2>3, HeardKept
\* The reader.
<1>21. ASSUME NEW p \in Pairs,
              ReaderTop(p) \/ ReaderLost(p) \/ ReaderGiveUp(p) \/ ReaderDiscarded(p)
              \/ ReaderRecv(p)
       PROVE  Heard'
  <2>1. /\ UNCHANGED <<ws, wire, late, regs, apicVars>>
        /\ reader[p].pc \notin {"failall", "resub", "adopt"}
        /\ \E r : reader' = [reader EXCEPT ![p] = r]
    BY <1>21 DEF ReaderTop, ReaderLost, ReaderGiveUp, ReaderDiscarded, ReaderRecv
  <2> QED
    BY <1>8, <2>1
<1>22. ASSUME NEW p \in Pairs, ReaderCrash(p) PROVE Heard'
  <2>1. /\ UNCHANGED <<ws, wire, late, regs, apicVars>>
        /\ reader' = [reader EXCEPT ![p] = ReaderAt("failall")]
    BY <1>22 DEF ReaderCrash
  <2> QED
    BY <1>3, <1>8, <2>1
<1>23. ASSUME NEW p \in Pairs, ReaderConnectFailed(p) PROVE Heard'
  <2>1. /\ UNCHANGED <<ws, wire, late, regs, apicVars>> /\ reader[p].pc = "connect"
        /\ \A q \in Pairs \ {p} : reader'[q] = reader[q]
    BY <1>2, <1>23 DEF ReaderConnectFailed
  <2> QED
    BY <1>7, <2>1 DEF Awaits
<1>24. ASSUME NEW p \in Pairs, NEW c \in Pairs, AdoptReconnect(p, c),
              reader[p].pc \in {"connect", "connected"},
              UNCHANGED <<regVars, apicVars, late>>
       PROVE  Heard'
  <2>1. CASE /\ UNCHANGED stateVars
             /\ reader' = [reader EXCEPT ![p] = ReaderWith("discard", c)]
    BY <1>8, <1>24, <2>1
  <2>2. CASE reader' = [reader EXCEPT ![p] = Resubscribing(regs)]
    <3>1. ASSUME NEW s \in regs PROVE Awaits(p, s)'
      BY <1>2, <1>3, <2>2, <3>1 DEF Awaits
    <3> QED
      BY <1>24, <3>1 DEF Heard, Awaited
  <2> QED
    BY <1>24, <2>1, <2>2 DEF AdoptReconnect
<1>25. ASSUME NEW p \in Pairs, ReaderConnected(p) PROVE Heard'
  <2>1. conns + 1 \in Pairs /\ reader[p].pc = "connect"
    BY <1>1, <1>25, ConnectTypes DEF ReaderConnected, DataType
  <2>2. CASE AdoptReconnect(p, conns + 1)
    BY <1>24, <1>25, <2>1, <2>2 DEF ReaderConnected
  <2>3. CASE /\ reader' = [reader EXCEPT ![p] = ReaderWith("connected", conns + 1)]
             /\ UNCHANGED stateVars
    BY <1>8, <1>25, <2>1, <2>3 DEF ReaderConnected
  <2> QED
    BY <1>25, <2>2, <2>3 DEF ReaderConnected
<1>26. ASSUME NEW p \in Pairs, ReaderConnectedResumes(p) PROVE Heard'
  <2>1. reader[p].conn \in Pairs
    BY <1>1, <1>2, <1>26, SMTT(60) DEF ReaderConnectedResumes, Numbered, ReaderStates, Conns,
                             Pairs, NoConn
  <2> QED
    BY <1>24, <1>26, <2>1 DEF ReaderConnectedResumes
<1>27. ASSUME NEW p \in Pairs, ReaderResub(p) PROVE Heard'
  <2>1. PICK s \in reader[p].todo, answer \in 0..MaxWire :
           /\ Resubscribe(answer)
           /\ reader' = [reader EXCEPT ![p].pc = "adopt", ![p].todo = @ \ {s},
                            ![p].sub = s, ![p].old = wire[s], ![p].new = answer]
    BY <1>27 DEF ReaderResub
  <2>2. /\ UNCHANGED <<ws, wire, late, regs>> /\ reader[p].pc = "resub"
        /\ Grant \/ UNCHANGED apicVars
    BY <1>27, <2>1 DEF ReaderResub, Resubscribe
  <2>3. /\ reader'[p].pc = "adopt" /\ reader'[p].todo = reader[p].todo \ {s}
        /\ reader'[p].sub = s /\ reader'[p].old = wire[s]
        /\ \A q \in Pairs \ {p} : reader'[q] = reader[q]
    BY <1>2, <2>1 DEF ReaderStates
  <2>4. \A r \in Survivors : Awaits(p, r) => Awaits(p, r)'
    BY <2>2, <2>3 DEF Awaits
  <2> QED
    BY <1>7, <2>2, <2>3, <2>4
<1>28. ASSUME NEW p \in Pairs, ReaderAdopt(p) PROVE Heard'
  <2>1. /\ Settle(reader[p].sub, reader[p].old, reader[p].new, FALSE)
        /\ UNCHANGED <<ws, bound>> /\ reader[p].pc = "adopt"
        /\ reader' = [reader EXCEPT ![p] = Resubscribing(reader[p].todo)]
    BY <1>28 DEF ReaderAdopt
  <2>2. \A s \in Survivors' : \/ HeardNow(s)'
                              \/ SameWire(s) /\ ~(s = reader[p].sub
                                                  /\ wire[s] = reader[p].old)
    BY <1>2, <2>1, SettleHears
  <2>3. /\ reader'[p] = Resubscribing(reader[p].todo)
        /\ \A q \in Pairs \ {p} : reader'[q] = reader[q]
    BY <1>2, <2>1
  <2>4. ASSUME NEW s \in Survivors', NEW q \in Pairs, Awaits(q, s), ~HeardNow(s)'
        PROVE  Awaits(q, s)'
    <3>1. SameWire(s) /\ ~(s = reader[p].sub /\ wire[s] = reader[p].old)
      BY <2>2, <2>4
    <3>2. CASE q = p
      <4>1. s \in reader[p].todo
        BY <2>1, <2>4, <3>1, <3>2 DEF Awaits
      <4>2. reader'[p].pc = "resub" /\ s \in reader'[p].todo
        BY <1>3, <2>3, <4>1
      <4> QED
        BY <3>2, <4>2 DEF Awaits
    <3>3. CASE q # p
      BY <2>3, <2>4, <3>1, <3>3 DEF Awaits, SameWire
    <3> QED
      BY <3>2, <3>3
  <2>5. \A s \in Survivors', q \in Pairs :
            Awaits(q, s) => Awaits(q, s)' \/ HeardNow(s)'
    BY <2>4
  <2> QED
    BY <2>1, <2>2, <2>5, HeardKept
<1>29. ASSUME NEW s \in Subs, SubStep(s) \/ UserStep(s) PROVE Heard'
  BY <1>9, <1>10, <1>12, <1>13, <1>14, <1>29 DEF SubStep, UserStep
<1>30. ASSUME NEW p \in Pairs, ReaderStep(p) \/ ReaderRecv(p) \/ ReaderCrash(p)
       PROVE  Heard'
  BY <1>16, <1>21, <1>22, <1>23, <1>25, <1>26, <1>27, <1>28, <1>30 DEF ReaderStep
<1>31. ASSUME NEW p \in Pairs, SweepStep(p) \/ SweepCrash(p) PROVE Heard'
  BY <1>16, <1>18, <1>19, <1>20, <1>31 DEF SweepStep
<1> QED
  BY <1>15, <1>17, <1>29, <1>30, <1>31 DEF Next

\* Once the reader receives again, the APIC pushes every surviving subscription
\* that is not late on the connection it reads.  Late are those whose id was
\* granted on one connection and adopted when another was open (an insertion
\* behind a reconnect's snapshot, say); nothing else, no reconnect, rejection,
\* escalation, lapse or crash, leaves one behind on a dead connection's id.
THEOREM SurvivorsAreHeard == Spec => []SurvivorsHeard
<1>1. Init => Heard
  BY DEF Init, Heard
<1>2. LockInv /\ EndedOnce /\ RouteInv /\ Heard /\ [Next]_vars => Heard'
  BY NextHeard
<1>3. Heard => SurvivorsHeard
  BY DEF Heard, Awaited, Awaits, SurvivorsHeard, Receiving
<1> QED
  BY <1>1, <1>2, <1>3, LockCorrect, EndsExactlyOnce, RouteKept, PTL DEF Spec

===============================================================================
