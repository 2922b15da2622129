------------------------------ MODULE PushProofs ------------------------------
(***************************************************************************)
(* Proofs about Push: the promises of a staged push and of a plan, for any *)
(* design and any fabric that is a tree, whatever others write meanwhile.  *)
(***************************************************************************)
EXTENDS Push, StagedPushProofs

-------------------------------------------------------------------------------
(* Sequences.                                                              *)

LEMMA ConcatInjective ==
    ASSUME NEW S, NEW a \in Seq(S), NEW b \in Seq(S),
           IsInjective(a), IsInjective(b), ToSet(a) \cap ToSet(b) = {}
    PROVE  IsInjective(a \o b)
<1> DEFINE c == a \o b
<1>1. /\ c \in Seq(S) /\ Len(c) = Len(a) + Len(b) /\ Len(a) \in Nat /\ Len(b) \in Nat
      /\ \A i \in 1..Len(a) + Len(b) : c[i] = IF i <= Len(a) THEN a[i] ELSE b[i - Len(a)]
  BY ConcatProperties, LenProperties
<1>2. /\ DOMAIN a = 1..Len(a) /\ DOMAIN b = 1..Len(b)
      /\ DOMAIN c = 1..Len(a) + Len(b)
  BY <1>1, LenProperties
<1> HIDE DEF c
<1>3. ASSUME NEW i \in DOMAIN c
      PROVE  \/ i \in DOMAIN a /\ c[i] = a[i] /\ c[i] \in ToSet(a)
             \/ i - Len(a) \in DOMAIN b /\ c[i] = b[i - Len(a)] /\ c[i] \in ToSet(b)
  <2>1. CASE i <= Len(a)
    <3>1. i \in DOMAIN a /\ c[i] = a[i]
      BY <1>1, <1>2, <2>1
    <3> QED
      BY <3>1 DEF ToSet
  <2>2. CASE ~(i <= Len(a))
    <3>1. i - Len(a) \in DOMAIN b /\ c[i] = b[i - Len(a)]
      BY <1>1, <1>2, <2>2
    <3> QED
      BY <3>1 DEF ToSet
  <2> QED
    BY <2>1, <2>2
<1>4. ASSUME NEW i \in DOMAIN c, NEW j \in DOMAIN c, c[i] = c[j] PROVE i = j
  <2>1. i \in Int /\ j \in Int
    BY <1>1, <1>2
  <2>2. CASE c[i] \in ToSet(a)
    <3>1. c[i] \notin ToSet(b) /\ c[j] \notin ToSet(b)
      BY <1>4, <2>2
    <3>2. i \in DOMAIN a /\ j \in DOMAIN a /\ a[i] = a[j]
      BY <1>3, <1>4, <3>1
    <3> QED
      BY <3>2 DEF IsInjective
  <2>3. CASE c[i] \notin ToSet(a)
    <3>1. /\ i - Len(a) \in DOMAIN b /\ j - Len(a) \in DOMAIN b
          /\ b[i - Len(a)] = b[j - Len(a)]
      BY <1>3, <1>4, <2>3
    <3>2. i - Len(a) = j - Len(a)
      BY <3>1 DEF IsInjective
    <3> QED
      BY <1>1, <2>1, <3>2
  <2> QED
    BY <2>2, <2>3
<1>5. IsInjective(c)
  BY <1>4 DEF IsInjective
<1> QED
  BY <1>5 DEF c

-------------------------------------------------------------------------------
(* The inductive invariant of the plan.                                    *)

\* The objects of the roots before root r.
Covered(r) == UNION {ToSet(Desired(design, PlanRoots(design)[i])) : i \in 1..r - 1}

\* Three lists of what is to be created, updated and left, in which an object
\* of the set is listed once, with what was true of it at some moment.
Lists(cr, up, un, objects) ==
    /\ cr \in Seq(Dns) /\ un \in Seq(Dns) /\ IsInjective(cr) /\ IsInjective(un)
    /\ ToSet(cr) \cup ToSet(un) \cup up = objects
    /\ ToSet(cr) \cap ToSet(un) = {} /\ (ToSet(cr) \cup ToSet(un)) \cap up = {}
    /\ \A dn \in up : "other" \in seen[dn]
    /\ \A dn \in ToSet(un) : "same" \in seen[dn]

\* The design does not change; what is seen of the fabric is its past, of which
\* every moment is a tree.
Fabric ==
    /\ PlanTree(design) /\ FabricTree(fabric)
    /\ seen \in [Declared(design) -> SUBSET (Present \cup {"absent"})]
    /\ \A dn \in Declared(design) : fabric[dn] \in seen[dn]
    /\ \A p, dn \in Declared(design) :
          IsPrefix(p, dn) /\ "absent" \in seen[p] => "absent" \in seen[dn]

\* What was read, and what was verified, was so when it was.
Read ==
    /\ \A dn \in DOMAIN found : found[dn] \in seen[dn] \cap Present
    /\ \A dn \in settled : dn \in Declared(design) /\ "absent" \in seen[dn]

RootSoFar ==
    planPhase = "probing" => Lists(creates, updates, unchanged, Objects)

PlanSoFar ==
    /\ Lists(plan.creates, plan.updates, plan.unchanged,
             IF planPhase = "over" THEN Declared(design) ELSE Covered(root))
    /\ \A dn \in ToSet(plan.creates) : "absent" \in seen[dn]

PlanInv == PlanTypeOK /\ Fabric /\ Read /\ RootSoFar /\ PlanSoFar

-------------------------------------------------------------------------------
LEMMA DesignFacts ==
    ASSUME PlanTypeOK, Fabric
    PROVE  /\ Desired(design, Root) \in Seq(Dns) /\ IsInjective(Desired(design, Root))
           /\ Objects \subseteq Declared(design) /\ Declared(design) \subseteq Dns \ {<<>>}
           /\ root \in Nat /\ DOMAIN PlanRoots(design) = 1..Len(PlanRoots(design))
           /\ root \in 1..Len(PlanRoots(design)) /\ Len(PlanRoots(design)) \in Nat
<1> DEFINE roots == PlanRoots(design)
<1>1. /\ roots \in Seq(Seq(STRING)) /\ root \in DOMAIN roots
      /\ \A i \in DOMAIN roots : /\ Desired(design, roots[i]) \in Seq(Dns \ {<<>>})
                                 /\ IsInjective(Desired(design, roots[i]))
  BY DEF PlanTypeOK, Fabric, PlanTree, Dns
<1>2. Root = roots[root] /\ Objects = ToSet(Desired(design, Root))
  BY DEF Root, Objects
<1>3. Declared(design) = UNION {ToSet(Desired(design, r)) : r \in ToSet(roots)}
  BY DEF Declared
<1>4. DOMAIN roots = 1..Len(roots) /\ Len(roots) \in Nat
  BY <1>1, LenProperties
<1> HIDE DEF roots
<1>5. Objects \subseteq Declared(design)
  BY <1>1, <1>2, <1>3 DEF ToSet
<1>6. Declared(design) \subseteq Dns \ {<<>>}
  <2> SUFFICES ASSUME NEW dn \in Declared(design) PROVE dn \in Dns \ {<<>>}
    OBVIOUS
  <2>1. PICK i \in DOMAIN roots : dn \in ToSet(Desired(design, roots[i]))
    BY <1>3 DEF ToSet
  <2>2. Desired(design, roots[i]) \in Seq(Dns \ {<<>>})
    BY <1>1
  <2> QED
    BY <2>1, <2>2, SetType
<1>7. Desired(design, Root) \in Seq(Dns) /\ IsInjective(Desired(design, Root))
  <2>1. Desired(design, Root) \in Seq(Dns \ {<<>>}) /\ IsInjective(Desired(design, Root))
    BY <1>1, <1>2
  <2> QED
    BY <2>1, SeqMonotonic
<1> QED
  BY <1>1, <1>4, <1>5, <1>6, <1>7 DEF roots

LEMMA PlanStartKeeps ==
    ASSUME NEW c \in PlanCases, PlanOf(c), \E p \in {"reading", "off"} : PlanStart(p)
    PROVE  PlanInv
<1>1. /\ PlanTree(design) /\ FabricTree(fabric)
      /\ fabric \in [Declared(design) -> Present \cup {"absent"}]
  BY PlanCaseAssumption DEF PlanOf
<1>2. /\ seen = [o \in DOMAIN fabric |-> {fabric[o]}] /\ writes = 0
      /\ root = 1 /\ plan = NoPlan /\ unread = Objects
      /\ found = <<>> /\ creates = <<>> /\ updates = {} /\ unchanged = <<>>
      /\ frontier = {} /\ settled = {} /\ planPhase \in {"reading", "off"}
  BY DEF PlanStart
<1>3. ToSet(<<>>) = {} /\ IsInjective(<<>>) /\ <<>> \in Seq(Dns) /\ DOMAIN <<>> = {}
  BY EmptyInfo
<1>4. root \in DOMAIN PlanRoots(design)
  <2>1. PlanRoots(design) \in Seq(Seq(STRING)) /\ PlanRoots(design) # <<>>
    BY <1>1 DEF PlanTree
  <2>2. /\ Len(PlanRoots(design)) \in Nat \ {0}
        /\ DOMAIN PlanRoots(design) = 1..Len(PlanRoots(design))
    BY <2>1, EmptySeq, LenProperties
  <2> QED
    BY <1>2, <2>2
<1>5. PlanTypeOK
  <2>1. writes \in 0..MaxWrites
    BY <1>2, WriteAssumption
  <2>2. unread \cup DOMAIN found \cup updates \cup ToSet(unchanged) \subseteq Objects
    BY <1>2, <1>3
  <2>3. frontier \cup settled \subseteq ToSet(creates) /\ frontier \cap settled = {}
    BY <1>2
  <2> QED
    BY <1>1, <1>2, <1>4, <2>1, <2>2, <2>3 DEF PlanTypeOK
<1>6. Fabric
  <2>1. \A dn \in Declared(design) : seen[dn] = {fabric[dn]}
    BY <1>1, <1>2
  <2>2. seen \in [Declared(design) -> SUBSET (Present \cup {"absent"})]
    BY <1>1, <1>2
  <2> QED
    BY <1>1, <2>1, <2>2 DEF Fabric, FabricTree
<1>7. Read /\ RootSoFar
  BY <1>2, <1>3 DEF Read, RootSoFar
<1>8. PlanSoFar
  <2>1. Covered(root) = {}
    BY <1>2 DEF Covered
  <2> QED
    BY <1>2, <1>3, <2>1 DEF PlanSoFar, Lists, NoPlan
<1> QED
  BY <1>5, <1>6, <1>7, <1>8 DEF PlanInv

\* What an action that writes nothing and finishes no root leaves alone.
PlanStays ==
    /\ design' = design /\ root' = root /\ plan' = plan /\ seen' = seen
    /\ fabric' = fabric /\ writes' = writes

LEMMA StaysKeeps ==
    ASSUME PlanInv, PlanStays, planPhase # "over", planPhase' # "over"
    PROVE  /\ Fabric' /\ PlanSoFar' /\ Objects' = Objects /\ Root' = Root
<1>1. /\ design' = design /\ root' = root /\ plan' = plan /\ seen' = seen
      /\ fabric' = fabric
  BY DEF PlanStays
<1>2. Fabric'
  BY <1>1 DEF PlanInv, Fabric
<1>3. Covered(root)' = Covered(root) /\ Root' = Root
  BY <1>1 DEF Covered, Root
<1>4. Objects' = Objects
  BY <1>1, <1>3 DEF Objects
<1>5. PlanSoFar'
  BY <1>1, <1>3 DEF PlanInv, PlanSoFar, Lists
<1> QED
  BY <1>2, <1>3, <1>4, <1>5

LEMMA ReadObjectKeeps == PlanInv /\ (\E dn \in unread : ReadObject(dn)) => PlanInv'
<1> SUFFICES ASSUME PlanInv, NEW dn \in unread, ReadObject(dn) PROVE PlanInv'
  OBVIOUS
<1>1. /\ planPhase = "reading" /\ planPhase' = planPhase /\ unread' = unread \ {dn}
      /\ creates' = creates /\ updates' = updates /\ unchanged' = unchanged
      /\ frontier' = frontier /\ settled' = settled /\ PlanStays
  BY DEF ReadObject, PlanStays
<1>2. PlanTypeOK /\ Fabric /\ Read
  BY DEF PlanInv
<1>3. Fabric' /\ PlanSoFar' /\ Objects' = Objects
  BY <1>1, StaysKeeps
<1>4. dn \in Objects /\ dn \in Declared(design)
  BY <1>2, DesignFacts DEF PlanTypeOK
<1>5. /\ DOMAIN found' \subseteq DOMAIN found \cup {dn}
      /\ \A o \in DOMAIN found' :
            \/ o \in DOMAIN found /\ found'[o] = found[o]
            \/ o = dn /\ found'[o] = fabric[dn] /\ fabric[dn] \in Present
  BY DEF ReadObject
<1>6. seen' = seen /\ fabric[dn] \in seen[dn] /\ design' = design /\ root' = root
      /\ fabric' = fabric /\ writes' = writes
  BY <1>1, <1>2, <1>4 DEF PlanStays, Fabric
<1>7. Read'
  BY <1>1, <1>2, <1>5, <1>6 DEF Read
<1>8. PlanTypeOK'
  BY <1>1, <1>2, <1>3, <1>4, <1>5, <1>6 DEF PlanTypeOK
<1>9. RootSoFar'
  BY <1>1 DEF RootSoFar
<1> QED
  BY <1>3, <1>7, <1>8, <1>9 DEF PlanInv

LEMMA DropUnqueryableKeeps ==
    PlanInv /\ (\E c \in classes : DropUnqueryable(c)) => PlanInv'
<1> SUFFICES ASSUME PlanInv, NEW c \in classes, DropUnqueryable(c) PROVE PlanInv'
  OBVIOUS
<1>1. /\ planPhase = "reading" /\ planPhase' = planPhase
      /\ unread' \subseteq Objects /\ found' = <<>>
      /\ creates' = creates /\ updates' = updates /\ unchanged' = unchanged
      /\ frontier' = frontier /\ settled' = settled /\ PlanStays
  BY DEF DropUnqueryable, PlanStays
<1>2. PlanTypeOK /\ Fabric /\ Read
  BY DEF PlanInv
<1>3. Fabric' /\ PlanSoFar' /\ Objects' = Objects
  BY <1>1, StaysKeeps
<1>4. DOMAIN found' = {}
  BY <1>1
<1>5. /\ seen' = seen /\ design' = design /\ root' = root
      /\ fabric' = fabric /\ writes' = writes
  BY <1>1 DEF PlanStays
<1>6. Read'
  BY <1>1, <1>2, <1>4, <1>5 DEF Read
<1>7. PlanTypeOK'
  BY <1>1, <1>2, <1>3, <1>4, <1>5 DEF PlanTypeOK
<1>8. RootSoFar'
  BY <1>1 DEF RootSoFar
<1> QED
  BY <1>3, <1>6, <1>7, <1>8 DEF PlanInv

LEMMA DiffKeeps == PlanInv /\ Diff => PlanInv'
<1> SUFFICES ASSUME PlanInv, Diff PROVE PlanInv'
  OBVIOUS
<1> DEFINE current == Rebuilt(found)
           all == Desired(design, Root)
           missing == ToSet(all) \ current
           rest == current \ updates'
<1>1. /\ planPhase = "reading" /\ planPhase' = "probing"
      /\ creates' = Only(all, missing) /\ unchanged' = Only(all, rest)
      /\ updates' = {dn \in current : found[dn] = "other"}
      /\ unread' = unread /\ found' = found
      /\ frontier' = {} /\ settled' = {} /\ PlanStays
  BY DEF Diff, PlanStays
<1>2. PlanTypeOK /\ Fabric /\ Read
  BY DEF PlanInv
<1>3. Fabric' /\ PlanSoFar' /\ Objects' = Objects
  BY <1>1, StaysKeeps
<1>4. all \in Seq(Dns) /\ IsInjective(all) /\ ToSet(all) = Objects
  BY <1>2, DesignFacts DEF Objects
<1>5. /\ seen' = seen /\ design' = design /\ root' = root
      /\ fabric' = fabric /\ writes' = writes
  BY <1>1 DEF PlanStays
<1>6. current \subseteq DOMAIN found /\ current \subseteq Objects
  BY <1>2 DEF Rebuilt, PlanTypeOK
<1>7. /\ \A dn \in updates' : dn \in current /\ "other" \in seen[dn]
      /\ \A dn \in rest : dn \in current /\ "same" \in seen[dn]
  <2>1. \A dn \in current : found[dn] \in seen[dn] /\ found[dn] \in {"same", "other"}
    BY <1>2, <1>6 DEF Read, Present
  <2> QED
    BY <1>1, <2>1
<1> HIDE DEF current, all
<1>8. rest \cup updates' = current /\ rest \cap updates' = {}
  BY <1>7
<1> HIDE DEF rest, missing
<1>9. /\ creates' \in Seq(Dns) /\ IsInjective(creates') /\ ToSet(creates') = Objects \cap missing
      /\ unchanged' \in Seq(Dns) /\ IsInjective(unchanged')
      /\ ToSet(unchanged') = Objects \cap rest
  <2>1. /\ Only(all, missing) \in Seq(Dns) /\ IsInjective(Only(all, missing))
        /\ ToSet(Only(all, missing)) = ToSet(all) \cap missing
    BY <1>4, OnlyType
  <2>2. /\ Only(all, rest) \in Seq(Dns) /\ IsInjective(Only(all, rest))
        /\ ToSet(Only(all, rest)) = ToSet(all) \cap rest
    BY <1>4, OnlyType
  <2> QED
    BY <1>1, <1>4, <2>1, <2>2
<1>10. /\ ToSet(creates') = Objects \ current /\ ToSet(unchanged') = rest
       /\ rest \subseteq current /\ updates' \subseteq current
  BY <1>4, <1>6, <1>8, <1>9 DEF missing
<1>11. Lists(creates, updates, unchanged, Objects)'
  <2>1. /\ ToSet(creates') \cup ToSet(unchanged') \cup updates' = Objects
        /\ ToSet(creates') \cap ToSet(unchanged') = {}
        /\ (ToSet(creates') \cup ToSet(unchanged')) \cap updates' = {}
    BY <1>6, <1>8, <1>10
  <2>2. /\ \A dn \in updates' : "other" \in seen'[dn]
        /\ \A dn \in ToSet(unchanged') : "same" \in seen'[dn]
    BY <1>5, <1>7, <1>10
  <2> QED
    BY <1>3, <1>9, <2>1, <2>2 DEF Lists
<1>12. RootSoFar'
  BY <1>11 DEF RootSoFar
<1>13. Read'
  BY <1>1, <1>2, <1>5 DEF Read
<1>14. PlanTypeOK'
  BY <1>1, <1>2, <1>3, <1>5, <1>6, <1>10 DEF PlanTypeOK
<1> QED
  BY <1>3, <1>12, <1>13, <1>14 DEF PlanInv

LEMMA NextFrontierKeeps == PlanInv /\ NextFrontier => PlanInv'
<1> SUFFICES ASSUME PlanInv, NextFrontier PROVE PlanInv'
  OBVIOUS
<1>1. /\ planPhase = "probing" /\ planPhase' = planPhase /\ frontier' = ToVerify
      /\ unread' = unread /\ found' = found /\ settled' = settled
      /\ creates' = creates /\ updates' = updates /\ unchanged' = unchanged /\ PlanStays
  BY DEF NextFrontier, PlanStays
<1>2. PlanTypeOK /\ Fabric /\ Read /\ RootSoFar
  BY DEF PlanInv
<1>3. Fabric' /\ PlanSoFar' /\ Objects' = Objects
  BY <1>1, StaysKeeps
<1>4. /\ seen' = seen /\ design' = design /\ root' = root
      /\ fabric' = fabric /\ writes' = writes
  BY <1>1 DEF PlanStays
<1>5. ToVerify \subseteq ToSet(creates) /\ ToVerify \cap settled = {}
  BY DEF ToVerify, Boundary
<1>6. Read' /\ RootSoFar'
  BY <1>1, <1>2, <1>3, <1>4 DEF Read, RootSoFar, Lists
<1>7. PlanTypeOK'
  BY <1>1, <1>2, <1>3, <1>4, <1>5 DEF PlanTypeOK
<1> QED
  BY <1>3, <1>6, <1>7 DEF PlanInv

LEMMA PlanErrorKeeps == PlanInv /\ PlanError => PlanInv'
<1> SUFFICES ASSUME PlanInv, PlanError PROVE PlanInv'
  OBVIOUS
<1>1. /\ planPhase \in {"reading", "probing"} /\ planPhase' = "failed"
      /\ unread' = unread /\ found' = found /\ settled' = settled /\ frontier' = frontier
      /\ creates' = creates /\ updates' = updates /\ unchanged' = unchanged /\ PlanStays
  BY DEF PlanError, PlanStays, rootVars
<1>2. PlanTypeOK /\ Fabric /\ Read
  BY DEF PlanInv
<1>3. Fabric' /\ PlanSoFar' /\ Objects' = Objects
  BY <1>1, StaysKeeps
<1>4. /\ seen' = seen /\ design' = design /\ root' = root
      /\ fabric' = fabric /\ writes' = writes
  BY <1>1 DEF PlanStays
<1>5. Read' /\ RootSoFar'
  BY <1>1, <1>2, <1>4 DEF Read, RootSoFar
<1>6. PlanTypeOK'
  BY <1>1, <1>2, <1>3, <1>4 DEF PlanTypeOK
<1> QED
  BY <1>3, <1>5, <1>6 DEF PlanInv

LEMMA ProbeKeeps == PlanInv /\ (\E dn \in frontier : Probe(dn)) => PlanInv'
<1> SUFFICES ASSUME PlanInv, NEW dn \in frontier, Probe(dn) PROVE PlanInv'
  OBVIOUS
<1>1. /\ planPhase = "probing" /\ planPhase' = planPhase /\ frontier' = frontier \ {dn}
      /\ unread' = unread /\ found' = found /\ PlanStays
  BY DEF Probe, PlanStays
<1>2. PlanTypeOK /\ Fabric /\ Read /\ RootSoFar
  BY DEF PlanInv
<1>3. Fabric' /\ PlanSoFar' /\ Objects' = Objects
  BY <1>1, StaysKeeps
<1>4. /\ seen' = seen /\ design' = design /\ root' = root
      /\ fabric' = fabric /\ writes' = writes
  BY <1>1 DEF PlanStays
<1>5. /\ creates \in Seq(Dns) /\ unchanged \in Seq(Dns)
      /\ IsInjective(creates) /\ IsInjective(unchanged)
      /\ ToSet(creates) \cup ToSet(unchanged) \cup updates = Objects
      /\ ToSet(creates) \cap ToSet(unchanged) = {}
      /\ (ToSet(creates) \cup ToSet(unchanged)) \cap updates = {}
      /\ \A o \in updates : "other" \in seen[o]
      /\ \A o \in ToSet(unchanged) : "same" \in seen[o]
  BY <1>1, <1>2 DEF RootSoFar, Lists
<1>6. /\ dn \in ToSet(creates) /\ dn \notin settled /\ dn \in Objects
      /\ frontier \cup settled \subseteq ToSet(creates) /\ frontier \cap settled = {}
  BY <1>2, <1>5 DEF PlanTypeOK
<1>7. /\ fabric[dn] \in seen[dn] /\ fabric[dn] \in {"same", "other", "absent"}
      /\ dn \in Dns /\ dn \in Declared(design)
  <2>1. dn \in Declared(design) /\ dn \in Dns
    BY <1>2, <1>6, DesignFacts
  <2> QED
    BY <1>2, <2>1 DEF Fabric, PlanTypeOK, Present
<1>8. CASE fabric[dn] = "absent"
  <2>1. /\ settled' = settled \cup {dn}
        /\ creates' = creates /\ updates' = updates /\ unchanged' = unchanged
    BY <1>8 DEF Probe
  <2>2. Read'
    BY <1>1, <1>2, <1>4, <1>7, <1>8, <2>1 DEF Read
  <2>3. RootSoFar'
    BY <1>2, <1>1, <1>3, <1>4, <2>1 DEF RootSoFar, Lists
  <2>4. PlanTypeOK'
    <3>1. frontier' \cup settled' \subseteq ToSet(creates') /\ frontier' \cap settled' = {}
      BY <1>1, <1>6, <2>1
    <3> QED
      BY <1>1, <1>2, <1>3, <1>4, <2>1, <3>1 DEF PlanTypeOK
  <2> QED
    BY <1>3, <2>2, <2>3, <2>4 DEF PlanInv
<1>9. CASE fabric[dn] # "absent"
  <2> DEFINE others == ToSet(creates) \ {dn}
  <2>1. settled' = settled /\ creates' = Only(creates, others)
    BY <1>9 DEF Probe
  <2>2. \/ /\ fabric[dn] = "other" /\ updates' = updates \cup {dn} /\ unchanged' = unchanged
        \/ /\ fabric[dn] = "same" /\ updates' = updates
           /\ unchanged' = Append(unchanged, dn)
    BY <1>7, <1>9 DEF Probe
  <2> HIDE DEF others
  <2>3. /\ creates' \in Seq(Dns) /\ IsInjective(creates')
        /\ ToSet(creates') = ToSet(creates) \cap others
    BY <1>5, <2>1, OnlyType
  <2>4. ToSet(creates') = ToSet(creates) \ {dn}
    BY <2>3 DEF others
  <2>5. Read'
    BY <1>1, <1>2, <1>4, <2>1 DEF Read
  <2>6. /\ unchanged' \in Seq(Dns) /\ IsInjective(unchanged')
        /\ \/ /\ fabric[dn] = "other" /\ updates' = updates \cup {dn}
              /\ ToSet(unchanged') = ToSet(unchanged)
           \/ /\ fabric[dn] = "same" /\ updates' = updates
              /\ ToSet(unchanged') = ToSet(unchanged) \cup {dn}
    <3>1. dn \notin ToSet(unchanged)
      BY <1>5, <1>6
    <3>2. /\ Append(unchanged, dn) \in Seq(Dns) /\ IsInjective(Append(unchanged, dn))
          /\ ToSet(Append(unchanged, dn)) = ToSet(unchanged) \cup {dn}
      BY <1>5, <1>7, <3>1, AppendSet, AppendProperties
    <3> QED
      BY <1>5, <2>2, <3>2
  <2>7. /\ ToSet(creates') \cup ToSet(unchanged') \cup updates' = Objects
        /\ ToSet(creates') \cap ToSet(unchanged') = {}
        /\ (ToSet(creates') \cup ToSet(unchanged')) \cap updates' = {}
    BY <1>5, <1>6, <2>4, <2>6
  <2>8. /\ \A o \in updates' : "other" \in seen'[o]
        /\ \A o \in ToSet(unchanged') : "same" \in seen'[o]
    BY <1>4, <1>5, <1>7, <2>6
  <2>9. RootSoFar'
    BY <1>3, <2>3, <2>6, <2>7, <2>8 DEF RootSoFar, Lists
  <2>10. PlanTypeOK'
    <3>1. frontier' \cup settled' \subseteq ToSet(creates') /\ frontier' \cap settled' = {}
      BY <1>1, <1>6, <2>1, <2>4
    <3>2. unread' \cup DOMAIN found' \cup updates' \cup ToSet(unchanged') \subseteq Objects
      BY <1>1, <1>2, <2>7 DEF PlanTypeOK
    <3> QED
      BY <1>1, <1>2, <1>3, <1>4, <3>1, <3>2 DEF PlanTypeOK
  <2> QED
    BY <1>3, <2>5, <2>9, <2>10 DEF PlanInv
<1> QED
  BY <1>8, <1>9

\* Once no create at the boundary is left to be verified, every create was
\* absent at some moment: its topmost create was, and it with it.
LEMMA CreatesWereAbsent ==
    ASSUME PlanTypeOK, Fabric, Read, ToVerify = {}, ToSet(creates) \subseteq Objects,
           NEW dn \in ToSet(creates)
    PROVE  "absent" \in seen[dn]
<1>1. /\ dn \in Declared(design) /\ dn \in Dns /\ dn # <<>>
      /\ ToSet(creates) \subseteq Declared(design)
      /\ Declared(design) \subseteq Dns \ {<<>>}
  BY DesignFacts
<1>2. Len(dn) \in Nat \ {0}
  BY <1>1, EmptySeq DEF Dns
<1> DEFINE N == {n \in 1..Len(dn) : SubSeq(dn, 1, n) \in ToSet(creates)}
<1>3. N \in SUBSET Nat /\ Len(dn) \in N
  <2>1. SubSeq(dn, 1, Len(dn)) = dn
    BY <1>1, SubSeqFull DEF Dns
  <2>2. Len(dn) \in 1..Len(dn) /\ \A n \in 1..Len(dn) : n \in Nat
    BY <1>2
  <2>3. SubSeq(dn, 1, Len(dn)) \in ToSet(creates)
    BY <2>1
  <2> QED
    BY <2>2, <2>3
<1>4. PICK n \in N : \A m \in N : n <= m
  <2> HIDE DEF N
  <2> QED
    BY <1>3, LeastNumber
<1> DEFINE top == SubSeq(dn, 1, n)
<1>5. /\ top \in Seq(STRING) /\ Len(top) = n /\ top \in ToSet(creates) /\ n \in 1..Len(dn)
      /\ IsPrefix(top, dn)
  <2>1. dn \in Seq(STRING) /\ n \in 1..Len(dn) /\ Len(dn) \in Nat
    BY <1>1, <1>2, <1>4 DEF Dns
  <2>2. top \in Seq(STRING) /\ Len(top) = n
    <3>1. \A i \in 1..n : dn[i] \in STRING
      BY <2>1, ElementOfSeq
    <3>2. 1 \in Int /\ n \in Int /\ 1 <= n
      BY <2>1
    <3>3. top \in Seq(STRING) /\ Len(top) = IF 1 <= n THEN n - 1 + 1 ELSE 0
      BY <3>1, <3>2, SubSeqProperties
    <3> QED
      BY <3>2, <3>3
  <2>3. SubSeq(top, 1, n) = top
    BY <2>2, SubSeqFull
  <2> QED
    BY <1>4, <2>1, <2>2, <2>3 DEF IsPrefix
<1>6. top \in settled
  <2>1. Parent(top) \notin ToSet(creates)
    <3>1. Parent(top) = SubSeq(dn, 1, n - 1)
      BY <1>1, <1>5 DEF Parent, Front, Dns
    <3>2. CASE n = 1
      <4>1. Parent(top) = <<>>
        BY <3>1, <3>2, SubSeqEmpty
      <4> QED
        BY <1>1, <4>1
    <3>3. CASE n # 1
      <4>1. n - 1 \in 1..Len(dn) /\ ~(n <= n - 1)
        BY <1>5, <3>3
      <4>2. n - 1 \notin N
        BY <1>4, <4>1
      <4> QED
        BY <3>1, <4>1, <4>2
    <3> QED
      BY <3>2, <3>3
  <2>2. top \in Boundary(ToSet(creates))
    BY <1>5, <2>1 DEF Boundary
  <2> QED
    BY <2>2 DEF ToVerify
<1>7. "absent" \in seen[top] /\ top \in Declared(design)
  BY <1>1, <1>5, <1>6 DEF Read
<1> QED
  BY <1>1, <1>5, <1>7 DEF Fabric

LEMMA NextCovered ==
    ASSUME PlanTypeOK, Fabric
    PROVE  /\ Covered(root) \cap Objects = {}
           /\ Covered(root + 1) = Covered(root) \cup Objects
           /\ root = Len(PlanRoots(design)) => Declared(design) = Covered(root) \cup Objects
<1> DEFINE roots == PlanRoots(design)
           all(i) == ToSet(Desired(design, roots[i]))
<1>1. /\ root \in Nat /\ DOMAIN roots = 1..Len(roots) /\ root \in 1..Len(roots)
      /\ Len(roots) \in Nat
  BY DesignFacts
<1>2. Objects = all(root)
  BY DEF Objects, Root
<1>3. Covered(root) = UNION {all(i) : i \in 1..root - 1}
  BY DEF Covered
<1>4. Covered(root + 1) = UNION {all(i) : i \in 1..root}
  <2>1. (root + 1) - 1 = root
    BY <1>1
  <2> QED
    BY <2>1 DEF Covered
<1>5. Declared(design) = UNION {all(i) : i \in 1..Len(roots)}
  <2>1. ToSet(roots) = {roots[i] : i \in 1..Len(roots)}
    BY <1>1 DEF ToSet
  <2> QED
    BY <2>1 DEF Declared
<1>6. \A i, j \in 1..Len(roots) : i # j => all(i) \cap all(j) = {}
  BY <1>1 DEF Fabric, PlanTree
<1> HIDE DEF roots, all
<1>7. \A i \in 1..root - 1 : i \in 1..Len(roots) /\ i # root
  BY <1>1
<1>8. Covered(root) \cap Objects = {}
  BY <1>1, <1>2, <1>3, <1>6, <1>7
<1>9. \A i \in 1..root : i \in 1..root - 1 \/ i = root
  BY <1>1
<1>10. root \in 1..root /\ \A i \in 1..root - 1 : i \in 1..root
  BY <1>1
<1>11. Covered(root + 1) = Covered(root) \cup Objects
  BY <1>2, <1>3, <1>4, <1>9, <1>10
<1> QED
  BY <1>4, <1>5, <1>8, <1>11 DEF roots

LEMMA RootDoneKeeps == PlanInv /\ RootDone => PlanInv'
<1> SUFFICES ASSUME PlanInv, RootDone PROVE PlanInv'
  OBVIOUS
<1>1. /\ planPhase = "probing" /\ ToVerify = {}
      /\ plan' = [creates   |-> plan.creates \o creates,
                  updates   |-> plan.updates \cup updates,
                  unchanged |-> plan.unchanged \o unchanged]
      /\ design' = design /\ fabric' = fabric /\ seen' = seen /\ writes' = writes
  BY DEF RootDone
<1>2. PlanTypeOK /\ Fabric /\ Read
  BY DEF PlanInv
<1>3. Lists(creates, updates, unchanged, Objects)
  BY <1>1 DEF PlanInv, RootSoFar
<1>4. /\ Lists(plan.creates, plan.updates, plan.unchanged, Covered(root))
      /\ \A dn \in ToSet(plan.creates) : "absent" \in seen[dn]
  BY <1>1 DEF PlanInv, PlanSoFar
<1>5. \A dn \in ToSet(creates) : "absent" \in seen[dn]
  <2>1. ToSet(creates) \subseteq Objects
    BY <1>3 DEF Lists
  <2> QED
    BY <1>1, <1>2, <2>1, CreatesWereAbsent
<1> DEFINE cr == plan.creates \o creates
           up == plan.updates \cup updates
           un == plan.unchanged \o unchanged
           old == Covered(root)
           new == Objects
<1>6. old \cap new = {}
  BY <1>2, NextCovered
<1> HIDE DEF old, new
<1>7. /\ plan.creates \in Seq(Dns) /\ plan.unchanged \in Seq(Dns)
      /\ IsInjective(plan.creates) /\ IsInjective(plan.unchanged)
      /\ ToSet(plan.creates) \cup ToSet(plan.unchanged) \cup plan.updates = old
      /\ ToSet(plan.creates) \cap ToSet(plan.unchanged) = {}
      /\ (ToSet(plan.creates) \cup ToSet(plan.unchanged)) \cap plan.updates = {}
      /\ \A dn \in plan.updates : "other" \in seen[dn]
      /\ \A dn \in ToSet(plan.unchanged) : "same" \in seen[dn]
  BY <1>4 DEF Lists, old
<1>8. /\ creates \in Seq(Dns) /\ unchanged \in Seq(Dns)
      /\ IsInjective(creates) /\ IsInjective(unchanged)
      /\ ToSet(creates) \cup ToSet(unchanged) \cup updates = new
      /\ ToSet(creates) \cap ToSet(unchanged) = {}
      /\ (ToSet(creates) \cup ToSet(unchanged)) \cap updates = {}
      /\ \A dn \in updates : "other" \in seen[dn]
      /\ \A dn \in ToSet(unchanged) : "same" \in seen[dn]
  BY <1>3 DEF Lists, new
<1>9. /\ cr \in Seq(Dns) /\ IsInjective(cr) /\ ToSet(cr) = ToSet(plan.creates) \cup ToSet(creates)
  <2>1. ToSet(plan.creates) \cap ToSet(creates) = {}
    BY <1>6, <1>7, <1>8
  <2> QED
    BY <1>7, <1>8, <2>1, ConcatProperties, ConcatSet, ConcatInjective
<1>10. /\ un \in Seq(Dns) /\ IsInjective(un)
       /\ ToSet(un) = ToSet(plan.unchanged) \cup ToSet(unchanged)
  <2>1. ToSet(plan.unchanged) \cap ToSet(unchanged) = {}
    BY <1>6, <1>7, <1>8
  <2> QED
    BY <1>7, <1>8, <2>1, ConcatProperties, ConcatSet, ConcatInjective
<1>11. plan'.creates = cr /\ plan'.updates = up /\ plan'.unchanged = un
  BY <1>1
<1> HIDE DEF cr, un
<1>12. /\ ToSet(cr) \cup ToSet(un) \cup up = old \cup new
       /\ ToSet(cr) \cap ToSet(un) = {} /\ (ToSet(cr) \cup ToSet(un)) \cap up = {}
       /\ \A dn \in up : "other" \in seen[dn]
       /\ \A dn \in ToSet(un) : "same" \in seen[dn]
       /\ \A dn \in ToSet(cr) : "absent" \in seen[dn]
  <2>1. ToSet(cr) \cup ToSet(un) \cup up = old \cup new
    BY <1>7, <1>8, <1>9, <1>10
  <2>2. ToSet(cr) \cap ToSet(un) = {}
    BY <1>6, <1>7, <1>8, <1>9, <1>10
  <2>3. (ToSet(cr) \cup ToSet(un)) \cap up = {}
    BY <1>6, <1>7, <1>8, <1>9, <1>10
  <2>4. \A dn \in up : "other" \in seen[dn]
    BY <1>7, <1>8
  <2>5. \A dn \in ToSet(un) : "same" \in seen[dn]
    BY <1>7, <1>8, <1>10
  <2>6. \A dn \in ToSet(cr) : "absent" \in seen[dn]
    BY <1>4, <1>5, <1>9
  <2> QED
    BY <2>1, <2>2, <2>3, <2>4, <2>5, <2>6
<1> HIDE DEF up
<1>13. Fabric'
  BY <1>1, <1>2 DEF Fabric
<1>14. root \in Nat /\ DOMAIN PlanRoots(design) = 1..Len(PlanRoots(design))
       /\ root \in 1..Len(PlanRoots(design)) /\ Len(PlanRoots(design)) \in Nat
  BY <1>2, DesignFacts
<1>15. CASE root < Len(PlanRoots(design))
  <2>1. /\ root' = root + 1 /\ planPhase' = "reading"
        /\ unread' = ToSet(Desired(design, PlanRoots(design)[root + 1]))
        /\ found' = <<>> /\ creates' = <<>> /\ updates' = {} /\ unchanged' = <<>>
        /\ frontier' = {} /\ settled' = {}
    BY <1>15 DEF RootDone, StartRoot
  <2>2. Objects' = unread'
    BY <1>1, <2>1 DEF Objects, Root
  <2>3. DOMAIN found' = {} /\ ToSet(unchanged') = {}
    BY <2>1, EmptyInfo
  <2>4. root' \in DOMAIN PlanRoots(design)
    BY <1>14, <1>15, <2>1
  <2>5. PlanTypeOK'
    BY <1>1, <1>2, <2>1, <2>2, <2>3, <2>4 DEF PlanTypeOK
  <2>6. Read' /\ RootSoFar'
    BY <2>1, <2>3 DEF Read, RootSoFar
  <2>7. Covered(root)' = old \cup new
    <3>1. Covered(root)' = Covered(root + 1)
      BY <1>1, <2>1 DEF Covered
    <3> QED
      BY <1>2, <3>1, NextCovered DEF old, new
  <2>8. PlanSoFar'
    BY <1>1, <1>9, <1>10, <1>11, <1>12, <2>1, <2>7 DEF PlanSoFar, Lists
  <2> QED
    BY <1>13, <2>5, <2>6, <2>8 DEF PlanInv
<1>16. CASE ~(root < Len(PlanRoots(design)))
  <2>1. /\ planPhase' = "over" /\ root' = root /\ unread' = unread /\ found' = found
        /\ creates' = creates /\ updates' = updates /\ unchanged' = unchanged
        /\ frontier' = frontier /\ settled' = settled
    BY <1>16 DEF RootDone, rootVars
  <2>2. Objects' = Objects
    BY <1>1, <2>1 DEF Objects, Root
  <2>3. PlanTypeOK'
    BY <1>1, <1>2, <2>1, <2>2 DEF PlanTypeOK
  <2>4. Read' /\ RootSoFar'
    BY <1>1, <1>2, <2>1 DEF Read, RootSoFar
  <2>5. Declared(design) = old \cup new
    <3>1. root = Len(PlanRoots(design))
      <4>1. PICK n \in Nat : n = Len(PlanRoots(design)) /\ root \in 1..n
        BY <1>14
      <4>2. root \in Int /\ root <= n /\ ~(root < n)
        BY <1>16, <4>1
      <4> QED
        BY <4>1, <4>2, SMTT(60)
    <3> QED
      BY <1>2, <3>1, NextCovered DEF old, new
  <2>6. PlanSoFar'
    BY <1>1, <1>9, <1>10, <1>11, <1>12, <2>1, <2>5 DEF PlanSoFar, Lists
  <2> QED
    BY <1>13, <2>3, <2>4, <2>6 DEF PlanInv
<1> QED
  BY <1>15, <1>16

\* The prefixes of an object but itself are prefixes of its parent.
LEMMA PrefixOfParent ==
    ASSUME NEW p \in Seq(STRING), NEW dn \in Seq(STRING), IsStrictPrefix(p, dn)
    PROVE  IsPrefix(p, Parent(dn)) /\ Parent(dn) \in Seq(STRING)
<1>1. IsPrefix(p, dn) /\ Len(p) < Len(dn) /\ Len(p) \in Nat /\ Len(dn) \in Nat
  BY PrefixShorter, LenProperties DEF IsStrictPrefix
<1>2. Parent(dn) = SubSeq(dn, 1, Len(dn) - 1)
  BY DEF Parent, Front
<1>3. Len(p) <= Len(dn) - 1 /\ Len(dn) - 1 \in Nat
  BY <1>1
<1>4. \A i \in 1..Len(dn) - 1 : dn[i] \in STRING
  BY <1>1, ElementOfSeq
<1>5. /\ Parent(dn) \in Seq(STRING) /\ Len(Parent(dn)) = Len(dn) - 1
      /\ \A i \in 1..Len(dn) - 1 : Parent(dn)[i] = dn[i]
  <2>1. PICK m \in Nat : m = Len(dn) - 1
    BY <1>3
  <2>2. \A i \in 1..m : dn[i] \in STRING
    BY <1>4, <2>1
  <2>3. /\ SubSeq(dn, 1, m) \in Seq(STRING) /\ Len(SubSeq(dn, 1, m)) = m
        /\ \A i \in 1..m : SubSeq(dn, 1, m)[i] = dn[i]
    BY <2>1, <2>2
  <2> QED
    BY <1>2, <2>1, <2>3
<1>6. \A i \in 1..Len(p) : p[i] = dn[i]
  BY <1>1 DEF IsPrefix
<1>7. \A i \in 1..Len(p) : i \in 1..Len(dn) - 1
  BY <1>1, <1>3
<1>8. SubSeq(p, 1, Len(p)) = SubSeq(Parent(dn), 1, Len(p))
  BY <1>1, <1>3, <1>5, <1>6, <1>7
<1> QED
  BY <1>3, <1>5, <1>8 DEF IsPrefix

LEMMA OtherWritesKeeps == PlanInv /\ PlanOthers => PlanInv'
<1> SUFFICES ASSUME PlanInv, NEW dn \in DOMAIN fabric, NEW v \in Present \cup {"absent"},
                    OtherWrites(dn, v)
             PROVE  PlanInv'
  BY DEF PlanOthers
<1>1. /\ writes < MaxWrites /\ Exists(Parent(dn)) /\ writes' = writes + 1
      /\ fabric' = [o \in DOMAIN fabric |->
                       IF o = dn \/ (v = "absent" /\ IsPrefix(dn, o)) THEN v ELSE fabric[o]]
      /\ seen' = [o \in DOMAIN seen |-> seen[o] \cup {fabric'[o]}]
  BY DEF OtherWrites
<1>2. /\ design' = design /\ root' = root /\ plan' = plan /\ planPhase' = planPhase
      /\ unread' = unread /\ found' = found /\ settled' = settled /\ frontier' = frontier
      /\ creates' = creates /\ updates' = updates /\ unchanged' = unchanged
  BY DEF OtherWrites, rootVars
<1>3. PlanTypeOK /\ Fabric /\ Read /\ RootSoFar /\ PlanSoFar
  BY DEF PlanInv
<1> DEFINE all == Declared(design)
           values == Present \cup {"absent"}
<1>4. /\ fabric \in [all -> values] /\ FabricTree(fabric) /\ PlanTree(design)
      /\ seen \in [all -> SUBSET values] /\ all \subseteq Dns \ {<<>>}
      /\ \A p, o \in all : IsPrefix(p, o) /\ "absent" \in seen[p] => "absent" \in seen[o]
      /\ \A o \in all : fabric[o] \in seen[o]
  BY <1>3, DesignFacts DEF PlanTypeOK, Fabric
<1>5. \A p, o \in all : IsStrictPrefix(p, o) => Parent(o) \in all
  BY <1>4 DEF PlanTree
<1> HIDE DEF all, values
<1>6. /\ \A o \in all :
            fabric'[o] = IF o = dn \/ (v = "absent" /\ IsPrefix(dn, o)) THEN v ELSE fabric[o]
      /\ dn \in all /\ v \in values
  BY <1>1, <1>4 DEF values
<1>7. fabric' \in [all -> values]
  BY <1>1, <1>4, <1>6
<1>8. /\ seen' \in [all -> SUBSET values]
      /\ \A o \in all : seen'[o] = seen[o] \cup {fabric'[o]}
  BY <1>1, <1>4, <1>7
<1>9. ASSUME NEW p \in all, NEW o \in all, IsPrefix(p, o), fabric'[p] = "absent"
      PROVE  fabric'[o] = "absent"
  <2>0. p \in Seq(STRING) /\ o \in Seq(STRING) /\ dn \in Seq(STRING)
    BY <1>4, <1>6 DEF Dns
  <2>1. fabric[p] = "absent" => fabric[o] = "absent"
    BY <1>4, <1>9 DEF FabricTree
  <2>2. CASE v = "absent"
    <3>1. CASE p = dn \/ IsPrefix(dn, p)
      <4>1. IsPrefix(dn, o)
        BY <1>9, <2>0, <3>1, PrefixTransitive
      <4> QED
        BY <1>6, <2>2, <4>1
    <3>2. CASE ~(p = dn \/ IsPrefix(dn, p))
      BY <1>6, <1>9, <2>1, <2>2, <3>2
    <3> QED
      BY <3>1, <3>2
  <2>3. CASE v # "absent"
    <3>1. p # dn /\ fabric[p] = "absent" /\ fabric[o] = "absent"
      BY <1>6, <1>9, <2>1, <2>3
    <3>2. CASE o # dn
      BY <1>6, <2>3, <3>1, <3>2
    <3>3. CASE o = dn
      <4>1. IsStrictPrefix(p, dn)
        BY <1>9, <3>1, <3>3 DEF IsStrictPrefix
      <4>2. Parent(dn) \in all /\ IsPrefix(p, Parent(dn))
        BY <1>5, <1>6, <2>0, <4>1, PrefixOfParent
      <4>3. fabric[Parent(dn)] = "absent"
        BY <1>4, <3>1, <4>2 DEF FabricTree
      <4>4. fabric[Parent(dn)] \in Present
        BY <1>1, <1>4, <4>2 DEF Exists
      <4> QED
        BY <4>3, <4>4 DEF Present
    <3> QED
      BY <3>2, <3>3
  <2> QED
    BY <2>2, <2>3
<1>10. FabricTree(fabric')
  BY <1>7, <1>9 DEF FabricTree
<1>11. ASSUME NEW p \in all, NEW o \in all, IsPrefix(p, o), "absent" \in seen'[p]
       PROVE  "absent" \in seen'[o]
  <2>1. "absent" \in seen[p] \/ fabric'[p] = "absent"
    BY <1>8, <1>11
  <2> QED
    BY <1>4, <1>8, <1>9, <1>11, <2>1
<1>12. Fabric'
  BY <1>2, <1>4, <1>8, <1>10, <1>11 DEF Fabric, all, values
<1>13. Objects' = Objects /\ Covered(root)' = Covered(root) /\ Objects \subseteq all
  BY <1>2, <1>3, DesignFacts DEF Objects, Root, Covered, all
<1>14. PlanTypeOK'
  <2>1. writes' \in 0..MaxWrites
    BY <1>1, <1>3, WriteAssumption DEF PlanTypeOK
  <2> QED
    BY <1>2, <1>3, <1>7, <1>13, <2>1 DEF PlanTypeOK, all, values
<1>15. \A o \in all : seen[o] \subseteq seen'[o]
  BY <1>8
<1>16. Read'
  <2>1. DOMAIN found \subseteq all /\ settled \subseteq all
    BY <1>3, <1>13 DEF PlanTypeOK, Read, all
  <2> QED
    BY <1>2, <1>3, <1>15, <2>1 DEF Read, all
<1>17. RootSoFar'
  <2> SUFFICES ASSUME planPhase = "probing" PROVE Lists(creates, updates, unchanged, Objects)'
    BY <1>2 DEF RootSoFar
  <2>1. Lists(creates, updates, unchanged, Objects)
    BY <1>3 DEF RootSoFar
  <2> QED
    BY <1>2, <1>13, <1>15, <2>1 DEF Lists
<1>18. PlanSoFar'
  <2>1. planPhase # "over"
    BY DEF OtherWrites
  <2>2. Covered(root) \subseteq all
    <3>1. /\ root \in Nat /\ root \in 1..Len(PlanRoots(design)) /\ Len(PlanRoots(design)) \in Nat
          /\ DOMAIN PlanRoots(design) = 1..Len(PlanRoots(design))
      BY <1>3, DesignFacts
    <3>2. \A i \in 1..root - 1 : i \in DOMAIN PlanRoots(design)
      BY <3>1
    <3> QED
      BY <3>2 DEF Covered, all, Declared, ToSet
  <2>3. /\ Lists(plan.creates, plan.updates, plan.unchanged, Covered(root))
        /\ \A o \in ToSet(plan.creates) : "absent" \in seen[o]
    BY <1>3, <2>1 DEF PlanSoFar
  <2>4. ToSet(plan.creates) \subseteq all /\ plan.updates \subseteq all
        /\ ToSet(plan.unchanged) \subseteq all
    BY <2>2, <2>3 DEF Lists
  <2>5. \A o \in ToSet(plan.creates) : "absent" \in seen'[o]
    BY <1>15, <2>3, <2>4
  <2>6. Lists(plan.creates, plan.updates, plan.unchanged, Covered(root))'
    BY <1>2, <1>13, <1>15, <2>3, <2>4 DEF Lists
  <2> QED
    BY <1>2, <2>1, <2>5, <2>6 DEF PlanSoFar
<1> QED
  BY <1>12, <1>14, <1>16, <1>17, <1>18 DEF PlanInv

LEMMA PlanStutterKeeps == PlanInv /\ UNCHANGED planVars => PlanInv'
<1> SUFFICES ASSUME PlanInv, UNCHANGED planVars PROVE PlanInv'
  OBVIOUS
<1>1. /\ design' = design /\ fabric' = fabric /\ root' = root /\ plan' = plan
      /\ planPhase' = planPhase /\ seen' = seen /\ writes' = writes
      /\ unread' = unread /\ found' = found /\ settled' = settled /\ frontier' = frontier
      /\ creates' = creates /\ updates' = updates /\ unchanged' = unchanged
  BY DEF planVars, rootVars
<1>2. Objects' = Objects /\ Covered(root)' = Covered(root)
  BY <1>1 DEF Objects, Root, Covered
<1>3. PlanTypeOK' /\ Fabric' /\ Read'
  BY <1>1, <1>2 DEF PlanInv, PlanTypeOK, Fabric, Read
<1>4. RootSoFar' /\ PlanSoFar'
  BY <1>1, <1>2 DEF PlanInv, RootSoFar, PlanSoFar, Lists
<1> QED
  BY <1>3, <1>4 DEF PlanInv

LEMMA PlanStepKeeps == PlanInv /\ (PlanNext \/ PlanOthers \/ UNCHANGED planVars) => PlanInv'
<1> SUFFICES ASSUME PlanInv, PlanNext \/ PlanOthers \/ UNCHANGED planVars PROVE PlanInv'
  OBVIOUS
<1>1. CASE \E dn \in unread : ReadObject(dn)
  BY <1>1, ReadObjectKeeps
<1>2. CASE \E c \in classes : DropUnqueryable(c)
  BY <1>2, DropUnqueryableKeeps
<1>3. CASE Diff
  BY <1>3, DiffKeeps
<1>4. CASE NextFrontier
  BY <1>4, NextFrontierKeeps
<1>5. CASE RootDone
  BY <1>5, RootDoneKeeps
<1>6. CASE PlanError
  BY <1>6, PlanErrorKeeps
<1>7. CASE \E dn \in frontier : Probe(dn)
  BY <1>7, ProbeKeeps
<1>8. CASE PlanOthers
  BY <1>8, OtherWritesKeeps
<1>9. CASE UNCHANGED planVars
  BY <1>9, PlanStutterKeeps
<1> QED
  BY <1>1, <1>2, <1>3, <1>4, <1>5, <1>6, <1>7, <1>8, <1>9 DEF PlanNext

LEMMA PlanIsTrue == PlanInv => PlanHeld
<1> SUFFICES ASSUME PlanInv, planPhase = "over"
             PROVE  /\ IsInjective(plan.creates \o plan.unchanged)
                    /\ (ToSet(plan.creates) \cup ToSet(plan.unchanged)) \cap plan.updates = {}
                    /\ ToSet(plan.creates) \cup ToSet(plan.unchanged) \cup plan.updates
                          = Declared(design)
                    /\ \A dn \in ToSet(plan.creates)   : "absent" \in seen[dn]
                    /\ \A dn \in plan.updates          : "other" \in seen[dn]
                    /\ \A dn \in ToSet(plan.unchanged) : "same" \in seen[dn]
  BY DEF PlanHeld
<1>1. /\ Lists(plan.creates, plan.updates, plan.unchanged, Declared(design))
      /\ \A dn \in ToSet(plan.creates) : "absent" \in seen[dn]
  BY DEF PlanInv, PlanSoFar
<1>2. IsInjective(plan.creates \o plan.unchanged)
  BY <1>1, ConcatInjective DEF Lists
<1> QED
  BY <1>1, <1>2 DEF Lists

-------------------------------------------------------------------------------
(* The theorems.                                                           *)

PushAndPlanInv == PushInv /\ PlanInv

LEMMA PushStarts == PushInit => PushAndPlanInv
<1> SUFFICES ASSUME PushInit PROVE PushAndPlanInv
  OBVIOUS
<1>1. ops \in OpLists /\ bound \in Concurrency /\ \E p \in {"between", "off"} : Start(p)
  BY OpListAssumption, ConcurrencyAssumption DEF PushInit, Init, NotStagedInit
<1>2. \E c \in PlanCases : PlanOf(c) /\ \E p \in {"reading", "off"} : PlanStart(p)
  BY PlanCaseAssumption DEF PushInit, PlanInit, NoPlanInit
<1> QED
  BY <1>1, <1>2, StartKeeps, PlanStartKeeps DEF PushAndPlanInv

LEMMA PushKeeps == PushAndPlanInv /\ [PushNext]_<<vars, planVars>> => PushAndPlanInv'
<1>1. ASSUME PushAndPlanInv, [PushNext]_<<vars, planVars>> PROVE PushAndPlanInv'
  <2>1. [Next]_vars
    BY <1>1 DEF PushNext, PushStep
  <2>2. PlanNext \/ PlanOthers \/ UNCHANGED planVars
    BY <1>1 DEF PushNext, PushStep
  <2> QED
    BY <1>1, <2>1, <2>2, PushStepKeeps, PlanStepKeeps DEF PushAndPlanInv
<1> QED
  BY <1>1

LEMMA PushInvariant == PushSpec => []PushAndPlanInv
  BY PushStarts, PushKeeps, PTL DEF PushSpec

\* The types of both modules: no more than max_concurrent operations are in
\* flight, a plan's frontier and what it has verified are among its creates.
THEOREM PushTypes == PushSpec => []PushTypeOK
<1>1. PushAndPlanInv => PushTypeOK
  BY DEF PushAndPlanInv, PushInv, PlanInv, PushTypeOK
<1> QED
  BY <1>1, PushInvariant, PTL

\* However many workers pull and in whatever order the APIC answers, an
\* operation is sent only after every operation above it has succeeded.
THEOREM ParentsAlwaysFirst == PushSpec => []ParentsFirst
<1>1. PushAndPlanInv => ParentsFirst
  BY ParentsCameFirst DEF PushAndPlanInv
<1> QED
  BY <1>1, PushInvariant, PTL

\* A failed operation keeps its own subtree from being run, and nothing else.
THEOREM FailuresAreIsolated == PushSpec => []OnlySubtreesSkipped
<1>1. PushAndPlanInv => OnlySubtreesSkipped
  BY SubtreesSkipped DEF PushAndPlanInv
<1> QED
  BY <1>1, PushInvariant, PTL

\* The concurrent engine reports what the sequential one would have reported
\* of the same failures, in the same order.
THEOREM AnyOrderSameReport == PushSpec => []SameAsSync
<1>1. PushAndPlanInv => SameAsSync
  BY SameOutcome DEF PushAndPlanInv
<1> QED
  BY <1>1, PushInvariant, PTL

\* A plan reports every declared object it covers once, and what it reports of
\* each was true while it ran.
THEOREM PlansAreTrue == PushSpec => []PlanHeld
<1>1. PushAndPlanInv => PlanHeld
  BY PlanIsTrue DEF PushAndPlanInv
<1> QED
  BY <1>1, PushInvariant, PTL
===============================================================================
