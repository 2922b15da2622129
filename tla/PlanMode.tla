------------------------------- MODULE PlanMode -------------------------------
(***************************************************************************)
(* push(mode = "plan"), design/_push.py and _read.py: for each root of the *)
(* design the fabric is read in pieces, the tree rebuilt from what was     *)
(* found and compared, and then each create whose parent is no create is   *)
(* verified by a read of its own, level after level, while others write.   *)
(***************************************************************************)
EXTENDS DesignOps, FiniteSets, Functions

CONSTANTS
    PlanCases,      \* the designs to plan, each with a fabric to start from, the
                    \* objects no scoped read finds, and the illegal classes
    MaxWrites       \* bound: writes of others while the plan runs

ASSUME WriteAssumption == MaxWrites \in Nat

VARIABLES
    design,     \* what is declared
    deaf,       \* objects that never answer a scoped read
    illegal,    \* classes the APIC does not know as a query argument
    fabric,     \* for each declared object: "absent", "same" as declared, "other"
    root,       \* the position of the root at hand in PlanRoots
    classes,    \* the classes the read asks for
    unread,     \* the objects of the root that were not read yet
    found,      \* those that were, with what they said
    creates, updates, unchanged,    \* the root's PlanResult
    frontier,   \* creates to be verified
    settled,    \* creates that are
    plan,       \* the merged result
    planPhase   \* "off", "reading", "probing", "over" or "failed"

\* What happened, for the properties.
VARIABLES
    seen,       \* what each object was since the plan began
    writes      \* writes of others so far

rootVars == <<classes, unread, found, creates, updates, unchanged, frontier, settled>>
planVars == <<design, deaf, illegal, fabric, root, rootVars, plan, planPhase, seen, writes>>

ClassOf(dn) == Last(dn)
Parent(dn) == Front(dn)
Present == {"same", "other"}

-------------------------------------------------------------------------------
(* Pure parts.                                                             *)

\* _plan_roots(): the declared objects below "uni", carriers descended into.  A
\* carrier itself is no root, and neither are its own relations, although a push
\* posts them: a plan does not cover them.
PlanRoots(d) ==
    LET roots[n \in DOMAIN d.kids] ==
            IF n # <<>> /\ n \notin d.carrier THEN <<n>>
            ELSE FlattenSeq([i \in DOMAIN d.kids[n] |->
                                roots[Append(n, d.kids[n][i].rn)]])
    IN roots[<<>>]

\* build_desired_tree(), flattened in the order _plan_result() walks it.
Desired(d, r) ==
    LET below[n \in DOMAIN d.kids] ==
            <<n>> \o FlattenSeq([i \in DOMAIN d.kids[n] |->
                                    below[Append(n, d.kids[n][i].rn)]])
                  \o [i \in DOMAIN Kept(d, n) |-> Append(n, Kept(d, n)[i].rn)]
    IN below[r]

\* What a plan covers.
Declared(d) == UNION {ToSet(Desired(d, r)) : r \in ToSet(PlanRoots(d))}

\* Designs worth a plan: an object is declared once, below one root, and what
\* is between two declared objects is declared.
PlanTree(d) ==
    LET roots == PlanRoots(d)
        all(i) == Desired(d, roots[i])
    IN /\ roots \in Seq(Seq(STRING)) \ {<<>>}
       /\ \A i \in DOMAIN roots : all(i) \in Seq(Seq(STRING) \ {<<>>}) /\ IsInjective(all(i))
       /\ \A i, j \in DOMAIN roots : i # j => ToSet(all(i)) \cap ToSet(all(j)) = {}
       /\ \A p, dn \in Declared(d) : IsStrictPrefix(p, dn) => Parent(dn) \in Declared(d)

\* An APIC keeps nothing below an object that is absent.
FabricTree(f) ==
    \A p, dn \in DOMAIN f : IsPrefix(p, dn) /\ f[p] = "absent" => f[dn] = "absent"

ASSUME PlanCaseAssumption ==
    /\ PlanCases # {}
    /\ \A c \in PlanCases :
          /\ PlanTree(c.design) /\ FabricTree(c.fabric)
          /\ c.fabric \in [Declared(c.design) -> Present \cup {"absent"}]

Root == PlanRoots(design)[root]
Objects == ToSet(Desired(design, Root))

\* build_tree(): an object counts if all those above it, up to the root, were
\* found too.
Rebuilt(f) ==
    {dn \in DOMAIN f : \A n \in Len(Root)..Len(dn) : SubSeq(dn, 1, n) \in DOMAIN f}

Boundary(c) == {dn \in c : Parent(dn) \notin c}

-------------------------------------------------------------------------------
StartRoot(r) ==
    /\ root' = r
    /\ LET objects == ToSet(Desired(design, PlanRoots(design)[r]))
       IN unread' = objects /\ classes' = {ClassOf(dn) : dn \in objects}
    /\ found' = <<>> /\ creates' = <<>> /\ updates' = {} /\ unchanged' = <<>>
    /\ frontier' = {} /\ settled' = {}
    /\ planPhase' = "reading"

\* One more object is read, whatever request and page it comes with.
ReadObject(dn) ==
    /\ planPhase = "reading" /\ dn \in unread /\ classes \cap illegal = {}
    /\ unread' = unread \ {dn}
    /\ found' = IF fabric[dn] \in Present /\ dn \notin deaf /\ ClassOf(dn) \in classes
                THEN [o \in DOMAIN found \cup {dn} |->
                         IF o = dn THEN fabric[dn] ELSE found[o]]
                ELSE found
    /\ UNCHANGED <<design, deaf, illegal, fabric, root, classes, creates, updates,
                   unchanged, frontier, settled, plan, planPhase, seen, writes>>

\* An unknown class refuses its request: read again without it.
DropUnqueryable(c) ==
    /\ planPhase = "reading" /\ unread # {} /\ c \in classes \cap illegal
    /\ classes' = classes \ {c}
    /\ unread' = IF classes' = {} THEN {} ELSE Objects
    /\ found' = <<>>
    /\ UNCHANGED <<design, deaf, illegal, fabric, root, creates, updates, unchanged,
                   frontier, settled, plan, planPhase, seen, writes>>

\* _plan_result().
Diff ==
    /\ planPhase = "reading" /\ unread = {}
    /\ \E current \in {Rebuilt(found)}, all \in {Desired(design, Root)} :
          /\ creates' = Only(all, ToSet(all) \ current)
          /\ updates' = {dn \in current : found[dn] = "other"}
          /\ unchanged' = Only(all, current \ updates')
    /\ frontier' = {} /\ settled' = {} /\ planPhase' = "probing"
    /\ UNCHANGED <<design, deaf, illegal, fabric, root, classes, unread, found, plan,
                   seen, writes>>

\* The bare read of one create.  One that is there is booked as an update or
\* as unchanged; its children come up in the next frontier.
Probe(dn) ==
    /\ planPhase = "probing" /\ dn \in frontier
    /\ frontier' = frontier \ {dn}
    /\ IF fabric[dn] = "absent"
       THEN settled' = settled \cup {dn} /\ UNCHANGED <<creates, updates, unchanged>>
       ELSE /\ creates' = Only(creates, ToSet(creates) \ {dn})
            /\ IF fabric[dn] = "other"
               THEN updates' = updates \cup {dn} /\ UNCHANGED unchanged
               ELSE unchanged' = Append(unchanged, dn) /\ UNCHANGED updates
            /\ UNCHANGED settled
    /\ UNCHANGED <<design, deaf, illegal, fabric, root, classes, unread, found, plan, planPhase,
                   seen, writes>>

ToVerify == Boundary(ToSet(creates)) \ settled

\* Mutant: only the first frontier is verified.
NextFrontierOnce ==
    /\ planPhase = "probing" /\ frontier = {} /\ ToVerify # {} /\ settled = {}
    /\ frontier' = ToVerify
    /\ settled' = ToSet(creates)
    /\ UNCHANGED <<design, deaf, illegal, fabric, root, classes, unread, found, creates, updates,
                   unchanged, plan, planPhase, seen, writes>>

NextFrontier ==
    /\ planPhase = "probing" /\ frontier = {} /\ ToVerify # {}
    /\ frontier' = ToVerify
    /\ UNCHANGED <<design, deaf, illegal, fabric, root, classes, unread, found, creates, updates,
                   unchanged, settled, plan, planPhase, seen, writes>>

\* Every boundary create is verified: the root's result joins the others.
RootDone ==
    /\ planPhase = "probing" /\ frontier = {} /\ ToVerify = {}
    /\ plan' = [creates   |-> plan.creates \o creates,
                updates   |-> plan.updates \cup updates,
                unchanged |-> plan.unchanged \o unchanged]
    /\ IF root < Len(PlanRoots(design)) THEN StartRoot(root + 1)
       ELSE planPhase' = "over" /\ UNCHANGED <<root, rootVars>>
    /\ UNCHANGED <<design, deaf, illegal, fabric, seen, writes>>

\* A read fails for any other reason: there is no plan.
PlanError ==
    /\ \/ planPhase = "reading" /\ unread # {}
       \/ planPhase = "probing" /\ frontier # {}
    /\ planPhase' = "failed"
    /\ UNCHANGED <<design, deaf, illegal, fabric, root, rootVars, plan, seen, writes>>

-------------------------------------------------------------------------------
(* Others write: an object needs its parent, and goes with its subtree.    *)

Exists(dn) == dn \in DOMAIN fabric => fabric[dn] \in Present

OtherWrites(dn, value) ==
    /\ planPhase \in {"reading", "probing"} /\ writes < MaxWrites
    /\ fabric[dn] # value /\ Exists(Parent(dn))
    /\ fabric' = [o \in DOMAIN fabric |->
                     IF o = dn \/ (value = "absent" /\ IsPrefix(dn, o)) THEN value
                     ELSE fabric[o]]
    /\ seen' = [o \in DOMAIN seen |-> seen[o] \cup {fabric'[o]}]
    /\ writes' = writes + 1
    /\ UNCHANGED <<design, deaf, illegal, root, rootVars, plan, planPhase>>

NoPlan == [creates |-> <<>>, updates |-> {}, unchanged |-> <<>>]

\* p: a plan was asked for, or the push has another mode.
PlanStart(p) ==
    /\ seen = [o \in DOMAIN fabric |-> {fabric[o]}] /\ writes = 0
    /\ root = 1 /\ plan = NoPlan
    /\ unread = Objects /\ classes = {ClassOf(dn) : dn \in Objects}
    /\ found = <<>> /\ creates = <<>> /\ updates = {} /\ unchanged = <<>>
    /\ frontier = {} /\ settled = {}
    /\ planPhase = p

PlanOf(c) == /\ design = c.design /\ fabric = c.fabric
             /\ deaf = c.deaf /\ illegal = c.illegal

PlanInit == (\E c \in PlanCases : PlanOf(c)) /\ PlanStart("reading")

NoPlanInit == PlanOf(CHOOSE c \in PlanCases : TRUE) /\ PlanStart("off")

PlanNext ==
    \/ \E dn \in unread : ReadObject(dn)
    \/ \E c \in classes : DropUnqueryable(c)
    \/ Diff \/ NextFrontier \/ RootDone \/ PlanError
    \/ \E dn \in frontier : Probe(dn)

PlanOthers ==
    \E dn \in DOMAIN fabric, v \in Present \cup {"absent"} : OtherWrites(dn, v)

-------------------------------------------------------------------------------
(* Properties.                                                             *)

\* Types; an object is listed once while its root is being verified, and only
\* creates are.
PlanTypeOK ==
    /\ fabric \in [Declared(design) -> Present \cup {"absent"}]
    /\ root \in DOMAIN PlanRoots(design) /\ writes \in 0..MaxWrites
    /\ unread \cup DOMAIN found \cup updates \cup ToSet(unchanged) \subseteq Objects
    /\ frontier \cup settled \subseteq ToSet(creates) /\ frontier \cap settled = {}
    /\ planPhase \in {"off", "reading", "probing", "over", "failed"}

\* A plan reports every declared object it covers (all but carriers and their
\* own relations) exactly once, and what it reports of each was true at some
\* moment while it ran: an object to be created was absent, one to be updated
\* differed, one that is unchanged was as declared;
\* although the scoped read may not find what is there, the pieces answer at
\* different moments, and only the topmost creates are read again.
PlanHeld ==
    planPhase = "over" =>
        /\ IsInjective(plan.creates \o plan.unchanged)
        /\ (ToSet(plan.creates) \cup ToSet(plan.unchanged)) \cap plan.updates = {}
        /\ ToSet(plan.creates) \cup ToSet(plan.unchanged) \cup plan.updates
              = Declared(design)
        /\ \A dn \in ToSet(plan.creates)   : "absent" \in seen[dn]
        /\ \A dn \in plan.updates          : "other" \in seen[dn]
        /\ \A dn \in ToSet(plan.unchanged) : "same" \in seen[dn]
===============================================================================
