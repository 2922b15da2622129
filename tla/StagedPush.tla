------------------------------ MODULE StagedPush ------------------------------
(***************************************************************************)
(* The staged push engine, design/_engine.py: operations run in waves of   *)
(* equal DN depth; inside a wave of the asynchronous engine a pool of      *)
(* workers pulls from one iterator, so answers arrive in any order.  A     *)
(* failed operation keeps its whole subtree from being run.                *)
(***************************************************************************)
EXTENDS DesignOps, FiniteSets

CONSTANTS
    OpLists,        \* the pushes to consider: sequences of DNs to write
    Concurrency     \* the values of max_concurrent to consider

\* Each object is declared once, and agreeing relations are one.
ASSUME OpListAssumption ==
    /\ OpLists # {}
    /\ \A s \in OpLists : s \in Seq(Seq(STRING) \ {<<>>}) /\ IsInjective(s)
ASSUME ConcurrencyAssumption == Concurrency \subseteq Nat \ {0} /\ Concurrency # {}

VARIABLES
    ops,        \* what is pushed
    bound,      \* max_concurrent
    depth,      \* the depth of the latest wave
    toRun,      \* the wave's operations to be run
    pulled,     \* how many of them the workers have taken
    busy,       \* the positions of those that are in flight
    slots,      \* their results, by position
    outcome,    \* _WaveOutcome
    phase       \* "between" two waves, in a "wave", "over", or "off": the push
                \* has another mode

vars == <<ops, bound, depth, toRun, pulled, busy, slots, outcome, phase>>

Empty == [op |-> <<>>, ok |-> FALSE]

OfDepth(s, d) == Only(s, {dn \in ToSet(s) : Len(dn) = d})

\* Mutant: anything next to a failure counts as below it.
DescendsLoosely(dn, failed) == \E f \in failed : IsPrefix(Front(f), dn)

\* _descends_from_failed().
Descends(dn, failed) == \E f \in failed : IsPrefix(f, dn)

Skipped(s, failed) == Only(s, {dn \in ToSet(s) : Descends(dn, failed)})
Runnable(s, failed) == Only(s, {dn \in ToSet(s) : ~Descends(dn, failed)})

-------------------------------------------------------------------------------
(* _run_waves_sync(), for an APIC that fails exactly the operations F.     *)

RunOne(F, acc, dn) ==
    IF Descends(dn, ToSet(acc.failed)) THEN [acc EXCEPT !.notRun = Append(@, dn)]
    ELSE IF dn \in F THEN [acc EXCEPT !.failed = Append(@, dn)]
    ELSE [acc EXCEPT !.succeeded = Append(@, dn)]

NoOutcome == [succeeded |-> <<>>, failed |-> <<>>, notRun |-> <<>>]

\* One wave after those that led to acc.
RunWave(F, acc, wave) ==
    LET run[i \in 0..Len(wave)] ==
            IF i = 0 THEN acc ELSE RunOne(F, run[i - 1], wave[i])
    IN run[Len(wave)]

\* The waves up to depth d: _toposort() orders by depth, and by submission
\* within a depth.
RunUpTo(s, F, d) ==
    LET run[e \in 0..d] ==
            IF e = 0 THEN NoOutcome ELSE RunWave(F, run[e - 1], OfDepth(s, e))
    IN run[d]

\* RunUpTo(ops, F, d) for every d that is deep enough.
RunWavesSync(s, F) ==
    RunUpTo(s, F, CHOOSE n \in {Len(s[i]) : i \in DOMAIN s} \cup {0} :
                      \A i \in DOMAIN s : Len(s[i]) <= n)

-------------------------------------------------------------------------------
(* _run_waves().                                                           *)

Deeper == {d \in {Len(dn) : dn \in ToSet(ops)} : d > depth}

\* Mutant: previous failures are not looked at.
StartWaveBlind ==
    /\ phase = "between"
    /\ \E d \in Deeper :
          /\ \A e \in Deeper : d <= e
          /\ depth' = d
          /\ toRun' = OfDepth(ops, d)
          /\ UNCHANGED outcome
    /\ pulled' = 0
    /\ slots' = [i \in DOMAIN toRun' |-> Empty]
    /\ phase' = "wave"
    /\ UNCHANGED <<ops, bound, busy>>

StartWave ==
    /\ phase = "between"
    /\ \E d \in Deeper :
          /\ \A e \in Deeper : d <= e
          /\ depth' = d
          /\ LET wave == OfDepth(ops, d)
                 failed == ToSet(outcome.failed)
             IN /\ toRun' = Runnable(wave, failed)
                /\ outcome' = [outcome EXCEPT !.notRun = @ \o Skipped(wave, failed)]
    /\ pulled' = 0
    /\ slots' = [i \in DOMAIN toRun' |-> Empty]
    /\ phase' = "wave"
    /\ UNCHANGED <<ops, bound, busy>>

\* Mutants: a worker per operation; workers that die of a failure.
PullUnbounded ==
    /\ phase = "wave" /\ pulled < Len(toRun)
    /\ pulled' = pulled + 1
    /\ busy' = busy \cup {pulled + 1}
    /\ UNCHANGED <<ops, bound, depth, toRun, slots, outcome, phase>>

PullWhileWell ==
    /\ phase = "wave" /\ pulled < Len(toRun)
    /\ LET dead == {i \in 1..pulled : i \notin busy /\ ~slots[i].ok}
       IN Cardinality(busy) + Cardinality(dead) < bound
    /\ pulled' = pulled + 1
    /\ busy' = busy \cup {pulled + 1}
    /\ UNCHANGED <<ops, bound, depth, toRun, slots, outcome, phase>>

\* A free worker takes the next operation and sends it.
Pull ==
    /\ phase = "wave" /\ pulled < Len(toRun)
    /\ Cardinality(busy) < bound
    /\ pulled' = pulled + 1
    /\ busy' = busy \cup {pulled + 1}
    /\ UNCHANGED <<ops, bound, depth, toRun, slots, outcome, phase>>

\* Mutant: results are kept in the order of the answers.
AnswerAsItComes(i, ok) ==
    /\ i \in busy
    /\ busy' = busy \ {i}
    /\ slots' = [slots EXCEPT ![pulled - Cardinality(busy) + 1] =
                    [op |-> toRun[i], ok |-> ok]]
    /\ UNCHANGED <<ops, bound, depth, toRun, pulled, outcome, phase>>

\* The APIC's answer to operation i, or the error that stands for it.
Answer(i, ok) ==
    /\ i \in busy
    /\ busy' = busy \ {i}
    /\ slots' = [slots EXCEPT ![i] = [op |-> toRun[i], ok |-> ok]]
    /\ UNCHANGED <<ops, bound, depth, toRun, pulled, outcome, phase>>

\* gather() returns: the results are folded into the outcome.
EndWave ==
    /\ phase = "wave" /\ pulled = Len(toRun) /\ busy = {}
    /\ LET ran(ok) == LET r == Only(slots, {s \in ToSet(slots) : s.ok = ok})
                      IN [i \in DOMAIN r |-> r[i].op]
       IN outcome' = [outcome EXCEPT !.succeeded = @ \o ran(TRUE),
                                     !.failed = @ \o ran(FALSE)]
    /\ phase' = "between"
    /\ UNCHANGED <<ops, bound, depth, toRun, pulled, busy, slots>>

Finish ==
    /\ phase = "between" /\ Deeper = {}
    /\ phase' = "over"
    /\ UNCHANGED <<ops, bound, depth, toRun, pulled, busy, slots, outcome>>

Start(p) ==
    /\ depth = 0 /\ toRun = <<>> /\ pulled = 0 /\ busy = {} /\ slots = <<>>
    /\ outcome = NoOutcome /\ phase = p

Init == ops \in OpLists /\ bound \in Concurrency /\ Start("between")

NotStagedInit ==
    /\ ops = CHOOSE o \in OpLists : TRUE
    /\ bound = CHOOSE b \in Concurrency : TRUE
    /\ Start("off")

Next ==
    \/ StartWave \/ Pull \/ EndWave \/ Finish
    \/ \E i \in busy, ok \in BOOLEAN : Answer(i, ok)

Spec == Init /\ [][Next]_vars

-------------------------------------------------------------------------------
(* Properties.                                                             *)

Dns == Seq(STRING)

\* Every variable stays within its type; no more than max_concurrent
\* operations are in flight, and a position is taken before it is in flight.
TypeOK ==
    /\ ops \in OpLists /\ bound \in Concurrency
    /\ depth \in Nat /\ toRun \in Seq(Dns) /\ pulled \in 0..Len(toRun)
    /\ busy \subseteq 1..pulled /\ Cardinality(busy) <= bound
    /\ slots \in Seq([op : Dns, ok : BOOLEAN]) /\ Len(slots) = Len(toRun)
    /\ outcome \in [succeeded : Seq(Dns), failed : Seq(Dns), notRun : Seq(Dns)]
    /\ phase \in {"between", "wave", "over", "off"}

\* An operation is in flight only after every operation above it in the tree
\* has succeeded: the APIC is never asked to write below an object that is
\* still being written, or that it refused.
ParentsFirst ==
    \A i \in busy : \A dn \in ToSet(ops) :
        IsStrictPrefix(dn, toRun[i]) => dn \in ToSet(outcome.succeeded)

\* In the end exactly the operations below a failed one were not run: a
\* failure isolates its own subtree and nothing else, as _run_waves_sync()
\* documents it.  Cursor.push() says otherwise: see FailingWaveStops.
OnlySubtreesSkipped ==
    phase = "over" =>
        \A dn \in ToSet(ops) :
            dn \in ToSet(outcome.notRun) <=>
                \E f \in ToSet(outcome.failed) : IsStrictPrefix(f, dn)

\* What the docstring of Cursor.push() says of a staged push, "a failing wave
\* stops the remaining ones" (design/_cursor.py:934): once a wave with a failure
\* is over, nothing is sent any more.  The engine does not stop: it runs the
\* operations of the later waves that are not below a failed one.
FailingWaveStops == outcome.failed # <<>> => busy = {}

\* The concurrent engine reports exactly what the sequential one would have
\* reported had the APIC failed the same operations, order included, whatever
\* the order of the answers.
SameAsSync ==
    phase = "over" => outcome = RunWavesSync(ops, ToSet(outcome.failed))
===============================================================================
