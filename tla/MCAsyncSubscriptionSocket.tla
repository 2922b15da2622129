----------------------- MODULE MCAsyncSubscriptionSocket -----------------------
(* Instances of AsyncSubscriptionSocket for TLC.                           *)
EXTENDS AsyncSubscriptionSocket, TLC

\* Three connections let a failed generation be replaced while its reader is
\* still reconnecting, or a third one be spare; three wire ids let an escalation
\* and a reconnect resubscribe one subscription at once.
MCCases == {
    [faults |-> {"crash", "abandon"},  conns |-> 3, wires |-> 2],
    [faults |-> {"refresh", "reject"}, conns |-> 2, wires |-> 3],
    [faults |-> {"cancel", "outage"},  conns |-> 3, wires |-> 2]}

\* The local ids are interchangeable.
SubSymmetry == Permutations(Subs)
===============================================================================
