---------------------------- MODULE Subscriptions -----------------------------
(***************************************************************************)
(* What the subscription socket promises its users, with no thread, lock,  *)
(* connection or queue: subscribe() is refused or opens a stream, an open  *)
(* stream ends at most once, its consumer is always woken when it does,    *)
(* and close() ends every open stream at once and for good.                *)
(***************************************************************************)
CONSTANT Subs
VARIABLES shutdown, phase
vars == <<shutdown, phase>>

OpenSubs == {s \in Subs : phase[s] = "open"}

\* The streams S end; their terminal items follow, or come in the same step.
Ending(S) == \E p \in {"ending", "ended"} :
                phase' = [s \in Subs |-> IF s \in S THEN p ELSE phase[s]]

Init == shutdown = FALSE /\ phase = [s \in Subs |-> "unborn"]

Refuse(s) == /\ phase[s] = "unborn"
             /\ phase' = [phase EXCEPT ![s] = "refused"]
             /\ UNCHANGED shutdown

Open(s) == /\ phase[s] = "unborn" /\ ~shutdown
           /\ phase' = [phase EXCEPT ![s] = "open"]
           /\ UNCHANGED shutdown

\* One stream is closed or lost, or all of them are.
End(S) == /\ S \subseteq OpenSubs
          /\ Ending(S)
          /\ UNCHANGED shutdown

\* The terminal item reaches the consumer's queue.
Wake(s) == /\ phase[s] = "ending"
           /\ phase' = [phase EXCEPT ![s] = "ended"]
           /\ UNCHANGED shutdown

Shutdown == /\ ~shutdown
            /\ shutdown' = TRUE
            /\ Ending(OpenSubs)

Next == \/ \E s \in Subs : Refuse(s) \/ Open(s) \/ Wake(s)
        \/ \E s \in Subs : End({s})
        \/ End(OpenSubs)
        \/ Shutdown

Spec     == Init /\ [][Next]_vars
FairSpec == Spec /\ \A s \in Subs : WF_vars(Wake(s))
===============================================================================
