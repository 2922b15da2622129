--------------------------------- MODULE Push ---------------------------------
(***************************************************************************)
(* push(): a staged push or a plan, while others write to the fabric.      *)
(***************************************************************************)
EXTENDS StagedPush, PlanMode

PushInit ==
    \/ Init /\ NoPlanInit
    \/ PlanInit /\ NotStagedInit

\* What the program does; and what it does among the writes of others.
PushStep ==
    \/ Next /\ UNCHANGED planVars
    \/ PlanNext /\ UNCHANGED vars
PushNext == PushStep \/ (PlanOthers /\ UNCHANGED vars)

\* The event loop runs every worker, and every exchange ends.
PushSpec ==
    PushInit /\ [][PushNext]_<<vars, planVars>> /\ WF_<<vars, planVars>>(PushStep)

\* The types of both modules.
PushTypeOK == TypeOK /\ PlanTypeOK

\* A push ends, in either mode, however many operations fail and whatever
\* others write meanwhile.
PushEnds == <>(phase = "over" \/ planPhase \in {"over", "failed"})
===============================================================================
