------------------------- MODULE MCSubscriptionSocket -------------------------
(* Instances of SubscriptionSocket for TLC.                                *)
EXTENDS SubscriptionSocket, TLC

\* The local ids are interchangeable (safety runs only).
SubSymmetry == Permutations(Subs)
===============================================================================
