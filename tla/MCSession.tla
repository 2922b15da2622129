------------------------------- MODULE MCSession -------------------------------
(* Calls of one session at the same time: some subscribe, some close it, one *)
(* may be reading a collection in pages.                                     *)
EXTENDS Pagination, TLC

CONSTANTS t1, t2, t3, t4

MCPlans ==
    {t1 :> a @@ t2 :> b @@ t3 :> c @@ t4 :> "close" :
        a \in {"subscribe"}, b \in {"subscribe", "batch"}, c \in {"subscribe", "close"}}
    \cup {[t \in Callers |-> IF t = t4 THEN "close" ELSE "page"]}

MCCollections == {<<>>, <<"a">>, <<"a", "b", "c">>, <<"a", "b", "c", "d">>,
                  <<"a", "b", "c", "d", "e">>, <<"a", "b", "c", "d", "e", "f", "g">>}
===============================================================================
