----------------------------- MODULE MCStagedPush -----------------------------
(* push(): staged pushes of one tree, with and without each special feature, *)
(* and plans of a smaller one against the fabrics it may meet.             *)
EXTENDS Push, TLC

Kid(rn)     == [rn |-> rn, to |-> ""]
Rel(rn, to) == [rn |-> rn, to |-> to]

Tn  == <<"tn">>
Bd  == <<"tn", "bd">>
Ctx == <<"tn", "bd", "rsctx">>
Sub == <<"tn", "bd", "subnet">>
Ap  == <<"tn", "ap">>
Epg == <<"tn", "ap", "epg">>
Vm  == <<"vmmp">>
Dom == <<"vmmp", "dom">>
Acc == <<"vmmp", "dom", "acc">>

\* Kids, with the bridge domain's relation as an explicit child or not.
Tree(explicit) ==
    [n \in {<<>>, Tn, Bd, Ctx, Sub, Ap, Epg, Vm, Dom, Acc} |->
        CASE n = <<>> -> <<Kid("tn"), Kid("vmmp")>>
          [] n = Tn   -> <<Kid("bd"), Kid("ap")>>
          [] n = Ap   -> <<Kid("epg")>>
          [] n = Bd   -> IF explicit THEN <<Rel("rsctx", "v"), Kid("subnet")>>
                                     ELSE <<Kid("subnet")>>
          [] n = Vm   -> <<Kid("dom")>>
          [] n = Dom  -> <<Kid("acc")>>
          [] OTHER    -> <<>>]

\* The relations the resolver built under the bridge domain and the domain.
Binds == {<<>>, <<Rel("rsctx", "v"), Rel("rsctx", "v")>>,
          <<Rel("rsctx", "v"), Rel("rsctx", "w")>>}

Designs ==
    {[kids |-> Tree(explicit),
      rels |-> [n \in DOMAIN Tree(explicit) |->
                   IF n = Bd THEN r ELSE IF n = Dom THEN <<Rel("rsacc", "a")>>
                   ELSE <<>>],
      atomic |-> atomic, carrier |-> carrier] :
        explicit \in BOOLEAN, r \in Binds,
        atomic \in {{}, {Bd}}, carrier \in {{}, {Vm}}}

MCOpLists == {CompileOps(d) : d \in {e \in Designs : ~Contradicts(e)}}

\* A design with an object below each kind of parent: a root, a relation, a
\* carrier.
PlanDesign ==
    LET kids == [n \in {<<>>, Tn, Bd, Ctx, Sub, Vm, Dom} |->
                    CASE n = <<>> -> <<Kid("tn"), Kid("vmmp")>>
                      [] n = Tn   -> <<Kid("bd")>>
                      [] n = Bd   -> <<Kid("subnet")>>
                      [] n = Vm   -> <<Kid("dom")>>
                      [] OTHER    -> <<>>]
    IN [kids |-> kids, atomic |-> {}, carrier |-> {Vm},
        rels |-> [n \in DOMAIN kids |-> IF n = Bd THEN <<Rel("rsctx", "v"), Rel("rsctx", "v")>>
                                        ELSE <<>>]]

\* Objects under the bridge domain exist only if it does, and it only under its
\* tenant; relations and domains may differ from what is declared.
MCFabrics ==
    {Tn :> tn @@ Bd :> bd @@ Sub :> sub @@ Ctx :> ctx @@ Dom :> dom :
        <<tn, bd, sub, ctx, dom>> \in
            {t \in {"absent", "same"} \X {"absent", "same", "other"}
                    \X {"absent", "same"} \X {"absent", "other"} \X {"other"} :
                /\ t[1] = "absent" => t[2] = "absent"
                /\ t[2] = "absent" => t[3] = "absent" /\ t[4] = "absent"}}

MCPlanCases ==
    {[design |-> PlanDesign, fabric |-> f, deaf |-> x[1], illegal |-> x[2]] :
        f \in MCFabrics,
        x \in {<<{}, {}>>, <<{Bd}, {}>>, <<{Sub, Dom}, {"rsctx"}>>, <<{}, {"dom"}>>}}
===============================================================================
