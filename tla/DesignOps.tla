------------------------------- MODULE DesignOps -------------------------------
(***************************************************************************)
(* From a design to the operations of a staged push: which relation objects *)
(* survive the collision check of design/_resolver.py, and how             *)
(* design/_compiler.py flattens the tree.                                  *)
(*                                                                         *)
(* A DN is the tuple of its RNs below "uni".  A design d is a record:      *)
(* d.kids[n] and d.rels[n] are the sequences of declared children and of   *)
(* resolved relation objects of the object n, each [rn, to] with what the  *)
(* object says (to); d.atomic and d.carrier are the objects of the classes *)
(* that ship as one envelope, and of those that are mere path prefixes.    *)
(***************************************************************************)
EXTENDS Naturals, Sequences, SequencesExt

\* The elements of s that are in T, in their order.
Only(s, T) ==
    LET pick[i \in 0..Len(s)] ==
            IF i = 0 THEN <<>>
            ELSE IF s[i] \in T THEN Append(pick[i - 1], s[i]) ELSE pick[i - 1]
    IN pick[Len(s)]

\* Two relations, or a relation and a child, that share an RN and disagree:
\* the design is refused.
Contradicts(d) ==
    \E n \in DOMAIN d.rels : \E r \in ToSet(d.rels[n]) :
        \E o \in ToSet(d.rels[n]) \cup ToSet(d.kids[n]) :
            o.rn = r.rn /\ o.to # r.to

\* Those that agree are one: the child, or else the first relation, stands.
Kept(d, n) ==
    FoldLeft(LAMBDA kept, r :
                 IF r.rn \in {o.rn : o \in ToSet(kept) \cup ToSet(d.kids[n])}
                 THEN kept ELSE Append(kept, r),
             <<>>, d.rels[n])

\* The DNs of the operations, in submission order.
CompileOps(d) ==
    LET below[n \in DOMAIN d.kids] ==
            IF n \in d.atomic THEN <<n>>
            ELSE (IF n \in d.carrier THEN <<>> ELSE <<n>>)
                 \o [i \in DOMAIN Kept(d, n) |-> Append(n, Kept(d, n)[i].rn)]
                 \o FlattenSeq([i \in DOMAIN d.kids[n] |->
                                  below[Append(n, d.kids[n][i].rn)]])
    IN FlattenSeq([i \in DOMAIN d.kids[<<>>] |-> below[<<d.kids[<<>>][i].rn>>]])
===============================================================================
