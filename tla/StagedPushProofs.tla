--------------------------- MODULE StagedPushProofs ---------------------------
(***************************************************************************)
(* Proofs about StagedPush, for any operations, any number of workers and  *)
(* whatever fails: parents first, only subtrees are skipped, and the       *)
(* concurrent engine reports what the sequential one would have.           *)
(***************************************************************************)
EXTENDS StagedPush, FiniteSetTheorems, SequenceTheorems, WellFoundedInduction, TLAPS

-------------------------------------------------------------------------------
(* Induction over the numbers and over the sequences of a set.             *)

LEMMA LeastNumber ==
    ASSUME NEW N \in SUBSET Nat, N # {}
    PROVE  \E n \in N : \A m \in N : n <= m
<1> DEFINE R == OpToRel(<, Nat)
<1>1. \A a, b \in Nat : a < b => <<a, b>> \in R
  BY DEF OpToRel
<1>2. IsWellFoundedOn(R, Nat)
  BY NatLessThanWellFounded
<1> HIDE DEF R
<1>3. PICK n \in N : \A m \in N : <<m, n>> \notin R
  BY <1>2, WFMin
<1>4. \A m \in N : ~(m < n)
  BY <1>1, <1>3
<1> QED
  BY <1>4

LEMMA NumbersFrom0 ==
    ASSUME NEW P, 0 \in P, \A n \in Nat : n \in P => n + 1 \in P
    PROVE  Nat \subseteq P
<1> SUFFICES ASSUME Nat \ P # {} PROVE FALSE
  OBVIOUS
<1>1. PICK n \in Nat \ P : \A m \in Nat \ P : n <= m
  BY LeastNumber
<1>2. n - 1 \in Nat /\ ~(n <= n - 1) /\ (n - 1) + 1 = n
  BY <1>1
<1> QED
  BY <1>1, <1>2

LEMMA SequencesByAppend ==
    ASSUME NEW S, NEW P, <<>> \in P, \A s \in Seq(S), x \in S : s \in P => Append(s, x) \in P
    PROVE  Seq(S) \subseteq P
<1> SUFFICES ASSUME Seq(S) \ P # {} PROVE FALSE
  OBVIOUS
<1> DEFINE N == {Len(s) : s \in Seq(S) \ P}
<1>1. N \in SUBSET Nat /\ N # {}
  BY LenProperties
<1>2. PICK n \in N : \A m \in N : n <= m
  BY <1>1, LeastNumber
<1>3. PICK s \in Seq(S) \ P : Len(s) = n
  OBVIOUS
<1>4. PICK t \in Seq(S), x \in S : s = Append(t, x)
  BY <1>3, SequenceEmptyOrAppend
<1>5. Len(t) \in Nat /\ Len(s) = Len(t) + 1
  BY <1>4, AppendProperties, LenProperties
<1>6. ~(n <= Len(t))
  BY <1>3, <1>5
<1>7. t \in P
  BY <1>2, <1>6
<1> QED
  BY <1>3, <1>4, <1>7

-------------------------------------------------------------------------------
(* Only().                                                                 *)

PickBody(s, T, f, i) ==
    IF i = 0 THEN <<>> ELSE IF s[i] \in T THEN Append(f[i - 1], s[i]) ELSE f[i - 1]

LEMMA OnlyIs ==
    ASSUME NEW s, NEW T, Len(s) \in Nat
    PROVE  \E f : f = [i \in 0..Len(s) |-> PickBody(s, T, f, i)] /\ Only(s, T) = f[Len(s)]
<1> DEFINE P == {n \in Nat : \E f : f = [i \in 0..n |-> PickBody(s, T, f, i)]}
<1>1. 0 \in P
  <2> DEFINE f == [i \in 0..0 |-> <<>>]
  <2>1. f = [i \in 0..0 |-> PickBody(s, T, f, i)]
    BY DEF PickBody
  <2> QED
    BY <2>1
<1>2. ASSUME NEW n \in Nat, n \in P PROVE n + 1 \in P
  <2>1. PICK f : f = [i \in 0..n |-> PickBody(s, T, f, i)]
    BY <1>2
  <2> DEFINE g == [i \in 0..n + 1 |-> IF i = n + 1 THEN PickBody(s, T, f, n + 1) ELSE f[i]]
  <2>2. ASSUME NEW i \in 0..n + 1 PROVE g[i] = PickBody(s, T, g, i)
    <3>1. CASE i = 0
      BY <2>1, <3>1 DEF PickBody
    <3>2. CASE i # 0
      <4>1. i - 1 \in 0..n /\ i - 1 # n + 1
        BY <3>2
      <4>2. g[i - 1] = f[i - 1]
        BY <4>1
      <4>3. PickBody(s, T, g, i) = PickBody(s, T, f, i)
        BY <4>2 DEF PickBody
      <4>4. i # n + 1 => i \in 0..n
        OBVIOUS
      <4> QED
        BY <2>1, <4>3, <4>4
    <3> QED
      BY <3>1, <3>2
  <2>3. g = [i \in 0..n + 1 |-> PickBody(s, T, g, i)]
    BY <2>2
  <2> HIDE DEF g
  <2>4. \E f2 : f2 = [i \in 0..n + 1 |-> PickBody(s, T, f2, i)]
    BY <2>3
  <2> QED
    BY <2>4
<1>3. Len(s) \in P
  <2> HIDE DEF P
  <2> QED
    BY <1>1, <1>2, NumbersFrom0
<1> QED
  BY <1>3 DEF Only, PickBody

LEMMA OnlyEmpty == ASSUME NEW T PROVE Only(<<>>, T) = <<>>
<1>1. Len(<<>>) = 0
  OBVIOUS
<1>2. PICK f : f = [i \in 0..0 |-> PickBody(<<>>, T, f, i)] /\ Only(<<>>, T) = f[0]
  BY <1>1, OnlyIs
<1> QED
  BY <1>2 DEF PickBody

LEMMA OnlyAppend ==
    ASSUME NEW S, NEW s \in Seq(S), NEW x \in S, NEW T
    PROVE  Only(Append(s, x), T) =
               IF x \in T THEN Append(Only(s, T), x) ELSE Only(s, T)
<1> DEFINE n == Len(s)
           t == Append(s, x)
<1>1. /\ n \in Nat /\ Len(t) = n + 1 /\ t[n + 1] = x
      /\ \A i \in 1..n : t[i] = s[i]
  BY AppendProperties, LenProperties
<1> HIDE DEF t
<1>2. PICK f : f = [i \in 0..n |-> PickBody(s, T, f, i)] /\ Only(s, T) = f[n]
  BY <1>1, OnlyIs
<1>3. PICK g : g = [i \in 0..n + 1 |-> PickBody(t, T, g, i)] /\ Only(t, T) = g[n + 1]
  BY <1>1, OnlyIs, SMTT(60)
<1> HIDE DEF n
<1> DEFINE P == {i \in Nat : i <= n => g[i] = f[i]}
<1>4. 0 \in P
  <2>1. 0 \in 0..n /\ 0 \in 0..n + 1
    BY <1>1
  <2> QED
    BY <1>2, <1>3, <2>1 DEF PickBody
<1>5. ASSUME NEW i \in Nat, i \in P PROVE i + 1 \in P
  <2> SUFFICES ASSUME i + 1 <= n PROVE g[i + 1] = f[i + 1]
    OBVIOUS
  <2>1. /\ i + 1 \in 0..n /\ i + 1 \in 0..n + 1 /\ i + 1 \in 1..n /\ i <= n
        /\ (i + 1) - 1 = i /\ i + 1 # 0
    BY <1>1
  <2>2. g[i] = f[i] /\ t[i + 1] = s[i + 1]
    BY <1>1, <1>5, <2>1
  <2>3. f[i + 1] = PickBody(s, T, f, i + 1) /\ g[i + 1] = PickBody(t, T, g, i + 1)
    BY <1>2, <1>3, <2>1
  <2> QED
    BY <2>1, <2>2, <2>3 DEF PickBody
<1>6. n \in P
  <2> HIDE DEF P
  <2> QED
    BY <1>1, <1>4, <1>5, NumbersFrom0
<1>7. n + 1 \in 0..n + 1 /\ (n + 1) - 1 = n /\ n + 1 # 0 /\ n <= n
  BY <1>1
<1>8. g[n + 1] = IF x \in T THEN Append(g[n], x) ELSE g[n]
  BY <1>1, <1>3, <1>7 DEF PickBody
<1> QED
  BY <1>2, <1>3, <1>6, <1>7, <1>8 DEF t
LEMMA AppendSet ==
    ASSUME NEW S, NEW s \in Seq(S), NEW x \in S
    PROVE  /\ ToSet(Append(s, x)) = ToSet(s) \cup {x}
           /\ IsInjective(Append(s, x)) <=> IsInjective(s) /\ x \notin ToSet(s)
<1> DEFINE n == Len(s)
           t == Append(s, x)
<1>1. /\ n \in Nat /\ DOMAIN s = 1..n /\ DOMAIN t = 1..n + 1 /\ t[n + 1] = x
      /\ \A i \in 1..n : t[i] = s[i]
  BY AppendProperties, LenProperties
<1> HIDE DEF n, t
<1>2. \A i \in 1..n + 1 : i \in 1..n \/ i = n + 1
  BY <1>1
<1>3. /\ n + 1 \in 1..n + 1 /\ n + 1 \notin 1..n
      /\ \A i \in 1..n : i \in 1..n + 1 /\ i # n + 1
  BY <1>1
<1>4. ToSet(t) = ToSet(s) \cup {x}
  <2>1. ASSUME NEW y \in ToSet(t) PROVE y \in ToSet(s) \cup {x}
    BY <1>1, <1>2 DEF ToSet
  <2>2. ASSUME NEW y \in ToSet(s) \cup {x} PROVE y \in ToSet(t)
    BY <1>1, <1>3 DEF ToSet
  <2> QED
    BY <2>1, <2>2
<1>5. ASSUME IsInjective(t) PROVE IsInjective(s) /\ x \notin ToSet(s)
  <2>1. ASSUME NEW i \in 1..n, NEW j \in 1..n, s[i] = s[j] PROVE i = j
    BY <1>1, <1>3, <1>5, <2>1 DEF IsInjective
  <2>2. ASSUME NEW i \in 1..n PROVE s[i] # x
    BY <1>1, <1>3, <1>5 DEF IsInjective
  <2> QED
    BY <1>1, <2>1, <2>2 DEF IsInjective, ToSet
<1>6. ASSUME IsInjective(s), x \notin ToSet(s) PROVE IsInjective(t)
  <2>1. \A i \in 1..n : s[i] # x
    BY <1>1, <1>6 DEF ToSet
  <2>2. ASSUME NEW i \in 1..n + 1, NEW j \in 1..n + 1, t[i] = t[j] PROVE i = j
    BY <1>1, <1>2, <1>6, <2>1, <2>2 DEF IsInjective
  <2> QED
    BY <1>1, <2>2 DEF IsInjective
<1> QED
  BY <1>4, <1>5, <1>6 DEF t

LEMMA EmptyInfo ==
    ToSet(<<>>) = {} /\ IsInjective(<<>>) /\ Len(<<>>) = 0 /\ \A S : <<>> \in Seq(S)
  BY DEF ToSet, IsInjective

LEMMA OnlyType ==
    ASSUME NEW S, NEW T, NEW s \in Seq(S)
    PROVE  /\ Only(s, T) \in Seq(S)
           /\ ToSet(Only(s, T)) = ToSet(s) \cap T
           /\ IsInjective(s) => IsInjective(Only(s, T))
<1> DEFINE Q(t) == /\ Only(t, T) \in Seq(S)
                   /\ ToSet(Only(t, T)) = ToSet(t) \cap T
                   /\ IsInjective(t) => IsInjective(Only(t, T))
           P == {t \in Seq(S) : Q(t)}
<1>1. Q(<<>>)
  BY OnlyEmpty, EmptyInfo
<1>2. ASSUME NEW t \in Seq(S), NEW x \in S, Q(t) PROVE Q(Append(t, x))
  <2>1. /\ ToSet(Append(t, x)) = ToSet(t) \cup {x}
        /\ IsInjective(Append(t, x)) => IsInjective(t) /\ x \notin ToSet(t)
    BY AppendSet
  <2>2. CASE x \in T
    <3>1. Only(Append(t, x), T) = Append(Only(t, T), x)
      BY <2>2, OnlyAppend
    <3>2. /\ ToSet(Append(Only(t, T), x)) = ToSet(Only(t, T)) \cup {x}
          /\ IsInjective(Append(Only(t, T), x)) <=>
                IsInjective(Only(t, T)) /\ x \notin ToSet(Only(t, T))
          /\ Append(Only(t, T), x) \in Seq(S)
      BY <1>2, AppendSet, AppendProperties
    <3> QED
      BY <1>2, <2>1, <2>2, <3>1, <3>2
  <2>3. CASE x \notin T
    <3>1. Only(Append(t, x), T) = Only(t, T)
      BY <2>3, OnlyAppend
    <3> QED
      BY <1>2, <2>1, <2>3, <3>1
  <2> QED
    BY <2>2, <2>3
<1>3. Seq(S) \subseteq P
  <2> HIDE DEF Q
  <2>1. <<>> \in P
    BY <1>1, EmptyInfo
  <2>2. ASSUME NEW t \in Seq(S), NEW x \in S, t \in P PROVE Append(t, x) \in P
    BY <1>2, <2>2, AppendProperties
  <2> HIDE DEF P
  <2> QED
    BY <2>1, <2>2, SequencesByAppend
<1> QED
  BY <1>3

LEMMA OnlySame ==
    ASSUME NEW S, NEW T, NEW U, NEW s \in Seq(S), \A x \in ToSet(s) : x \in T <=> x \in U
    PROVE  Only(s, T) = Only(s, U)
<1> DEFINE Q(t) == (\A x \in ToSet(t) : x \in T <=> x \in U) => Only(t, T) = Only(t, U)
           P == {t \in Seq(S) : Q(t)}
<1>1. Q(<<>>)
  BY OnlyEmpty
<1>2. ASSUME NEW t \in Seq(S), NEW x \in S, Q(t) PROVE Q(Append(t, x))
  <2>1. ToSet(Append(t, x)) = ToSet(t) \cup {x}
    BY AppendSet
  <2>2. /\ Only(Append(t, x), T) = IF x \in T THEN Append(Only(t, T), x) ELSE Only(t, T)
        /\ Only(Append(t, x), U) = IF x \in U THEN Append(Only(t, U), x) ELSE Only(t, U)
    BY OnlyAppend
  <2> QED
    BY <1>2, <2>1, <2>2
<1>3. Seq(S) \subseteq P
  <2> HIDE DEF Q
  <2>1. <<>> \in P
    BY <1>1, EmptyInfo
  <2>2. ASSUME NEW t \in Seq(S), NEW x \in S, t \in P PROVE Append(t, x) \in P
    BY <1>2, <2>2, AppendProperties
  <2> HIDE DEF P
  <2> QED
    BY <2>1, <2>2, SequencesByAppend
<1> QED
  BY <1>3

LEMMA OnlyTwice ==
    ASSUME NEW S, NEW T, NEW U, NEW s \in Seq(S)
    PROVE  Only(Only(s, T), U) = Only(s, T \cap U)
<1> DEFINE Q(t) == Only(Only(t, T), U) = Only(t, T \cap U)
           P == {t \in Seq(S) : Q(t)}
<1>1. Q(<<>>)
  BY OnlyEmpty
<1>2. ASSUME NEW t \in Seq(S), NEW x \in S, Q(t) PROVE Q(Append(t, x))
  <2>1. /\ Only(Append(t, x), T) = IF x \in T THEN Append(Only(t, T), x) ELSE Only(t, T)
        /\ Only(Append(t, x), T \cap U) =
              IF x \in T \cap U THEN Append(Only(t, T \cap U), x) ELSE Only(t, T \cap U)
    BY OnlyAppend, SMTT(60)
  <2>2. Only(t, T) \in Seq(S)
    BY OnlyType
  <2>3. Only(Append(Only(t, T), x), U) =
            IF x \in U THEN Append(Only(Only(t, T), U), x) ELSE Only(Only(t, T), U)
    BY <2>2, OnlyAppend
  <2>4. CASE x \in T
    <3>1. Only(Append(t, x), T) = Append(Only(t, T), x) /\ (x \in T \cap U <=> x \in U)
      BY <2>1, <2>4
    <3>2. Only(Append(t, x), T \cap U) =
              IF x \in U THEN Append(Only(t, T \cap U), x) ELSE Only(t, T \cap U)
      BY <2>1, <3>1
    <3> QED
      BY <1>2, <2>3, <3>1, <3>2
  <2>5. CASE x \notin T
    <3>1. Only(Append(t, x), T) = Only(t, T) /\ x \notin T \cap U
      BY <2>1, <2>5
    <3> QED
      BY <1>2, <2>1, <3>1
  <2> QED
    BY <2>4, <2>5
<1>3. Seq(S) \subseteq P
  <2> HIDE DEF Q
  <2>1. <<>> \in P
    BY <1>1, EmptyInfo
  <2>2. ASSUME NEW t \in Seq(S), NEW x \in S, t \in P PROVE Append(t, x) \in P
    BY <1>2, <2>2, AppendProperties
  <2> HIDE DEF P
  <2> QED
    BY <2>1, <2>2, SequencesByAppend
<1> QED
  BY <1>3

OpsOf(r) == [i \in DOMAIN r |-> r[i].op]

\* What is picked from a sequence of results, by what the operations say.
LEMMA OnlyResults ==
    ASSUME NEW S, NEW R, NEW T, NEW U, \A r \in R : r.op \in S,
           NEW s \in Seq(R), NEW t \in Seq(S), Len(s) = Len(t),
           \A i \in 1..Len(t) : s[i].op = t[i] /\ (s[i] \in T <=> t[i] \in U)
    PROVE  OpsOf(Only(s, T)) = Only(t, U)
<1> DEFINE Same(p, q) == /\ Len(p) = Len(q)
                         /\ \A i \in 1..Len(q) : p[i].op = q[i]
           Alike(p, q) == /\ Same(p, q)
                          /\ \A i \in 1..Len(q) : p[i] \in T <=> q[i] \in U
           Q(p) == \A q \in Seq(S) : Alike(p, q) => Same(Only(p, T), Only(q, U))
           P == {p \in Seq(R) : Q(p)}
<1>a. ASSUME NEW p \in Seq(R), NEW q \in Seq(S), NEW x \in R, NEW y \in S,
             Same(p, q), x.op = y
      PROVE  Same(Append(p, x), Append(q, y))
  <2>1. /\ Len(p) \in Nat /\ Len(q) = Len(p)
        /\ Len(Append(p, x)) = Len(p) + 1 /\ Len(Append(q, y)) = Len(p) + 1
    BY <1>a, AppendProperties, LenProperties
  <2>2. /\ Append(p, x)[Len(p) + 1] = x
        /\ \A i \in 1..Len(p) : Append(p, x)[i] = p[i]
    BY AppendProperties
  <2>3. /\ Append(q, y)[Len(p) + 1] = y
        /\ \A i \in 1..Len(p) : Append(q, y)[i] = q[i]
    BY <2>1, AppendProperties
  <2>4. ASSUME NEW i \in 1..Len(p) + 1 PROVE Append(p, x)[i].op = Append(q, y)[i]
    <3>1. CASE i \in 1..Len(p)
      BY <1>a, <2>1, <2>2, <2>3, <3>1
    <3>2. CASE i = Len(p) + 1
      BY <1>a, <2>2, <2>3, <3>2
    <3> QED
      BY <2>1, <3>1, <3>2
  <2> QED
    BY <2>1, <2>4
<1>b. ASSUME NEW p \in Seq(R), NEW x \in R, NEW q \in Seq(S), Alike(Append(p, x), q)
      PROVE  \E z \in Seq(S), y \in S :
                 q = Append(z, y) /\ Alike(p, z) /\ x.op = y /\ (x \in T <=> y \in U)
  <2>1. Len(Append(p, x)) = Len(p) + 1 /\ Len(p) \in Nat /\ Len(q) = Len(p) + 1
    BY <1>b, AppendProperties, LenProperties
  <2>2. q # <<>>
    BY <2>1, EmptyInfo
  <2>3. PICK z \in Seq(S), y \in S : q = Append(z, y)
    BY <2>2, SequenceEmptyOrAppend
  <2>4. Len(q) = Len(z) + 1 /\ Len(z) \in Nat
    BY <2>3, AppendProperties, LenProperties
  <2>5. Len(z) = Len(p)
    BY <2>1, <2>4
  <2>6. q[Len(p) + 1] = y /\ \A i \in 1..Len(p) : q[i] = z[i]
    BY <2>3, <2>5, AppendProperties
  <2>7. /\ Append(p, x)[Len(p) + 1] = x
        /\ \A i \in 1..Len(p) : Append(p, x)[i] = p[i]
    BY AppendProperties
  <2>8. Len(p) + 1 \in 1..Len(q) /\ \A i \in 1..Len(p) : i \in 1..Len(q)
    BY <2>1
  <2>9. Alike(p, z)
    BY <1>b, <2>5, <2>6, <2>7, <2>8
  <2>10. x.op = y /\ (x \in T <=> y \in U)
    BY <1>b, <2>6, <2>7, <2>8
  <2> QED
    BY <2>3, <2>9, <2>10
<1>c. Same(<<>>, <<>>)
  BY EmptyInfo
<1>1. Q(<<>>)
  <2> SUFFICES ASSUME NEW q \in Seq(S), Alike(<<>>, q) PROVE Same(Only(<<>>, T), Only(q, U))
    OBVIOUS
  <2>1. q = <<>>
    BY EmptySeq
  <2> QED
    BY <1>c, <2>1, OnlyEmpty
<1> HIDE DEF Same, Alike
<1>2. ASSUME NEW p \in Seq(R), NEW x \in R, Q(p) PROVE Q(Append(p, x))
  <2> SUFFICES ASSUME NEW q \in Seq(S), Alike(Append(p, x), q)
               PROVE  Same(Only(Append(p, x), T), Only(q, U))
    OBVIOUS
  <2>1. PICK z \in Seq(S), y \in S :
            q = Append(z, y) /\ Alike(p, z) /\ x.op = y /\ (x \in T <=> y \in U)
    BY <1>b, SMTT(60)
  <2>2. Same(Only(p, T), Only(z, U))
    BY <1>2, <2>1
  <2>3. /\ Only(Append(p, x), T) = IF x \in T THEN Append(Only(p, T), x) ELSE Only(p, T)
        /\ Only(q, U) = IF y \in U THEN Append(Only(z, U), y) ELSE Only(z, U)
    BY <2>1, OnlyAppend, SMTT(60)
  <2>4. CASE x \in T
    <3>1. Only(p, T) \in Seq(R) /\ Only(z, U) \in Seq(S)
      BY OnlyType
    <3>2. Same(Append(Only(p, T), x), Append(Only(z, U), y))
      BY <1>a, <2>1, <2>2, <3>1
    <3> QED
      BY <2>1, <2>3, <2>4, <3>2
  <2>5. CASE x \notin T
    BY <2>1, <2>2, <2>3, <2>5
  <2> QED
    BY <2>4, <2>5
<1>3. Seq(R) \subseteq P
  <2> HIDE DEF Q
  <2>1. <<>> \in P
    BY <1>1, EmptyInfo
  <2>2. ASSUME NEW p \in Seq(R), NEW x \in R, p \in P PROVE Append(p, x) \in P
    BY <1>2, <2>2, AppendProperties
  <2> HIDE DEF P
  <2> QED
    BY <2>1, <2>2, SequencesByAppend
<1>4. Same(Only(s, T), Only(t, U))
  BY <1>3 DEF Same, Alike
<1> DEFINE o == Only(s, T)
           u == Only(t, U)
<1>5. o \in Seq(R) /\ u \in Seq(S)
  BY OnlyType
<1> HIDE DEF o, u
<1>6. Len(o) = Len(u) /\ \A i \in 1..Len(u) : o[i].op = u[i]
  BY <1>4 DEF Same, o, u
<1>7. DOMAIN o = 1..Len(u) /\ u = [i \in 1..Len(u) |-> u[i]]
  BY <1>5, <1>6, LenProperties
<1>8. [i \in DOMAIN o |-> o[i].op] = u
  BY <1>6, <1>7
<1> QED
  BY <1>8 DEF o, u, OpsOf

-------------------------------------------------------------------------------
(* Prefixes.                                                               *)

LEMMA PrefixEqual ==
    ASSUME NEW S, NEW s \in Seq(S), NEW t \in Seq(S), IsPrefix(s, t), Len(s) = Len(t)
    PROVE  s = t
<1>1. SubSeq(s, 1, Len(s)) = s /\ SubSeq(t, 1, Len(t)) = t
  BY SubSeqFull
<1> QED
  BY <1>1 DEF IsPrefix

LEMMA PrefixShorter ==
    ASSUME NEW S, NEW s \in Seq(S), NEW t \in Seq(S), IsPrefix(s, t)
    PROVE  Len(s) <= Len(t) /\ (IsStrictPrefix(s, t) <=> Len(s) < Len(t))
<1>1. Len(s) <= Len(t) /\ Len(s) \in Nat /\ Len(t) \in Nat
  BY LenProperties DEF IsPrefix
<1>2. Len(s) = Len(t) => s = t
  BY PrefixEqual
<1> QED
  BY <1>1, <1>2 DEF IsStrictPrefix

LEMMA PrefixTransitive ==
    ASSUME NEW S, NEW s \in Seq(S), NEW t \in Seq(S), NEW u \in Seq(S),
           IsPrefix(s, t), IsPrefix(t, u)
    PROVE  IsPrefix(s, u)
<1>1. /\ Len(s) \in Nat /\ Len(t) \in Nat /\ Len(u) \in Nat
      /\ Len(s) <= Len(t) /\ Len(t) <= Len(u)
  BY LenProperties DEF IsPrefix
<1>2. \A i \in 1..Len(s) : s[i] = t[i]
  BY <1>1 DEF IsPrefix
<1>3. \A i \in 1..Len(t) : t[i] = u[i]
  BY <1>1 DEF IsPrefix
<1>4. \A i \in 1..Len(s) : s[i] = u[i]
  BY <1>1, <1>2, <1>3
<1>5. SubSeq(s, 1, Len(s)) = SubSeq(u, 1, Len(s))
  BY <1>1, <1>4
<1> QED
  BY <1>1, <1>5 DEF IsPrefix

-------------------------------------------------------------------------------
(* RunWave() and RunUpTo().                                                *)

WaveBody(F, acc, w, f, i) == IF i = 0 THEN acc ELSE RunOne(F, f[i - 1], w[i])
WaveOf(F, acc, w, f) == f = [i \in 0..Len(w) |-> WaveBody(F, acc, w, f, i)]

LEMMA RunWaveIs ==
    ASSUME NEW F, NEW acc, NEW w, Len(w) \in Nat
    PROVE  \E f : WaveOf(F, acc, w, f) /\ RunWave(F, acc, w) = f[Len(w)]
<1> DEFINE P == {n \in Nat : \E f : f = [i \in 0..n |-> WaveBody(F, acc, w, f, i)]}
<1>1. 0 \in P
  <2> DEFINE f == [i \in 0..0 |-> acc]
  <2>1. f = [i \in 0..0 |-> WaveBody(F, acc, w, f, i)]
    BY DEF WaveBody
  <2> QED
    BY <2>1
<1>2. ASSUME NEW n \in Nat, n \in P PROVE n + 1 \in P
  <2>1. PICK f : f = [i \in 0..n |-> WaveBody(F, acc, w, f, i)]
    BY <1>2
  <2> DEFINE g == [i \in 0..n + 1 |->
                      IF i = n + 1 THEN WaveBody(F, acc, w, f, n + 1) ELSE f[i]]
  <2>2. ASSUME NEW i \in 0..n + 1 PROVE g[i] = WaveBody(F, acc, w, g, i)
    <3>1. CASE i = 0
      BY <2>1, <3>1 DEF WaveBody
    <3>2. CASE i # 0
      <4>1. i - 1 \in 0..n /\ i - 1 # n + 1
        BY <3>2
      <4>2. g[i - 1] = f[i - 1]
        BY <4>1
      <4>3. WaveBody(F, acc, w, g, i) = WaveBody(F, acc, w, f, i)
        BY <4>2 DEF WaveBody
      <4>4. i # n + 1 => i \in 0..n
        OBVIOUS
      <4> QED
        BY <2>1, <4>3, <4>4
    <3> QED
      BY <3>1, <3>2
  <2>3. g = [i \in 0..n + 1 |-> WaveBody(F, acc, w, g, i)]
    BY <2>2
  <2> HIDE DEF g
  <2>4. \E f2 : f2 = [i \in 0..n + 1 |-> WaveBody(F, acc, w, f2, i)]
    BY <2>3
  <2> QED
    BY <2>4
<1>3. Len(w) \in P
  <2> HIDE DEF P
  <2> QED
    BY <1>1, <1>2, NumbersFrom0
<1> QED
  BY <1>3 DEF RunWave, WaveOf, WaveBody

LEMMA RunWaveEmpty == ASSUME NEW F, NEW acc PROVE RunWave(F, acc, <<>>) = acc
<1>1. Len(<<>>) = 0
  OBVIOUS
<1>2. PICK f : WaveOf(F, acc, <<>>, f) /\ RunWave(F, acc, <<>>) = f[0]
  BY <1>1, RunWaveIs
<1> QED
  BY <1>1, <1>2 DEF WaveOf, WaveBody

LEMMA RunWaveAppend ==
    ASSUME NEW S, NEW w \in Seq(S), NEW x \in S, NEW F, NEW acc
    PROVE  RunWave(F, acc, Append(w, x)) = RunOne(F, RunWave(F, acc, w), x)
<1> DEFINE n == Len(w)
           t == Append(w, x)
<1>1. /\ n \in Nat /\ Len(t) = n + 1 /\ t[n + 1] = x
      /\ \A i \in 1..n : t[i] = w[i]
  BY AppendProperties, LenProperties
<1> HIDE DEF t
<1>2. PICK f : WaveOf(F, acc, w, f) /\ RunWave(F, acc, w) = f[n]
  BY <1>1, RunWaveIs
<1>3. PICK g : WaveOf(F, acc, t, g) /\ RunWave(F, acc, t) = g[n + 1]
  BY <1>1, RunWaveIs
<1>a. /\ \A i \in 0..n : f[i] = WaveBody(F, acc, w, f, i)
      /\ \A i \in 0..n + 1 : g[i] = WaveBody(F, acc, t, g, i)
  BY <1>1, <1>2, <1>3 DEF WaveOf
<1> HIDE DEF n
<1> DEFINE P == {i \in Nat : i <= n => g[i] = f[i]}
<1>4. 0 \in P
  <2>1. 0 \in 0..n /\ 0 \in 0..n + 1
    BY <1>1
  <2> QED
    BY <1>a, <2>1 DEF WaveBody
<1>5. ASSUME NEW i \in Nat, i \in P PROVE i + 1 \in P
  <2> SUFFICES ASSUME i + 1 <= n PROVE g[i + 1] = f[i + 1]
    OBVIOUS
  <2>1. /\ i + 1 \in 0..n /\ i + 1 \in 0..n + 1 /\ i + 1 \in 1..n /\ i <= n
        /\ (i + 1) - 1 = i /\ i + 1 # 0
    BY <1>1
  <2>2. g[i] = f[i] /\ t[i + 1] = w[i + 1]
    BY <1>1, <1>5, <2>1
  <2>3. f[i + 1] = WaveBody(F, acc, w, f, i + 1) /\ g[i + 1] = WaveBody(F, acc, t, g, i + 1)
    BY <1>a, <2>1
  <2> QED
    BY <2>1, <2>2, <2>3 DEF WaveBody
<1>6. n \in P
  <2> HIDE DEF P
  <2> QED
    BY <1>1, <1>4, <1>5, NumbersFrom0
<1>7. n + 1 \in 0..n + 1 /\ (n + 1) - 1 = n /\ n + 1 # 0 /\ n <= n
  BY <1>1
<1>8. g[n + 1] = RunOne(F, g[n], x)
  BY <1>1, <1>a, <1>7 DEF WaveBody
<1> QED
  BY <1>2, <1>3, <1>6, <1>7, <1>8 DEF t

DepthBody(s, F, f, e) == IF e = 0 THEN NoOutcome ELSE RunWave(F, f[e - 1], OfDepth(s, e))

LEMMA RunUpToIs ==
    ASSUME NEW s, NEW F, NEW d \in Nat
    PROVE  \E f : f = [e \in 0..d |-> DepthBody(s, F, f, e)] /\ RunUpTo(s, F, d) = f[d]
<1> DEFINE P == {n \in Nat : \E f : f = [e \in 0..n |-> DepthBody(s, F, f, e)]}
<1>1. 0 \in P
  <2> DEFINE f == [e \in 0..0 |-> NoOutcome]
  <2>1. f = [e \in 0..0 |-> DepthBody(s, F, f, e)]
    BY DEF DepthBody
  <2> QED
    BY <2>1
<1>2. ASSUME NEW n \in Nat, n \in P PROVE n + 1 \in P
  <2>1. PICK f : f = [e \in 0..n |-> DepthBody(s, F, f, e)]
    BY <1>2
  <2> DEFINE g == [e \in 0..n + 1 |-> IF e = n + 1 THEN DepthBody(s, F, f, n + 1) ELSE f[e]]
  <2>2. ASSUME NEW e \in 0..n + 1 PROVE g[e] = DepthBody(s, F, g, e)
    <3>1. CASE e = 0
      BY <2>1, <3>1 DEF DepthBody
    <3>2. CASE e # 0
      <4>1. e - 1 \in 0..n /\ e - 1 # n + 1
        BY <3>2
      <4>2. g[e - 1] = f[e - 1]
        BY <4>1
      <4>3. DepthBody(s, F, g, e) = DepthBody(s, F, f, e)
        BY <4>2 DEF DepthBody
      <4>4. e # n + 1 => e \in 0..n
        OBVIOUS
      <4> QED
        BY <2>1, <4>3, <4>4
    <3> QED
      BY <3>1, <3>2
  <2>3. g = [e \in 0..n + 1 |-> DepthBody(s, F, g, e)]
    BY <2>2
  <2> HIDE DEF g
  <2>4. \E f2 : f2 = [e \in 0..n + 1 |-> DepthBody(s, F, f2, e)]
    BY <2>3
  <2> QED
    BY <2>4
<1>3. d \in P
  <2> HIDE DEF P
  <2> QED
    BY <1>1, <1>2, NumbersFrom0
<1> QED
  BY <1>3 DEF RunUpTo, DepthBody

LEMMA RunUpToDepth ==
    ASSUME NEW s, NEW F
    PROVE  /\ RunUpTo(s, F, 0) = NoOutcome
           /\ \A d \in Nat : RunUpTo(s, F, d + 1)
                                 = RunWave(F, RunUpTo(s, F, d), OfDepth(s, d + 1))
<1>1. RunUpTo(s, F, 0) = NoOutcome
  <2>1. PICK z \in Nat : z = 0
    OBVIOUS
  <2>2. PICK f : f = [e \in 0..z |-> DepthBody(s, F, f, e)] /\ RunUpTo(s, F, z) = f[z]
    BY RunUpToIs
  <2> QED
    BY <2>1, <2>2 DEF DepthBody
<1>2. ASSUME NEW d \in Nat
      PROVE  RunUpTo(s, F, d + 1) = RunWave(F, RunUpTo(s, F, d), OfDepth(s, d + 1))
  <2>1. PICK f : f = [e \in 0..d |-> DepthBody(s, F, f, e)] /\ RunUpTo(s, F, d) = f[d]
    BY RunUpToIs
  <2>2. d + 1 \in Nat
    OBVIOUS
  <2>3. PICK g : /\ g = [e \in 0..d + 1 |-> DepthBody(s, F, g, e)]
                 /\ RunUpTo(s, F, d + 1) = g[d + 1]
    BY <2>2, RunUpToIs
  <2> DEFINE P == {i \in Nat : i <= d => g[i] = f[i]}
  <2>4. 0 \in P
    <3>1. 0 \in 0..d /\ 0 \in 0..d + 1
      OBVIOUS
    <3> QED
      BY <2>1, <2>3, <3>1 DEF DepthBody
  <2>5. ASSUME NEW i \in Nat, i \in P PROVE i + 1 \in P
    <3> SUFFICES ASSUME i + 1 <= d PROVE g[i + 1] = f[i + 1]
      OBVIOUS
    <3>1. /\ i + 1 \in 0..d /\ i + 1 \in 0..d + 1 /\ i <= d
          /\ (i + 1) - 1 = i /\ i + 1 # 0
      OBVIOUS
    <3>2. g[i] = f[i]
      BY <2>5, <3>1
    <3>3. f[i + 1] = DepthBody(s, F, f, i + 1) /\ g[i + 1] = DepthBody(s, F, g, i + 1)
      BY <2>1, <2>3, <3>1
    <3> QED
      BY <3>1, <3>2, <3>3 DEF DepthBody
  <2>6. d \in P
    <3> HIDE DEF P
    <3> QED
      BY <2>4, <2>5, NumbersFrom0
  <2>7. d + 1 \in 0..d + 1 /\ (d + 1) - 1 = d /\ d + 1 # 0 /\ d <= d
    OBVIOUS
  <2>8. g[d + 1] = RunWave(F, g[d], OfDepth(s, d + 1))
    BY <2>3, <2>7 DEF DepthBody
  <2> QED
    BY <2>1, <2>3, <2>6, <2>7, <2>8
<1> QED
  BY <1>1, <1>2

Outcomes == [succeeded : Seq(Dns), failed : Seq(Dns), notRun : Seq(Dns)]

\* The sequential engine after one wave of operations of the same depth.
AfterWave(F, acc, w) ==
    LET below == {dn \in Dns : Descends(dn, ToSet(acc.failed))}
    IN [succeeded |-> acc.succeeded \o Only(w, Dns \ (below \cup F)),
        failed    |-> acc.failed \o Only(w, F \ below),
        notRun    |-> acc.notRun \o Only(w, below)]

LEMMA ConcatAppend ==
    ASSUME NEW S, NEW a \in Seq(S), NEW b \in Seq(S), NEW x \in S
    PROVE  a \o Append(b, x) = Append(a \o b, x)
<1>1. <<x>> \in Seq(S)
  OBVIOUS
<1>2. Append(b, x) = b \o <<x>>
  BY AppendIsConcat
<1>3. a \o b \in Seq(S)
  BY ConcatProperties
<1>4. Append(a \o b, x) = (a \o b) \o <<x>>
  BY <1>3, AppendIsConcat
<1>5. (a \o b) \o <<x>> = a \o (b \o <<x>>)
  BY <1>1, ConcatAssociative, SMTT(60)
<1> QED
  BY <1>2, <1>4, <1>5

LEMMA ConcatSet ==
    ASSUME NEW S, NEW a \in Seq(S), NEW b \in Seq(S)
    PROVE  ToSet(a \o b) = ToSet(a) \cup ToSet(b)
<1> DEFINE c == a \o b
<1>1. /\ c \in Seq(S) /\ Len(c) = Len(a) + Len(b) /\ Len(a) \in Nat /\ Len(b) \in Nat
      /\ \A i \in 1..Len(a) + Len(b) : c[i] = IF i <= Len(a) THEN a[i] ELSE b[i - Len(a)]
  BY ConcatProperties, LenProperties
<1>2. /\ DOMAIN a = 1..Len(a) /\ DOMAIN b = 1..Len(b)
      /\ DOMAIN c = 1..Len(a) + Len(b)
  BY <1>1, LenProperties
<1> HIDE DEF c
<1>3. ASSUME NEW y \in ToSet(c) PROVE y \in ToSet(a) \cup ToSet(b)
  <2>1. PICK i \in 1..Len(a) + Len(b) : y = c[i]
    BY <1>2 DEF ToSet
  <2>2. CASE i <= Len(a)
    <3>1. i \in DOMAIN a /\ y = a[i]
      BY <1>1, <1>2, <2>1, <2>2
    <3> QED
      BY <3>1 DEF ToSet
  <2>3. CASE ~(i <= Len(a))
    <3>1. i - Len(a) \in DOMAIN b /\ y = b[i - Len(a)]
      BY <1>1, <1>2, <2>1, <2>3
    <3> QED
      BY <3>1 DEF ToSet
  <2> QED
    BY <2>2, <2>3
<1>4. ASSUME NEW y \in ToSet(a) PROVE y \in ToSet(c)
  <2>1. PICK i \in 1..Len(a) : y = a[i]
    BY <1>2 DEF ToSet
  <2>2. i \in DOMAIN c /\ y = c[i]
    BY <1>1, <1>2, <2>1
  <2> QED
    BY <2>2 DEF ToSet
<1>5. ASSUME NEW y \in ToSet(b) PROVE y \in ToSet(c)
  <2>1. PICK i \in 1..Len(b) : y = b[i]
    BY <1>2 DEF ToSet
  <2>2. /\ i + Len(a) \in 1..Len(a) + Len(b) /\ ~(i + Len(a) <= Len(a))
        /\ (i + Len(a)) - Len(a) = i
    BY <1>1
  <2>3. i + Len(a) \in DOMAIN c /\ y = c[i + Len(a)]
    BY <1>1, <1>2, <2>1, <2>2
  <2> QED
    BY <2>3 DEF ToSet
<1>6. ToSet(c) = ToSet(a) \cup ToSet(b)
  BY <1>3, <1>4, <1>5
<1> QED
  BY <1>6 DEF c

LEMMA SetType == ASSUME NEW S, NEW s \in Seq(S) PROVE ToSet(s) \subseteq S
  BY LenProperties DEF ToSet

LEMMA AfterWaveType ==
    ASSUME NEW F, NEW acc \in Outcomes, NEW w \in Seq(Dns)
    PROVE  AfterWave(F, acc, w) \in Outcomes
<1>1. \A T : Only(w, T) \in Seq(Dns)
  BY OnlyType
<1>2. /\ acc.succeeded \in Seq(Dns) /\ acc.failed \in Seq(Dns)
      /\ acc.notRun \in Seq(Dns)
  BY DEF Outcomes
<1>3. \A a, b \in Seq(Dns) : a \o b \in Seq(Dns)
  BY ConcatProperties
<1> QED
  BY <1>1, <1>2, <1>3 DEF AfterWave, Outcomes

LEMMA RunWaveIsAfterWave ==
    ASSUME NEW F, NEW acc \in Outcomes, NEW n, NEW w \in Seq(Dns),
           IsInjective(w), \A x \in ToSet(w) : Len(x) = n
    PROVE  RunWave(F, acc, w) = AfterWave(F, acc, w)
<1> DEFINE Q(v) == IsInjective(v) /\ (\A x \in ToSet(v) : Len(x) = n)
                       => RunWave(F, acc, v) = AfterWave(F, acc, v)
           P == {v \in Seq(Dns) : Q(v)}
           below == {dn \in Dns : Descends(dn, ToSet(acc.failed))}
<1>0. /\ acc.succeeded \in Seq(Dns) /\ acc.failed \in Seq(Dns)
      /\ acc.notRun \in Seq(Dns)
      /\ acc = [succeeded |-> acc.succeeded, failed |-> acc.failed, notRun |-> acc.notRun]
  BY DEF Outcomes
<1>1. Q(<<>>)
  <2>1. /\ acc.succeeded \o <<>> = acc.succeeded
        /\ acc.failed \o <<>> = acc.failed
        /\ acc.notRun \o <<>> = acc.notRun
    BY <1>0, ConcatEmptySeq
  <2>2. AfterWave(F, acc, <<>>) = acc
    BY <1>0, <2>1, OnlyEmpty DEF AfterWave
  <2> QED
    BY <2>2, RunWaveEmpty
<1>2. ASSUME NEW v \in Seq(Dns), NEW x \in Dns, Q(v) PROVE Q(Append(v, x))
  <2> SUFFICES ASSUME IsInjective(Append(v, x)), \A y \in ToSet(Append(v, x)) : Len(y) = n
               PROVE  RunWave(F, acc, Append(v, x)) = AfterWave(F, acc, Append(v, x))
    OBVIOUS
  <2>1. /\ ToSet(Append(v, x)) = ToSet(v) \cup {x}
        /\ IsInjective(v) /\ x \notin ToSet(v)
    BY AppendSet
  <2>2. RunWave(F, acc, Append(v, x)) = RunOne(F, AfterWave(F, acc, v), x)
    BY <1>2, <2>1, RunWaveAppend
  <2> DEFINE r == AfterWave(F, acc, v)
             a(T) == IF x \in T THEN Append(Only(v, T), x) ELSE Only(v, T)
  <2>3. /\ r.succeeded = acc.succeeded \o Only(v, Dns \ (below \cup F))
        /\ r.failed = acc.failed \o Only(v, F \ below)
        /\ r.notRun = acc.notRun \o Only(v, below)
        /\ r = [succeeded |-> r.succeeded, failed |-> r.failed, notRun |-> r.notRun]
    BY DEF AfterWave
  <2>4. AfterWave(F, acc, Append(v, x)) =
            [succeeded |-> acc.succeeded \o a(Dns \ (below \cup F)),
             failed    |-> acc.failed \o a(F \ below),
             notRun    |-> acc.notRun \o a(below)]
    <3>1. \A T : Only(Append(v, x), T) = a(T)
      BY OnlyAppend
    <3> HIDE DEF a
    <3> QED
      BY <3>1 DEF AfterWave
  <2>5. \A T : Only(v, T) \in Seq(Dns) /\ ToSet(Only(v, T)) = ToSet(v) \cap T
    BY OnlyType
  <2>6. Descends(x, ToSet(r.failed)) <=> x \in below
    <3>1. ToSet(r.failed) = ToSet(acc.failed) \cup (ToSet(v) \cap (F \ below))
      BY <1>0, <2>3, <2>5, ConcatSet, SMTT(60)
    <3>2. ASSUME NEW y \in ToSet(v), IsPrefix(y, x) PROVE FALSE
      <4>1. y \in Dns /\ Len(y) = n /\ Len(x) = n
        BY <2>1, SetType
      <4>2. y = x
        BY <3>2, <4>1, PrefixEqual DEF Dns
      <4> QED
        BY <2>1, <4>2
    <3> QED
      BY <3>1, <3>2 DEF Descends
  <2>7. \A o \in Seq(Dns) : \A T : o \o Append(Only(v, T), x) = Append(o \o Only(v, T), x)
    BY <2>5, ConcatAppend, SMTT(60)
  <2> HIDE DEF r, below
  <2>8. CASE x \in below
    <3>1. RunOne(F, r, x) = [r EXCEPT !.notRun = Append(@, x)]
      BY <2>6, <2>8 DEF RunOne
    <3>2. /\ a(Dns \ (below \cup F)) = Only(v, Dns \ (below \cup F))
          /\ a(F \ below) = Only(v, F \ below)
          /\ a(below) = Append(Only(v, below), x)
      BY <2>8
    <3> HIDE DEF a
    <3>3. acc.notRun \o a(below) = Append(r.notRun, x)
      <4>1. acc.notRun \in Seq(Dns)
        BY <1>0
      <4>2. acc.notRun \o Append(Only(v, below), x) = Append(acc.notRun \o Only(v, below), x)
        BY <2>7, <4>1
      <4> QED
        BY <2>3, <3>2, <4>2
    <3>4. AfterWave(F, acc, Append(v, x)) =
              [succeeded |-> r.succeeded, failed |-> r.failed, notRun |-> Append(r.notRun, x)]
      BY <2>3, <2>4, <3>2, <3>3
    <3> QED
      BY <2>2, <2>3, <3>1, <3>4 DEF r
  <2>9. CASE x \notin below /\ x \in F
    <3>1. RunOne(F, r, x) = [r EXCEPT !.failed = Append(@, x)]
      BY <2>6, <2>9 DEF RunOne
    <3>2. /\ a(Dns \ (below \cup F)) = Only(v, Dns \ (below \cup F))
          /\ a(F \ below) = Append(Only(v, F \ below), x)
          /\ a(below) = Only(v, below)
      BY <2>9
    <3> HIDE DEF a
    <3>3. acc.failed \o a(F \ below) = Append(r.failed, x)
      <4>1. acc.failed \in Seq(Dns)
        BY <1>0
      <4>2. acc.failed \o Append(Only(v, F \ below), x)
                = Append(acc.failed \o Only(v, F \ below), x)
        BY <2>7, <4>1
      <4> QED
        BY <2>3, <3>2, <4>2
    <3>4. AfterWave(F, acc, Append(v, x)) =
              [succeeded |-> r.succeeded, failed |-> Append(r.failed, x), notRun |-> r.notRun]
      BY <2>3, <2>4, <3>2, <3>3
    <3> QED
      BY <2>2, <2>3, <3>1, <3>4 DEF r
  <2>10. CASE x \notin below /\ x \notin F
    <3>1. RunOne(F, r, x) = [r EXCEPT !.succeeded = Append(@, x)]
      BY <2>6, <2>10 DEF RunOne
    <3>2. /\ a(Dns \ (below \cup F)) = Append(Only(v, Dns \ (below \cup F)), x)
          /\ a(F \ below) = Only(v, F \ below)
          /\ a(below) = Only(v, below)
      BY <2>10
    <3> HIDE DEF a
    <3>3. acc.succeeded \o a(Dns \ (below \cup F)) = Append(r.succeeded, x)
      <4>1. acc.succeeded \in Seq(Dns)
        BY <1>0
      <4>2. acc.succeeded \o Append(Only(v, Dns \ (below \cup F)), x)
                = Append(acc.succeeded \o Only(v, Dns \ (below \cup F)), x)
        BY <2>7, <4>1
      <4> QED
        BY <2>3, <3>2, <4>2
    <3>4. AfterWave(F, acc, Append(v, x)) =
              [succeeded |-> Append(r.succeeded, x), failed |-> r.failed, notRun |-> r.notRun]
      BY <2>3, <2>4, <3>2, <3>3
    <3> QED
      BY <2>2, <2>3, <3>1, <3>4 DEF r
  <2> QED
    BY <2>8, <2>9, <2>10
<1>3. Seq(Dns) \subseteq P
  <2> HIDE DEF Q
  <2>1. <<>> \in P
    BY <1>1, EmptyInfo
  <2>2. ASSUME NEW v \in Seq(Dns), NEW x \in Dns, v \in P PROVE Append(v, x) \in P
    BY <1>2, <2>2, AppendProperties
  <2> HIDE DEF P
  <2> QED
    BY <2>1, <2>2, SequencesByAppend
<1> QED
  BY <1>3

LEMMA RunWaveSame ==
    ASSUME NEW F, NEW G, NEW acc \in Outcomes, NEW n, NEW w \in Seq(Dns),
           IsInjective(w), \A x \in ToSet(w) : Len(x) = n,
           \A x \in ToSet(w) : x \in F <=> x \in G
    PROVE  RunWave(F, acc, w) = RunWave(G, acc, w)
<1> DEFINE below == {dn \in Dns : Descends(dn, ToSet(acc.failed))}
<1>1. Only(w, Dns \ (below \cup F)) = Only(w, Dns \ (below \cup G))
  <2> HIDE DEF below
  <2> QED
    BY OnlySame
<1>2. Only(w, F \ below) = Only(w, G \ below)
  <2> HIDE DEF below
  <2> QED
    BY OnlySame
<1>3. AfterWave(F, acc, w) = AfterWave(G, acc, w)
  BY <1>1, <1>2 DEF AfterWave
<1> QED
  BY <1>3, RunWaveIsAfterWave

LEMMA DepthOfOps ==
    ASSUME NEW s \in Seq(Dns), IsInjective(s), NEW d
    PROVE  /\ OfDepth(s, d) \in Seq(Dns) /\ IsInjective(OfDepth(s, d))
           /\ ToSet(OfDepth(s, d)) = {dn \in ToSet(s) : Len(dn) = d}
<1> DEFINE D == {dn \in ToSet(s) : Len(dn) = d}
<1>1. /\ Only(s, D) \in Seq(Dns) /\ IsInjective(Only(s, D))
      /\ ToSet(Only(s, D)) = ToSet(s) \cap D
  BY OnlyType
<1> QED
  BY <1>1 DEF OfDepth

LEMMA RunUpToType ==
    ASSUME NEW s \in Seq(Dns), IsInjective(s), NEW F, NEW d \in Nat
    PROVE  RunUpTo(s, F, d) \in Outcomes
<1> DEFINE P == {n \in Nat : RunUpTo(s, F, n) \in Outcomes}
<1>1. 0 \in P
  <2>1. NoOutcome \in Outcomes
    BY EmptyInfo DEF NoOutcome, Outcomes
  <2> QED
    BY <2>1, RunUpToDepth
<1>2. ASSUME NEW n \in Nat, n \in P PROVE n + 1 \in P
  <2> DEFINE w == OfDepth(s, n + 1)
             acc == RunUpTo(s, F, n)
  <2>1. /\ w \in Seq(Dns) /\ IsInjective(w) /\ acc \in Outcomes
        /\ \A x \in ToSet(w) : Len(x) = n + 1
    BY <1>2, DepthOfOps
  <2>2. RunUpTo(s, F, n + 1) = RunWave(F, acc, w)
    BY RunUpToDepth
  <2> HIDE DEF w, acc
  <2>3. RunWave(F, acc, w) = AfterWave(F, acc, w) /\ AfterWave(F, acc, w) \in Outcomes
    BY <2>1, RunWaveIsAfterWave, AfterWaveType
  <2> QED
    BY <2>2, <2>3
<1>3. d \in P
  <2> HIDE DEF P
  <2> QED
    BY <1>1, <1>2, NumbersFrom0
<1> QED
  BY <1>3

\* What fails below a depth makes no difference above it.
LEMMA RunUpToSame ==
    ASSUME NEW s \in Seq(Dns), IsInjective(s), NEW F, NEW G, NEW d \in Nat,
           \A x \in ToSet(s) : Len(x) <= d => (x \in F <=> x \in G)
    PROVE  RunUpTo(s, F, d) = RunUpTo(s, G, d)
<1> DEFINE P == {n \in Nat : n <= d => RunUpTo(s, F, n) = RunUpTo(s, G, n)}
<1>1. 0 \in P
  BY RunUpToDepth
<1>2. ASSUME NEW n \in Nat, n \in P PROVE n + 1 \in P
  <2> SUFFICES ASSUME n + 1 <= d PROVE RunUpTo(s, F, n + 1) = RunUpTo(s, G, n + 1)
    OBVIOUS
  <2> DEFINE w == OfDepth(s, n + 1)
             acc == RunUpTo(s, F, n)
  <2>1. acc = RunUpTo(s, G, n) /\ acc \in Outcomes
    BY <1>2, RunUpToType
  <2>2. /\ RunUpTo(s, F, n + 1) = RunWave(F, acc, w)
        /\ RunUpTo(s, G, n + 1) = RunWave(G, acc, w)
    BY <2>1, RunUpToDepth
  <2>3. /\ w \in Seq(Dns) /\ IsInjective(w)
        /\ \A x \in ToSet(w) : x \in ToSet(s)
        /\ \A x \in ToSet(w) : Len(x) = n + 1
    BY DepthOfOps
  <2> HIDE DEF w, acc
  <2>4. \A x \in ToSet(w) : x \in F <=> x \in G
    BY <2>3
  <2>5. RunWave(F, acc, w) = RunWave(G, acc, w)
    <3>1. PICK m : \A x \in ToSet(w) : Len(x) = m
      BY <2>3
    <3>2. acc \in Outcomes
      BY <2>1
    <3> QED
      BY <2>3, <2>4, <3>1, <3>2, RunWaveSame, SMTT(60)
  <2> QED
    BY <2>2, <2>5
<1>3. d \in P
  <2> HIDE DEF P
  <2> QED
    BY <1>1, <1>2, NumbersFrom0
<1> QED
  BY <1>3

\* A depth without an operation makes no difference.
LEMMA RunUpToEmpty ==
    ASSUME NEW s \in Seq(Dns), IsInjective(s), NEW F, NEW c \in Nat, NEW d \in Nat, c <= d,
           \A x \in ToSet(s) : Len(x) <= c \/ Len(x) > d
    PROVE  RunUpTo(s, F, d) = RunUpTo(s, F, c)
<1> DEFINE P == {n \in Nat : c <= n /\ n <= d => RunUpTo(s, F, n) = RunUpTo(s, F, c)}
<1>1. 0 \in P
  <2>1. c <= 0 => c = 0
    OBVIOUS
  <2> QED
    BY <2>1
<1>2. ASSUME NEW n \in Nat, n \in P PROVE n + 1 \in P
  <2> SUFFICES ASSUME c <= n + 1, n + 1 <= d PROVE RunUpTo(s, F, n + 1) = RunUpTo(s, F, c)
    OBVIOUS
  <2>1. CASE c = n + 1
    BY <2>1
  <2>2. CASE c # n + 1
    <3>1. c <= n /\ n <= d
      BY <2>2
    <3>2. ToSet(OfDepth(s, n + 1)) = {} /\ OfDepth(s, n + 1) \in Seq(Dns)
      <4>1. ASSUME NEW x \in ToSet(s), Len(x) = n + 1 PROVE FALSE
        BY <3>1, <4>1
      <4> QED
        BY <4>1, DepthOfOps
    <3>3. OfDepth(s, n + 1) = <<>>
      <4> DEFINE w == OfDepth(s, n + 1)
      <4> HIDE DEF w
      <4>1. w \in Seq(Dns) /\ ToSet(w) = {}
        BY <3>2 DEF w
      <4>2. w = <<>>
        <5> SUFFICES ASSUME w # <<>> PROVE FALSE
          OBVIOUS
        <5>1. 1 \in DOMAIN w
          BY <4>1, EmptySeq, LenProperties
        <5> QED
          BY <4>1, <5>1 DEF ToSet
      <4> QED
        BY <4>2 DEF w
    <3>4. RunUpTo(s, F, n + 1) = RunUpTo(s, F, n)
      <4>1. RunUpTo(s, F, n + 1) = RunWave(F, RunUpTo(s, F, n), OfDepth(s, n + 1))
        BY RunUpToDepth
      <4> QED
        BY <3>3, <4>1, RunWaveEmpty
    <3> QED
      BY <1>2, <3>1, <3>4
  <2> QED
    BY <2>1, <2>2
<1>3. d \in P
  <2> HIDE DEF P
  <2> QED
    BY <1>1, <1>2, NumbersFrom0
<1> QED
  BY <1>3

\* A wave falls into the operations below a failure and those to be run.
LEMMA SplitWave ==
    ASSUME NEW w \in Seq(Dns), IsInjective(w), NEW failed
    PROVE  /\ Runnable(w, failed) \in Seq(Dns) /\ Skipped(w, failed) \in Seq(Dns)
           /\ IsInjective(Runnable(w, failed))
           /\ ToSet(Runnable(w, failed)) = {dn \in ToSet(w) : ~Descends(dn, failed)}
           /\ ToSet(Skipped(w, failed)) = {dn \in ToSet(w) : Descends(dn, failed)}
<1> DEFINE A == {dn \in ToSet(w) : ~Descends(dn, failed)}
           B == {dn \in ToSet(w) : Descends(dn, failed)}
<1>1. A \subseteq ToSet(w) /\ B \subseteq ToSet(w)
  OBVIOUS
<1> HIDE DEF A, B
<1>2. /\ Only(w, A) \in Seq(Dns) /\ IsInjective(Only(w, A)) /\ ToSet(Only(w, A)) = A
      /\ Only(w, B) \in Seq(Dns) /\ ToSet(Only(w, B)) = B
  <2>1. /\ Only(w, A) \in Seq(Dns) /\ ToSet(Only(w, A)) = ToSet(w) \cap A
        /\ IsInjective(w) => IsInjective(Only(w, A))
    BY OnlyType
  <2>2. Only(w, B) \in Seq(Dns) /\ ToSet(Only(w, B)) = ToSet(w) \cap B
    BY OnlyType
  <2> QED
    BY <1>1, <2>1, <2>2
<1> QED
  BY <1>2 DEF A, B, Runnable, Skipped

\* The operations whose results are ok, or not, in the order of the results.
Said(results, ok) ==
    LET r == Only(results, {x \in ToSet(results) : x.ok = ok})
    IN [i \in DOMAIN r |-> r[i].op]

Results == [op : Dns, ok : BOOLEAN]

\* The results of a wave's operations, position by position.
Answered(run, results) ==
    /\ run \in Seq(Dns) /\ IsInjective(run) /\ results \in Seq(Results)
    /\ Len(results) = Len(run)
    /\ \A i \in 1..Len(run) : results[i].op = run[i]

LEMMA SaidIs ==
    ASSUME NEW run, NEW results, Answered(run, results)
    PROVE  \E U \in SUBSET ToSet(run) :
               /\ Said(results, FALSE) = Only(run, U)
               /\ Said(results, TRUE) = Only(run, Dns \ U)
<1> DEFINE U == {run[i] : i \in {j \in 1..Len(run) : results[j].ok = FALSE}}
           Of(ok) == {x \in ToSet(results) : x.ok = ok}
<1>1. /\ DOMAIN run = 1..Len(run) /\ DOMAIN results = 1..Len(run) /\ IsInjective(run)
      /\ \A i \in 1..Len(run) : run[i] \in Dns /\ results[i] \in Results
  BY LenProperties, ElementOfSeq DEF Answered
<1>2. U \in SUBSET ToSet(run)
  BY <1>1 DEF ToSet
<1>3. ASSUME NEW i \in 1..Len(run)
      PROVE  /\ results[i].ok \in BOOLEAN /\ results[i] \in ToSet(results)
             /\ run[i] \in U <=> results[i].ok = FALSE
  <2>1. \A j \in 1..Len(run) : run[i] = run[j] => i = j
    BY <1>1 DEF IsInjective
  <2>2. run[i] \in U <=> results[i].ok = FALSE
    BY <2>1
  <2>3. results[i].ok \in BOOLEAN /\ results[i] \in ToSet(results)
    BY <1>1 DEF ToSet, Results
  <2> QED
    BY <2>2, <2>3
<1>4. \A i \in 1..Len(run) : (results[i] \in Of(FALSE) <=> run[i] \in U)
  BY <1>3
<1>5. \A i \in 1..Len(run) : results[i] \in Of(TRUE) <=> run[i] \in Dns \ U
  BY <1>1, <1>3
<1>6. \A r \in Results : r.op \in Dns
  BY DEF Results
<1> DEFINE yes == Of(TRUE)
           no == Of(FALSE)
           V == Dns \ U
<1>7. /\ \A i \in 1..Len(run) : results[i].op = run[i] /\ (results[i] \in no <=> run[i] \in U)
      /\ \A i \in 1..Len(run) : results[i].op = run[i] /\ (results[i] \in yes <=> run[i] \in V)
      /\ Len(results) = Len(run) /\ run \in Seq(Dns) /\ results \in Seq(Results)
  BY <1>4, <1>5 DEF Answered
<1>8. Said(results, FALSE) = OpsOf(Only(results, no))
      /\ Said(results, TRUE) = OpsOf(Only(results, yes))
  BY DEF Said, OpsOf
<1> HIDE DEF yes, no, V, U
<1>9. OpsOf(Only(results, no)) = Only(run, U)
  BY <1>6, <1>7, OnlyResults
<1>10. OpsOf(Only(results, yes)) = Only(run, V)
  BY <1>6, <1>7, OnlyResults
<1> QED
  BY <1>2, <1>8, <1>9, <1>10 DEF V

\* A wave d of s after the operations failed so far, and its results.
WaveRun(s, d, failed, results) ==
    /\ s \in Seq(Dns) /\ IsInjective(s) /\ d \in Nat \ {0}
    /\ ToSet(RunUpTo(s, failed, d - 1).failed) = failed
    /\ \A f \in failed : Len(f) < d
    /\ Answered(Runnable(OfDepth(s, d), failed), results)

Booking(before, results, skipped) ==
    [succeeded |-> before.succeeded \o Said(results, TRUE),
     failed    |-> before.failed \o Said(results, FALSE),
     notRun    |-> before.notRun \o skipped]

WaveBooked(s, d, failed, results) ==
    Booking(RunUpTo(s, failed, d - 1), results, Skipped(OfDepth(s, d), failed))

WaveRight(s, d, failed, results) ==
    /\ Said(results, TRUE) \in Seq(Dns) /\ Said(results, FALSE) \in Seq(Dns)
    /\ ToSet(Said(results, TRUE)) \cup ToSet(Said(results, FALSE))
           = ToSet(Runnable(OfDepth(s, d), failed))
    /\ WaveBooked(s, d, failed, results)
           = RunUpTo(s, ToSet(WaveBooked(s, d, failed, results).failed), d)

\* The concurrent engine's bookkeeping of a wave is the sequential engine's.
LEMMA WaveFolds ==
    ASSUME NEW s, NEW d, NEW failed, NEW results, WaveRun(s, d, failed, results)
    PROVE  WaveRight(s, d, failed, results)
<1> DEFINE good   == Said(results, TRUE)
           bad    == Said(results, FALSE)
           wave   == OfDepth(s, d)
           run    == Runnable(wave, failed)
           before == RunUpTo(s, failed, d - 1)
           after  == Booking(before, results, Skipped(wave, failed))
<1>0. /\ s \in Seq(Dns) /\ IsInjective(s) /\ d \in Nat /\ d # 0
      /\ ToSet(before.failed) = failed
      /\ Answered(run, results)
      /\ \A f \in failed : Len(f) < d
  BY DEF WaveRun
<1>00. /\ after.succeeded = before.succeeded \o good
       /\ after.failed = before.failed \o bad
       /\ after = [succeeded |-> before.succeeded \o good,
                   failed    |-> before.failed \o bad,
                   notRun    |-> before.notRun \o Skipped(wave, failed)]
  BY DEF Booking
<1>12. run = Only(wave, {dn \in ToSet(wave) : ~Descends(dn, failed)})
  BY DEF Runnable
<1> HIDE DEF good, bad, wave, run, before, after
<1>1. /\ wave \in Seq(Dns) /\ IsInjective(wave)
      /\ ToSet(wave) = {dn \in ToSet(s) : Len(dn) = d}
  BY <1>0, DepthOfOps DEF wave
<1>2. /\ run \in Seq(Dns) /\ IsInjective(run)
      /\ ToSet(run) = {dn \in ToSet(wave) : ~Descends(dn, failed)}
  BY <1>1, SplitWave DEF run
<1>3. PICK U \in SUBSET ToSet(run) : bad = Only(run, U) /\ good = Only(run, Dns \ U)
  BY <1>0, SaidIs DEF good, bad
<1> DEFINE V == Dns \ U
           F2 == failed \cup U
           below == {dn \in Dns : Descends(dn, failed)}
           A == {dn \in ToSet(wave) : ~Descends(dn, failed)}
<1>4. /\ good \in Seq(Dns) /\ bad \in Seq(Dns)
      /\ ToSet(bad) = U /\ ToSet(good) = ToSet(run) \ U
  <2>1. good = Only(run, V)
    BY <1>3
  <2> HIDE DEF V
  <2>2. /\ Only(run, V) \in Seq(Dns) /\ ToSet(Only(run, V)) = ToSet(run) \cap V
        /\ Only(run, U) \in Seq(Dns) /\ ToSet(Only(run, U)) = ToSet(run) \cap U
    BY <1>2, OnlyType
  <2>3. ToSet(run) \subseteq Dns
    BY <1>2, SetType
  <2> QED
    BY <1>3, <2>1, <2>2, <2>3 DEF V
<1>5. d - 1 \in Nat /\ (d - 1) + 1 = d
  BY <1>0
<1>6. before \in Outcomes
  BY <1>0, <1>5, RunUpToType DEF before
<1>7. ToSet(after.failed) = F2
  <2>1. before.failed \in Seq(Dns)
    BY <1>6 DEF Outcomes
  <2>2. ToSet(before.failed \o bad) = ToSet(before.failed) \cup ToSet(bad)
    BY <1>4, <2>1, ConcatSet
  <2> QED
    BY <1>0, <1>00, <1>4, <2>2
<1>8. \A x \in ToSet(wave) : x \in F2 <=> x \in U
  BY <1>0, <1>1
<1>9. before = RunUpTo(s, F2, d - 1)
  <2>1. \A x \in ToSet(s) : Len(x) <= d - 1 => (x \in failed <=> x \in F2)
    <3>1. \A x \in U : Len(x) = d
      BY <1>1, <1>2
    <3>2. ~(d <= d - 1)
      BY <1>0
    <3> QED
      BY <3>1, <3>2
  <2> HIDE DEF F2
  <2>2. RunUpTo(s, failed, d - 1) = RunUpTo(s, F2, d - 1)
    <3>1. PICK e \in Nat : e = d - 1
      BY <1>5
    <3>2. RunUpTo(s, failed, e) = RunUpTo(s, F2, e)
      BY <1>0, <2>1, <3>1, RunUpToSame
    <3> QED
      BY <3>1, <3>2
  <2> QED
    BY <2>2 DEF before
<1>10. RunUpTo(s, F2, d) = AfterWave(F2, before, wave)
  <2> HIDE DEF F2
  <2>1. RunUpTo(s, F2, d) = RunWave(F2, before, wave)
    BY <1>5, <1>9, RunUpToDepth DEF wave
  <2>2. \A x \in ToSet(wave) : Len(x) = d
    BY <1>1
  <2>3. RunWave(F2, before, wave) = AfterWave(F2, before, wave)
    BY <1>1, <1>6, <2>2, RunWaveIsAfterWave
  <2> QED
    BY <2>1, <2>3
<1>11. ToSet(wave) \subseteq Dns
  BY <1>1, SetType
<1>13. bad = Only(wave, F2 \ below)
  <2> DEFINE X == A \cap U
             Y == F2 \ below
  <2>1. \A x \in ToSet(wave) : x \in X <=> x \in Y
    BY <1>2, <1>3, <1>8, <1>11
  <2> HIDE DEF A, Y
  <2>2. Only(Only(wave, A), U) = Only(wave, X)
    BY <1>1, OnlyTwice
  <2> HIDE DEF X
  <2>3. Only(wave, X) = Only(wave, Y)
    BY <1>1, <2>1, OnlySame
  <2> QED
    BY <1>3, <1>12, <2>2, <2>3 DEF A, Y
<1>14. good = Only(wave, Dns \ (below \cup F2))
  <2> DEFINE X == A \cap V
             Y == Dns \ (below \cup F2)
  <2>1. \A x \in ToSet(wave) : x \in X <=> x \in Y
    BY <1>2, <1>3, <1>8, <1>11
  <2>2. good = Only(run, V)
    BY <1>3
  <2> HIDE DEF A, V, Y
  <2>3. Only(Only(wave, A), V) = Only(wave, X)
    BY <1>1, OnlyTwice
  <2> HIDE DEF X
  <2>4. Only(wave, X) = Only(wave, Y)
    BY <1>1, <2>1, OnlySame
  <2> QED
    BY <1>12, <2>2, <2>3, <2>4 DEF A, Y
<1>15. Skipped(wave, failed) = Only(wave, below)
  <2> DEFINE X == {dn \in ToSet(wave) : Descends(dn, failed)}
  <2>1. \A x \in ToSet(wave) : x \in X <=> x \in below
    BY <1>11
  <2>2. Skipped(wave, failed) = Only(wave, X)
    BY DEF Skipped
  <2> HIDE DEF X, below
  <2>3. Only(wave, X) = Only(wave, below)
    BY <1>1, <2>1, OnlySame
  <2> QED
    BY <2>2, <2>3
<1>16. AfterWave(F2, before, wave) = after
  <2>1. AfterWave(F2, before, wave) =
            [succeeded |-> before.succeeded \o Only(wave, Dns \ (below \cup F2)),
             failed    |-> before.failed \o Only(wave, F2 \ below),
             notRun    |-> before.notRun \o Only(wave, below)]
    BY <1>0 DEF AfterWave
  <2> HIDE DEF F2, below
  <2> QED
    BY <1>00, <1>13, <1>14, <1>15, <2>1
<1>17. ToSet(good) \cup ToSet(bad) = ToSet(run)
  BY <1>3, <1>4
<1>18. after = WaveBooked(s, d, failed, results)
  BY DEF after, before, wave, WaveBooked
<1> HIDE DEF F2, V
<1> QED
  BY <1>4, <1>7, <1>10, <1>16, <1>17, <1>18 DEF WaveRight, good, bad, run, wave
-------------------------------------------------------------------------------
(* The inductive invariant.                                                *)

Failed == ToSet(outcome.failed)
Booked == ToSet(outcome.succeeded) \cup Failed \cup ToSet(outcome.notRun)
UpTo(d) == {dn \in ToSet(ops) : Len(dn) <= d}

\* Outside the waves the outcome tells of every operation so far, and is that
\* of the sequential engine.
AtRest ==
    phase # "wave" =>
        /\ busy = {}
        /\ Booked = UpTo(depth)
        /\ outcome = RunUpTo(ops, Failed, depth)

\* In a wave it tells of those above the wave and of those skipped in it; the
\* answers so far are those to the operations at their positions.
InWave ==
    phase = "wave" =>
        /\ depth # 0
        /\ toRun = Runnable(OfDepth(ops, depth), Failed)
        /\ Booked \cup ToSet(toRun) = UpTo(depth)
        /\ \A f \in Failed : Len(f) < depth
        /\ outcome = [RunUpTo(ops, Failed, depth - 1) EXCEPT
                          !.notRun = @ \o Skipped(OfDepth(ops, depth), Failed)]
        /\ \A i \in 1..pulled : i \in busy \/ slots[i].op = toRun[i]

\* What was not run is below a failure; nothing else is.
Isolated ==
    /\ \A dn \in ToSet(outcome.notRun) : \E f \in Failed : IsStrictPrefix(f, dn)
    /\ \A dn \in ToSet(outcome.succeeded) \cup Failed : \A f \in Failed : ~IsStrictPrefix(f, dn)

Depths ==
    /\ depth \in {Len(dn) : dn \in ToSet(ops)} \cup {0}
    /\ phase = "over" => Deeper = {}

PushInv == TypeOK /\ AtRest /\ InWave /\ Isolated /\ Depths

\* What is pushed: operations with DNs, each once.
LEMMA OpsAre ==
    ASSUME ops \in OpLists
    PROVE  /\ ops \in Seq(Dns) /\ IsInjective(ops) /\ ToSet(ops) \subseteq Dns
           /\ \A dn \in ToSet(ops) : Len(dn) \in Nat /\ Len(dn) # 0
<1>1. ops \in Seq(Dns \ {<<>>}) /\ IsInjective(ops)
  BY OpListAssumption DEF Dns
<1>2. ops \in Seq(Dns)
  BY <1>1, SeqMonotonic
<1>3. ToSet(ops) \subseteq Dns \ {<<>>}
  BY <1>1, SetType
<1>4. \A dn \in Dns \ {<<>>} : Len(dn) \in Nat /\ Len(dn) # 0
  BY EmptySeq DEF Dns
<1> QED
  BY <1>1, <1>2, <1>3, <1>4

LEMMA OutcomeType ==
    ASSUME TypeOK
    PROVE  outcome \in Outcomes
  BY DEF TypeOK, Outcomes

LEMMA StartKeeps ==
    ASSUME ops \in OpLists, bound \in Concurrency,
           \E p \in {"between", "off"} : Start(p)
    PROVE  PushInv
<1>1. \A dn \in ToSet(ops) : Len(dn) \in Nat /\ Len(dn) # 0
  BY OpsAre
<1>2. ToSet(<<>>) = {} /\ Len(<<>>) = 0 /\ \A S : <<>> \in Seq(S)
  BY EmptyInfo
<1>3. /\ depth = 0 /\ toRun = <<>> /\ pulled = 0 /\ busy = {} /\ slots = <<>>
      /\ outcome = NoOutcome /\ phase \in {"between", "off"}
  BY DEF Start
<1>4. Cardinality(busy) <= bound
  <2>1. Cardinality({}) = 0 /\ bound \in Nat
    BY FS_EmptySet, ConcurrencyAssumption
  <2> QED
    BY <1>3, <2>1
<1>5. TypeOK
  <2>1. outcome \in Outcomes
    BY <1>2, <1>3 DEF NoOutcome, Outcomes
  <2>2. slots \in Seq([op : Dns, ok : BOOLEAN]) /\ toRun \in Seq(Dns)
    BY <1>2, <1>3
  <2> QED
    BY <1>2, <1>3, <1>4, <2>1, <2>2 DEF TypeOK, Outcomes
<1>6. Failed = {} /\ Booked = {} /\ ToSet(outcome.notRun) = {} /\ ToSet(outcome.succeeded) = {}
  BY <1>2, <1>3 DEF Failed, Booked, NoOutcome
<1>7. UpTo(depth) = {}
  BY <1>1, <1>3 DEF UpTo
<1>8. AtRest
  BY <1>3, <1>6, <1>7, RunUpToDepth DEF AtRest
<1>9. InWave /\ Isolated /\ Depths
  BY <1>3, <1>6 DEF InWave, Isolated, Depths
<1> QED
  BY <1>5, <1>8, <1>9 DEF PushInv

LEMMA StartWaveKeeps == PushInv /\ StartWave => PushInv'
<1> SUFFICES ASSUME PushInv, StartWave PROVE PushInv'
  OBVIOUS
<1>1. PICK d \in Deeper :
         /\ \A e \in Deeper : d <= e
         /\ depth' = d
         /\ toRun' = Runnable(OfDepth(ops, d), Failed)
         /\ outcome' = [outcome EXCEPT !.notRun = @ \o Skipped(OfDepth(ops, d), Failed)]
  BY DEF StartWave, Failed
<1>2. /\ phase = "between" /\ pulled' = 0 /\ slots' = [i \in DOMAIN toRun' |-> Empty]
      /\ phase' = "wave" /\ ops' = ops /\ bound' = bound /\ busy' = busy
  BY DEF StartWave
<1>3. /\ TypeOK /\ busy = {} /\ Booked = UpTo(depth)
      /\ outcome = RunUpTo(ops, Failed, depth) /\ Isolated
      /\ depth \in Nat /\ ops \in OpLists
  BY <1>2 DEF PushInv, AtRest, TypeOK
<1>4. /\ ops \in Seq(Dns) /\ IsInjective(ops) /\ ToSet(ops) \subseteq Dns
      /\ \A dn \in ToSet(ops) : Len(dn) \in Nat /\ Len(dn) # 0
  BY <1>3, OpsAre
<1>5. /\ d \in Nat /\ d > depth /\ d # 0 /\ \E dn \in ToSet(ops) : Len(dn) = d
      /\ \A dn \in ToSet(ops) : Len(dn) <= depth \/ Len(dn) >= d
  BY <1>1, <1>3, <1>4, SMTT(60) DEF Deeper
<1> DEFINE w == OfDepth(ops, d)
           skipped == Skipped(w, Failed)
<1>6. /\ w \in Seq(Dns) /\ IsInjective(w) /\ ToSet(w) = {dn \in ToSet(ops) : Len(dn) = d}
  BY <1>4, DepthOfOps
<1>7. /\ toRun' = Runnable(w, Failed)
      /\ outcome' = [outcome EXCEPT !.notRun = @ \o skipped]
  BY <1>1
<1> HIDE DEF w
<1>8. /\ toRun' \in Seq(Dns) /\ skipped \in Seq(Dns)
      /\ ToSet(toRun') = {dn \in ToSet(w) : ~Descends(dn, Failed)}
      /\ ToSet(skipped) = {dn \in ToSet(w) : Descends(dn, Failed)}
  <2>1. /\ Runnable(w, Failed) \in Seq(Dns) /\ skipped \in Seq(Dns)
        /\ ToSet(Runnable(w, Failed)) = {dn \in ToSet(w) : ~Descends(dn, Failed)}
        /\ ToSet(skipped) = {dn \in ToSet(w) : Descends(dn, Failed)}
    BY <1>6, SplitWave
  <2> HIDE DEF skipped
  <2> QED
    BY <1>7, <2>1
<1> HIDE DEF skipped
<1>9. outcome \in Outcomes
  BY <1>3, OutcomeType
<1>10. /\ outcome'.succeeded = outcome.succeeded /\ outcome'.failed = outcome.failed
       /\ outcome'.notRun = outcome.notRun \o skipped
       /\ outcome.notRun \in Seq(Dns)
  BY <1>7, <1>9 DEF Outcomes
<1>11. ToSet(outcome'.notRun) = ToSet(outcome.notRun) \cup ToSet(skipped)
  BY <1>8, <1>10, ConcatSet
<1>12. Failed' = Failed /\ Booked' = Booked \cup ToSet(skipped)
  BY <1>10, <1>11 DEF Failed, Booked
<1>13. TypeOK'
  <2>1. outcome' \in Outcomes
    <3>1. outcome.notRun \o skipped \in Seq(Dns)
      BY <1>8, <1>10, ConcatProperties
    <3> QED
      BY <1>7, <1>9, <3>1 DEF Outcomes
  <2>2. slots' \in Seq([op : Dns, ok : BOOLEAN]) /\ Len(slots') = Len(toRun')
    <3>1. Empty \in [op : Dns, ok : BOOLEAN]
      BY EmptyInfo DEF Empty, Dns
    <3>2. DOMAIN toRun' = 1..Len(toRun') /\ Len(toRun') \in Nat
      BY <1>8, LenProperties
    <3> QED
      BY <1>2, <3>1, <3>2
  <2>3. Len(toRun') \in Nat
    BY <1>8, LenProperties
  <2>4. Cardinality(busy) <= bound /\ bound \in Concurrency
    BY <1>3 DEF TypeOK
  <2> QED
    BY <1>1, <1>2, <1>3, <1>5, <1>8, <2>1, <2>2, <2>3, <2>4 DEF TypeOK, Outcomes
<1>14. AtRest'
  BY <1>2 DEF AtRest
<1>15. InWave'
  <2>1. Booked' \cup ToSet(toRun') = UpTo(d)
    <3>1. UpTo(d) = UpTo(depth) \cup ToSet(w)
      <4>1. ASSUME NEW dn \in ToSet(ops) PROVE Len(dn) <= d <=> Len(dn) <= depth \/ Len(dn) = d
        BY <1>3, <1>4, <1>5
      <4> QED
        BY <1>6, <4>1 DEF UpTo
    <3> QED
      BY <1>3, <1>8, <1>12, <3>1
  <2>2. UpTo(d)' = UpTo(d)
    BY <1>2 DEF UpTo
  <2>3. ASSUME NEW f \in Failed PROVE Len(f) < d
    <3>1. f \in UpTo(depth)
      BY <1>3 DEF Booked
    <3> QED
      BY <1>3, <1>4, <1>5, <3>1 DEF UpTo
  <2>4. RunUpTo(ops, Failed, d - 1) = outcome
    <3>1. d - 1 \in Nat /\ depth <= d - 1
      BY <1>3, <1>5
    <3>2. \A x \in ToSet(ops) : Len(x) <= depth \/ Len(x) > d - 1
      BY <1>4, <1>5
    <3>3. PICK e \in Nat : e = d - 1
      BY <3>1
    <3>4. RunUpTo(ops, Failed, e) = RunUpTo(ops, Failed, depth)
      BY <1>3, <1>4, <3>1, <3>2, <3>3, RunUpToEmpty
    <3> QED
      BY <1>3, <3>3, <3>4
  <2>5. outcome' = [RunUpTo(ops, Failed, d - 1) EXCEPT !.notRun = @ \o skipped]
    BY <1>7, <2>4
  <2>6. \A i \in 1..pulled' : FALSE
    BY <1>2
  <2> QED
    BY <1>1, <1>2, <1>5, <1>7, <1>12, <2>1, <2>2, <2>3, <2>5, <2>6 DEF InWave, w, skipped
<1>16. Isolated'
  <2>1. ASSUME NEW dn \in ToSet(skipped) PROVE \E f \in Failed : IsStrictPrefix(f, dn)
    <3>1. PICK f \in Failed : IsPrefix(f, dn)
      BY <1>8 DEF Descends
    <3>2. f \in ToSet(ops) /\ Len(f) <= depth
      BY <1>3 DEF Booked, UpTo
    <3>3. dn \in Dns /\ f \in Dns /\ Len(dn) = d
      BY <1>4, <1>6, <1>8, <3>2
    <3>4. Len(f) < Len(dn)
      BY <1>3, <1>4, <1>5, <3>2, <3>3
    <3> QED
      BY <3>1, <3>3, <3>4, PrefixShorter DEF Dns
  <2> QED
    BY <1>3, <1>10, <1>11, <1>12, <2>1 DEF Isolated
<1>17. Depths'
  <2>1. Deeper' = Deeper' /\ depth' \in {Len(dn) : dn \in ToSet(ops)}
    BY <1>1, <1>5
  <2> QED
    BY <1>2, <2>1 DEF Depths
<1> QED
  BY <1>13, <1>14, <1>15, <1>16, <1>17 DEF PushInv

LEMMA PullKeeps == PushInv /\ Pull => PushInv'
<1> SUFFICES ASSUME PushInv, Pull PROVE PushInv'
  OBVIOUS
<1>1. /\ phase = "wave" /\ pulled < Len(toRun) /\ Cardinality(busy) < bound
      /\ pulled' = pulled + 1 /\ busy' = busy \cup {pulled + 1}
      /\ ops' = ops /\ bound' = bound /\ depth' = depth /\ toRun' = toRun
      /\ slots' = slots /\ outcome' = outcome /\ phase' = phase
  BY DEF Pull
<1>2. TypeOK /\ InWave /\ Isolated /\ Depths
  BY DEF PushInv
<1>3. /\ pulled \in 0..Len(toRun) /\ busy \subseteq 1..pulled /\ toRun \in Seq(Dns)
      /\ bound \in Nat /\ Len(toRun) \in Nat
  BY <1>2, ConcurrencyAssumption, LenProperties DEF TypeOK
<1>4. TypeOK'
  <2>1. IsFiniteSet(1..pulled)
    BY <1>3, FS_Interval
  <2>2. IsFiniteSet(busy)
    BY <1>3, <2>1, FS_Subset
  <2>3. pulled + 1 \notin busy
    BY <1>3
  <2>4. Cardinality(busy') = Cardinality(busy) + 1 /\ Cardinality(busy) \in Nat
    BY <1>1, <2>2, <2>3, FS_AddElement, FS_CardinalityType
  <2>5. Cardinality(busy') <= bound
    BY <1>1, <1>3, <2>4
  <2>6. pulled' \in 0..Len(toRun') /\ busy' \subseteq 1..pulled'
    BY <1>1, <1>3
  <2> QED
    BY <1>1, <1>2, <2>5, <2>6 DEF TypeOK
<1>5. /\ Failed' = Failed /\ Booked' = Booked /\ UpTo(depth)' = UpTo(depth)
      /\ Deeper' = Deeper
  BY <1>1 DEF Failed, Booked, UpTo, Deeper
<1>6. InWave'
  <2>1. ASSUME NEW i \in 1..pulled' PROVE i \in busy' \/ slots'[i].op = toRun'[i]
    <3>1. i \in 1..pulled \/ i = pulled + 1
      BY <1>1, <1>3
    <3> QED
      BY <1>1, <1>2, <3>1 DEF InWave
  <2> QED
    BY <1>1, <1>2, <1>5, <2>1 DEF InWave
<1>7. AtRest' /\ Isolated' /\ Depths'
  BY <1>1, <1>2, <1>5 DEF AtRest, Isolated, Depths
<1> QED
  BY <1>4, <1>6, <1>7 DEF PushInv

LEMMA AnswerKeeps == PushInv /\ (\E i \in busy, ok \in BOOLEAN : Answer(i, ok)) => PushInv'
<1> SUFFICES ASSUME PushInv, NEW i \in busy, NEW ok \in BOOLEAN, Answer(i, ok) PROVE PushInv'
  OBVIOUS
<1>1. /\ busy' = busy \ {i}
      /\ slots' = [slots EXCEPT ![i] = [op |-> toRun[i], ok |-> ok]]
      /\ ops' = ops /\ bound' = bound /\ depth' = depth /\ toRun' = toRun
      /\ pulled' = pulled /\ outcome' = outcome /\ phase' = phase
  BY DEF Answer
<1>2. TypeOK /\ AtRest /\ InWave /\ Isolated /\ Depths
  BY DEF PushInv
<1>3. phase = "wave"
  BY <1>2 DEF AtRest
<1>4. /\ pulled \in 0..Len(toRun) /\ busy \subseteq 1..pulled /\ toRun \in Seq(Dns)
      /\ bound \in Nat /\ Len(toRun) \in Nat
      /\ slots \in Seq([op : Dns, ok : BOOLEAN]) /\ Len(slots) = Len(toRun)
      /\ Cardinality(busy) <= bound
  BY <1>2, ConcurrencyAssumption, LenProperties DEF TypeOK
<1>5. i \in 1..pulled /\ i \in 1..Len(toRun)
  BY <1>4
<1>6. toRun[i] \in Dns
  BY <1>4, <1>5, ElementOfSeq
<1> DEFINE result == [op |-> toRun[i], ok |-> ok]
<1>7. result \in [op : Dns, ok : BOOLEAN] /\ result.op = toRun[i]
  BY <1>6
<1>8. slots' = [slots EXCEPT ![i] = result]
  BY <1>1
<1> HIDE DEF result
<1>9. /\ slots' \in Seq([op : Dns, ok : BOOLEAN]) /\ Len(slots') = Len(toRun)
      /\ \A j \in 1..Len(toRun) : slots'[j] = IF j = i THEN result ELSE slots[j]
  BY <1>4, <1>5, <1>7, <1>8, ExceptSeq
<1>10. TypeOK'
  <2>1. IsFiniteSet(1..pulled)
    BY <1>4, FS_Interval
  <2>2. IsFiniteSet(busy)
    BY <1>4, <2>1, FS_Subset
  <2>3. Cardinality(busy') = Cardinality(busy) - 1 /\ Cardinality(busy) \in Nat
    BY <1>1, <2>2, FS_RemoveElement, FS_CardinalityType
  <2>4. Cardinality(busy') <= bound
    BY <1>4, <2>3
  <2>5. busy' \subseteq 1..pulled'
    BY <1>1, <1>4
  <2> QED
    BY <1>1, <1>2, <1>9, <2>4, <2>5 DEF TypeOK
<1>11. /\ Failed' = Failed /\ Booked' = Booked /\ UpTo(depth)' = UpTo(depth)
       /\ Deeper' = Deeper
  BY <1>1 DEF Failed, Booked, UpTo, Deeper
<1>12. InWave'
  <2>1. ASSUME NEW j \in 1..pulled' PROVE j \in busy' \/ slots'[j].op = toRun'[j]
    <3>1. j \in 1..pulled /\ j \in 1..Len(toRun)
      BY <1>1, <1>4
    <3>2. CASE j = i
      BY <1>1, <1>7, <1>9, <3>1, <3>2
    <3>3. CASE j # i
      BY <1>1, <1>2, <1>3, <1>9, <3>1, <3>3 DEF InWave
    <3> QED
      BY <3>2, <3>3
  <2> QED
    BY <1>1, <1>2, <1>11, <2>1 DEF InWave
<1>13. AtRest' /\ Isolated' /\ Depths'
  BY <1>1, <1>2, <1>3, <1>11 DEF AtRest, Isolated, Depths
<1> QED
  BY <1>10, <1>12, <1>13 DEF PushInv

LEMMA EndWaveKeeps == PushInv /\ EndWave => PushInv'
<1> SUFFICES ASSUME PushInv, EndWave PROVE PushInv'
  OBVIOUS
<1> DEFINE good == Said(slots, TRUE)
           bad  == Said(slots, FALSE)
           w    == OfDepth(ops, depth)
           before  == RunUpTo(ops, Failed, depth - 1)
           skipped == Skipped(w, Failed)
<1>1. /\ phase = "wave" /\ pulled = Len(toRun) /\ busy = {} /\ phase' = "between"
      /\ outcome' = [outcome EXCEPT !.succeeded = @ \o good, !.failed = @ \o bad]
      /\ ops' = ops /\ bound' = bound /\ depth' = depth /\ toRun' = toRun
      /\ pulled' = pulled /\ busy' = busy /\ slots' = slots
  BY DEF EndWave, Said
<1>2. TypeOK /\ InWave /\ Isolated /\ Depths
  BY DEF PushInv
<1>3. /\ depth \in Nat /\ ops \in OpLists /\ toRun \in Seq(Dns)
      /\ slots \in Seq(Results) /\ Len(slots) = Len(toRun)
  BY <1>2 DEF TypeOK, Results
<1>4. /\ ops \in Seq(Dns) /\ IsInjective(ops) /\ ToSet(ops) \subseteq Dns
      /\ \A dn \in ToSet(ops) : Len(dn) \in Nat /\ Len(dn) # 0
  BY <1>3, OpsAre
<1>5. /\ depth # 0 /\ toRun = Runnable(w, Failed)
      /\ Booked \cup ToSet(toRun) = UpTo(depth)
      /\ \A f \in Failed : Len(f) < depth
      /\ outcome = [before EXCEPT !.notRun = @ \o skipped]
      /\ \A i \in 1..Len(toRun) : slots[i].op = toRun[i]
  BY <1>1, <1>2 DEF InWave
<1>6. outcome \in Outcomes
  BY <1>2, OutcomeType
<1>7. before \in Outcomes
  <2>1. PICK e \in Nat : e = depth - 1
    BY <1>3, <1>5
  <2>2. RunUpTo(ops, Failed, e) \in Outcomes
    BY <1>4, RunUpToType
  <2> QED
    BY <2>1, <2>2
<1>8. w \in Seq(Dns) /\ IsInjective(w) /\ ToSet(w) = {dn \in ToSet(ops) : Len(dn) = depth}
  BY <1>4, DepthOfOps
<1> HIDE DEF w, before, skipped
<1>9. IsInjective(toRun) /\ ToSet(toRun) = {dn \in ToSet(w) : ~Descends(dn, Failed)}
  BY <1>5, <1>8, SplitWave
<1>10. outcome.succeeded = before.succeeded /\ outcome.failed = before.failed
       /\ outcome.notRun = before.notRun \o skipped
  BY <1>5, <1>7 DEF Outcomes
<1>11. WaveRun(ops, depth, Failed, slots)
  <2>1. ToSet(before.failed) = Failed
    BY <1>10 DEF Failed
  <2>2. Answered(toRun, slots)
    BY <1>3, <1>5, <1>9 DEF Answered
  <2> QED
    BY <1>3, <1>4, <1>5, <2>1, <2>2 DEF WaveRun, w, before
<1> DEFINE after == Booking(before, slots, skipped)
<1>12. /\ good \in Seq(Dns) /\ bad \in Seq(Dns)
       /\ ToSet(good) \cup ToSet(bad) = ToSet(toRun)
       /\ after = RunUpTo(ops, ToSet(after.failed), depth)
  <2>1. WaveRight(ops, depth, Failed, slots)
    BY <1>11, WaveFolds
  <2>2. /\ good \in Seq(Dns) /\ bad \in Seq(Dns)
        /\ ToSet(good) \cup ToSet(bad) = ToSet(Runnable(OfDepth(ops, depth), Failed))
        /\ WaveBooked(ops, depth, Failed, slots)
               = RunUpTo(ops, ToSet(WaveBooked(ops, depth, Failed, slots).failed), depth)
    BY <2>1 DEF WaveRight
  <2>3. after = WaveBooked(ops, depth, Failed, slots)
    BY DEF WaveBooked, w, before, skipped
  <2> QED
    BY <1>5, <2>2, <2>3 DEF w
<1>13. outcome' = after
  BY <1>1, <1>6, <1>10 DEF Booking, Outcomes
<1> HIDE DEF good, bad, after
<1>14. /\ outcome'.succeeded = outcome.succeeded \o good
       /\ outcome'.failed = outcome.failed \o bad
       /\ outcome'.notRun = outcome.notRun
       /\ outcome.succeeded \in Seq(Dns) /\ outcome.failed \in Seq(Dns)
       /\ outcome.notRun \in Seq(Dns)
  BY <1>1, <1>6 DEF Outcomes
<1>15. /\ ToSet(outcome'.succeeded) = ToSet(outcome.succeeded) \cup ToSet(good)
       /\ Failed' = Failed \cup ToSet(bad)
  <2>1. ToSet(outcome.succeeded \o good) = ToSet(outcome.succeeded) \cup ToSet(good)
    BY <1>12, <1>14, ConcatSet
  <2>2. ToSet(outcome.failed \o bad) = ToSet(outcome.failed) \cup ToSet(bad)
    BY <1>12, <1>14, ConcatSet
  <2> QED
    BY <1>14, <2>1, <2>2 DEF Failed
<1>16. Booked' = Booked \cup ToSet(toRun)
  BY <1>12, <1>14, <1>15 DEF Booked
<1>17. UpTo(depth)' = UpTo(depth) /\ Deeper' = Deeper
  BY <1>1 DEF UpTo, Deeper
<1>18. TypeOK'
  <2>1. outcome.succeeded \o good \in Seq(Dns) /\ outcome.failed \o bad \in Seq(Dns)
    BY <1>12, <1>14, ConcatProperties
  <2>2. outcome' \in Outcomes
    BY <1>1, <1>6, <2>1 DEF Outcomes
  <2> QED
    BY <1>1, <1>2, <2>2 DEF TypeOK, Outcomes
<1>19. AtRest'
  <2>1. outcome' = RunUpTo(ops, Failed', depth)
    BY <1>12, <1>13 DEF Failed
  <2> QED
    BY <1>1, <1>5, <1>16, <1>17, <2>1 DEF AtRest
<1>20. InWave' /\ Depths'
  BY <1>1, <1>2, <1>17 DEF InWave, Depths
<1>21. Isolated'
  <2>1. ASSUME NEW dn \in Booked \cup ToSet(toRun)
        PROVE  dn \in Dns /\ Len(dn) \in Nat /\ Len(dn) <= depth
    BY <1>4, <1>5 DEF UpTo
  <2>2. ASSUME NEW f \in ToSet(bad), NEW dn \in Booked \cup ToSet(toRun)
        PROVE  ~IsStrictPrefix(f, dn)
    <3>1. f \in Dns /\ Len(f) = depth
      BY <1>4, <1>8, <1>9, <1>12
    <3>2. IsPrefix(f, dn) => (IsStrictPrefix(f, dn) <=> Len(f) < Len(dn))
      BY <2>1, <3>1, PrefixShorter DEF Dns
    <3>3. ~(Len(f) < Len(dn))
      BY <1>3, <2>1, <3>1
    <3> QED
      BY <3>2, <3>3 DEF IsStrictPrefix
  <2>3. ASSUME NEW f \in Failed, NEW dn \in ToSet(toRun)
        PROVE  ~IsStrictPrefix(f, dn)
    BY <1>9 DEF Descends, IsStrictPrefix
  <2>4. ASSUME NEW dn \in ToSet(outcome'.succeeded) \cup Failed', NEW f \in Failed'
        PROVE  ~IsStrictPrefix(f, dn)
    <3>1. /\ dn \in ToSet(outcome.succeeded) \cup Failed \/ dn \in ToSet(toRun)
          /\ f \in Failed \/ f \in ToSet(bad)
          /\ dn \in Booked \cup ToSet(toRun)
      BY <1>12, <1>15 DEF Booked
    <3> QED
      BY <1>2, <2>2, <2>3, <3>1 DEF Isolated
  <2>5. \A dn \in ToSet(outcome'.notRun) : \E f \in Failed' : IsStrictPrefix(f, dn)
    BY <1>2, <1>14, <1>15 DEF Isolated
  <2> QED
    BY <2>4, <2>5 DEF Isolated
<1> QED
  BY <1>18, <1>19, <1>20, <1>21 DEF PushInv

LEMMA FinishKeeps == PushInv /\ Finish => PushInv'
<1> SUFFICES ASSUME PushInv, Finish PROVE PushInv'
  OBVIOUS
<1>1. /\ phase = "between" /\ Deeper = {} /\ phase' = "over"
      /\ ops' = ops /\ bound' = bound /\ depth' = depth /\ toRun' = toRun
      /\ pulled' = pulled /\ busy' = busy /\ slots' = slots /\ outcome' = outcome
  BY DEF Finish
<1>2. TypeOK /\ AtRest /\ Isolated /\ Depths
  BY DEF PushInv
<1>3. Failed' = Failed /\ Booked' = Booked /\ UpTo(depth)' = UpTo(depth) /\ Deeper' = Deeper
  BY <1>1 DEF Failed, Booked, UpTo, Deeper
<1>4. TypeOK'
  BY <1>1, <1>2 DEF TypeOK
<1>5. AtRest' /\ InWave' /\ Isolated' /\ Depths'
  BY <1>1, <1>2, <1>3 DEF AtRest, InWave, Isolated, Depths
<1> QED
  BY <1>4, <1>5 DEF PushInv

LEMMA StutterKeeps == PushInv /\ UNCHANGED vars => PushInv'
<1> SUFFICES ASSUME PushInv, UNCHANGED vars PROVE PushInv'
  OBVIOUS
<1>1. /\ ops' = ops /\ bound' = bound /\ depth' = depth /\ toRun' = toRun /\ phase' = phase
      /\ pulled' = pulled /\ busy' = busy /\ slots' = slots /\ outcome' = outcome
  BY DEF vars
<1>2. Failed' = Failed /\ Booked' = Booked /\ UpTo(depth)' = UpTo(depth) /\ Deeper' = Deeper
  BY <1>1 DEF Failed, Booked, UpTo, Deeper
<1>3. TypeOK' /\ AtRest'
  BY <1>1, <1>2 DEF PushInv, TypeOK, AtRest
<1>4. InWave' /\ Isolated' /\ Depths'
  BY <1>1, <1>2 DEF PushInv, InWave, Isolated, Depths
<1> QED
  BY <1>3, <1>4 DEF PushInv

LEMMA PushStepKeeps == PushInv /\ [Next]_vars => PushInv'
<1> SUFFICES ASSUME PushInv, [Next]_vars PROVE PushInv'
  OBVIOUS
<1>1. CASE StartWave
  BY <1>1, StartWaveKeeps
<1>2. CASE Pull
  BY <1>2, PullKeeps
<1>3. CASE EndWave
  BY <1>3, EndWaveKeeps
<1>4. CASE Finish
  BY <1>4, FinishKeeps
<1>5. CASE \E i \in busy, ok \in BOOLEAN : Answer(i, ok)
  BY <1>5, AnswerKeeps
<1>6. CASE UNCHANGED vars
  BY <1>6, StutterKeeps
<1> QED
  BY <1>1, <1>2, <1>3, <1>4, <1>5, <1>6 DEF Next

-------------------------------------------------------------------------------
(* The properties.                                                         *)

LEMMA ParentsCameFirst == PushInv => ParentsFirst
<1> SUFFICES ASSUME PushInv, NEW i \in busy, NEW dn \in ToSet(ops),
                    IsStrictPrefix(dn, toRun[i])
             PROVE  dn \in ToSet(outcome.succeeded)
  BY DEF ParentsFirst
<1>1. TypeOK /\ AtRest /\ InWave /\ Isolated
  BY DEF PushInv
<1>2. phase = "wave"
  BY <1>1 DEF AtRest
<1>3. i \in 1..Len(toRun) /\ toRun \in Seq(Dns) /\ depth \in Nat /\ ops \in OpLists
  BY <1>1, LenProperties DEF TypeOK
<1>4. toRun[i] \in ToSet(toRun)
  BY <1>3, LenProperties DEF ToSet
<1> DEFINE w == OfDepth(ops, depth)
<1>5. /\ ops \in Seq(Dns) /\ IsInjective(ops) /\ ToSet(ops) \subseteq Dns
      /\ \A x \in ToSet(ops) : Len(x) \in Nat
  BY <1>3, OpsAre
<1>6. /\ w \in Seq(Dns) /\ IsInjective(w) /\ ToSet(w) = {x \in ToSet(ops) : Len(x) = depth}
  BY <1>5, DepthOfOps
<1>7. toRun = Runnable(w, Failed) /\ Booked \cup ToSet(toRun) = UpTo(depth)
  BY <1>1, <1>2 DEF InWave
<1> HIDE DEF w
<1>8. ToSet(toRun) = {x \in ToSet(w) : ~Descends(x, Failed)}
  BY <1>6, <1>7, SplitWave
<1>9. toRun[i] \in Dns /\ Len(toRun[i]) = depth /\ ~Descends(toRun[i], Failed)
  BY <1>4, <1>5, <1>6, <1>8
<1>10. IsPrefix(dn, toRun[i]) /\ dn \in Dns
  BY <1>5 DEF IsStrictPrefix
<1>11. Len(dn) < depth
  BY <1>9, <1>10, PrefixShorter DEF Dns
<1>12. dn \in Booked
  <2>1. dn \in UpTo(depth) /\ dn \notin ToSet(toRun)
    BY <1>3, <1>5, <1>6, <1>8, <1>11 DEF UpTo
  <2> QED
    BY <1>7, <2>1
<1>13. dn \notin Failed
  BY <1>9, <1>10 DEF Descends
<1>14. dn \notin ToSet(outcome.notRun)
  <2> SUFFICES ASSUME dn \in ToSet(outcome.notRun) PROVE FALSE
    OBVIOUS
  <2>1. PICK f \in Failed : IsStrictPrefix(f, dn)
    BY <1>1 DEF Isolated
  <2>2. f \in Dns /\ IsPrefix(f, dn)
    BY <1>5, <1>7, <2>1 DEF Booked, UpTo, IsStrictPrefix
  <2>3. IsPrefix(f, toRun[i])
    BY <1>9, <1>10, <2>2, PrefixTransitive DEF Dns
  <2> QED
    BY <1>9, <2>3 DEF Descends
<1> QED
  BY <1>12, <1>13, <1>14 DEF Booked

LEMMA OverIsAll == PushInv /\ phase = "over" => Booked = ToSet(ops)
<1> SUFFICES ASSUME PushInv, phase = "over" PROVE Booked = ToSet(ops)
  OBVIOUS
<1>1. /\ Booked = UpTo(depth) /\ Deeper = {} /\ depth \in Nat /\ ops \in OpLists
  BY DEF PushInv, AtRest, Depths, TypeOK
<1>2. \A dn \in ToSet(ops) : Len(dn) \in Nat
  BY <1>1, OpsAre
<1>3. \A dn \in ToSet(ops) : Len(dn) <= depth
  BY <1>1, <1>2 DEF Deeper
<1> QED
  BY <1>1, <1>3 DEF UpTo

LEMMA SubtreesSkipped == PushInv => OnlySubtreesSkipped
<1> SUFFICES ASSUME PushInv, phase = "over", NEW dn \in ToSet(ops)
             PROVE  dn \in ToSet(outcome.notRun) <=>
                        \E f \in ToSet(outcome.failed) : IsStrictPrefix(f, dn)
  BY DEF OnlySubtreesSkipped
<1>1. Isolated
  BY DEF PushInv
<1>2. dn \in Booked
  BY OverIsAll
<1> QED
  BY <1>1, <1>2 DEF Isolated, Booked, Failed

LEMMA SameOutcome == PushInv => SameAsSync
<1> SUFFICES ASSUME PushInv, phase = "over"
             PROVE  outcome = RunWavesSync(ops, ToSet(outcome.failed))
  BY DEF SameAsSync
<1>1. /\ outcome = RunUpTo(ops, Failed, depth) /\ Deeper = {} /\ depth \in Nat
      /\ depth \in {Len(dn) : dn \in ToSet(ops)} \cup {0} /\ ops \in OpLists
  BY DEF PushInv, AtRest, Depths, TypeOK
<1>2. \A dn \in ToSet(ops) : Len(dn) \in Nat /\ Len(dn) <= depth
  <2>1. \A dn \in ToSet(ops) : Len(dn) \in Nat
    BY <1>1, OpsAre
  <2> QED
    BY <1>1, <2>1 DEF Deeper
<1> DEFINE lens == {Len(ops[i]) : i \in DOMAIN ops} \cup {0}
           deepest == CHOOSE n \in lens : \A i \in DOMAIN ops : Len(ops[i]) <= n
<1>3. /\ lens = {Len(dn) : dn \in ToSet(ops)} \cup {0}
      /\ \A i \in DOMAIN ops : ops[i] \in ToSet(ops)
  BY DEF ToSet
<1>4. depth \in lens /\ \A i \in DOMAIN ops : Len(ops[i]) <= depth
  BY <1>1, <1>2, <1>3
<1>5. deepest \in lens /\ \A i \in DOMAIN ops : Len(ops[i]) <= deepest
  <2> HIDE DEF lens
  <2> QED
    BY <1>4
<1>6. \A n \in lens : n \in Nat /\ n <= depth
  BY <1>1, <1>2, <1>3
<1> HIDE DEF deepest
<1>7. depth <= deepest
  <2>1. CASE depth = 0
    BY <1>5, <1>6, <2>1
  <2>2. CASE depth # 0
    <3>1. PICK i \in DOMAIN ops : depth = Len(ops[i])
      BY <1>1, <2>2 DEF ToSet
    <3> QED
      BY <1>5, <3>1
  <2> QED
    BY <2>1, <2>2
<1>8. deepest = depth
  BY <1>1, <1>5, <1>6, <1>7
<1>9. RunWavesSync(ops, Failed) = RunUpTo(ops, Failed, deepest)
  BY DEF RunWavesSync, deepest
<1> QED
  BY <1>1, <1>8, <1>9 DEF Failed
===============================================================================
