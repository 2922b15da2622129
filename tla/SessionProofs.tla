----------------------------- MODULE SessionProofs -----------------------------
(***************************************************************************)
(* Proofs about SessionSockets and Pagination: for any number of callers,  *)
(* every plan of calls and both kinds of callers, threads and tasks; and   *)
(* for every collection, page size and guard, and any writes of others.    *)
(***************************************************************************)
EXTENDS Pagination, FiniteSetTheorems, SequenceTheorems, TLAPS

-------------------------------------------------------------------------------
(* The pages.                                                              *)

\* The first n elements of a sequence, or all of them.
FirstOf(s, n) == SubSeq(s, 1, IF n <= Len(s) THEN n ELSE Len(s))

\* The next size elements after the first r, or as many as there are.
NextOf(s, r, size) ==
    SubSeq(s, r + 1, IF r + size <= Len(s) THEN r + size ELSE Len(s))

\* Until the walk begins nothing was read, and others write only while it runs.
Unread == walk \in {"none", "first"} =>
              /\ page = 0 /\ total = 0 /\ fetched = <<>>
              /\ edits = 0 /\ astray = {}

\* What was read: the first part of the collection if nobody wrote, and else
\* whatever stayed there, unless a removal moved it among the positions read.
ReadSoFar ==
    /\ Len(fetched) <= ReadUpTo
    /\ walk = "more" =>
          /\ page # 0
          /\ edits = 0 => fetched = FirstOf(collection, ReadUpTo)
          /\ "back" \notin astray =>
                \A i \in DOMAIN collection : i <= ReadUpTo /\ collection[i] \in stayed
                    => collection[i] \in ToSet(fetched)

\* No object that stayed is beyond the total, unless it was too low or an
\* insertion moved the object.
CountedUpTo ==
    walk = "more" /\ total # 0 /\ "low" \notin astray =>
        /\ edits = 0 => Len(collection) <= total
        /\ "ahead" \notin astray =>
              \A i \in DOMAIN collection : collection[i] \in stayed => i <= total

PageInv == PageTypeOK /\ Unread /\ ReadSoFar /\ CountedUpTo /\ PagesComplete

-------------------------------------------------------------------------------
\* Two sequences, one after the other.
LEMMA ConcatAt ==
    ASSUME NEW S, NEW s \in Seq(S), NEW t \in Seq(S)
    PROVE  /\ s \o t \in Seq(S)
           /\ Len(s \o t) = Len(s) + Len(t)
           /\ \A i \in 1..Len(s) : (s \o t)[i] = s[i]
           /\ \A i \in 1..Len(t) : (s \o t)[Len(s) + i] = t[i]
<1>1. Len(s) \in Nat /\ Len(t) \in Nat
  BY LenProperties
<1>2. /\ s \o t \in Seq(S)
      /\ Len(s \o t) = Len(s) + Len(t)
      /\ \A i \in 1..(Len(s) + Len(t)) : (s \o t)[i] =
            IF i <= Len(s) THEN s[i] ELSE t[i - Len(s)]
  BY ConcatProperties
<1>3. ASSUME NEW i \in 1..Len(s) PROVE (s \o t)[i] = s[i]
  <2>1. i \in 1..(Len(s) + Len(t)) /\ i <= Len(s)
    BY <1>1
  <2> QED
    BY <1>2, <2>1
<1>4. ASSUME NEW i \in 1..Len(t) PROVE (s \o t)[Len(s) + i] = t[i]
  <2>1. /\ Len(s) + i \in 1..(Len(s) + Len(t)) /\ ~(Len(s) + i <= Len(s))
        /\ (Len(s) + i) - Len(s) = i
    BY <1>1
  <2> QED
    BY <1>2, <2>1
<1> QED
  BY <1>2, <1>3, <1>4

\* The elements from r + 1 to m of a sequence.
LEMMA Slice ==
    ASSUME NEW S, NEW s \in Seq(S), NEW r \in Nat, NEW m \in Nat, m <= Len(s)
    PROVE  /\ SubSeq(s, r + 1, m) \in Seq(S)
           /\ Len(SubSeq(s, r + 1, m)) = IF r < m THEN m - r ELSE 0
           /\ \A i \in 1..(m - r) : SubSeq(s, r + 1, m)[i] = s[r + i]
           /\ r >= m => SubSeq(s, r + 1, m) = <<>>
<1>1. \A i \in (r + 1)..m : s[i] \in S
  BY LenProperties
<1>2. /\ SubSeq(s, r + 1, m) \in Seq(S)
      /\ Len(SubSeq(s, r + 1, m)) = IF r + 1 <= m THEN m - (r + 1) + 1 ELSE 0
      /\ \A i \in 1..(m - (r + 1) + 1) : SubSeq(s, r + 1, m)[i] = s[r + 1 + i - 1]
  BY <1>1, SubSeqProperties, r + 1 \in Int, m \in Int
<1>3. \A i \in 1..(m - r) : r + 1 + i - 1 = r + i
  OBVIOUS
<1>4. ASSUME r >= m PROVE SubSeq(s, r + 1, m) = <<>>
  BY <1>2, <1>4, EmptySeq
<1> QED
  BY <1>2, <1>3, <1>4

LEMMA FirstOfType ==
    ASSUME NEW S, NEW s \in Seq(S), NEW n \in Nat
    PROVE  /\ FirstOf(s, n) \in Seq(S)
           /\ Len(FirstOf(s, n)) = IF n <= Len(s) THEN n ELSE Len(s)
           /\ \A i \in 1..Len(FirstOf(s, n)) : FirstOf(s, n)[i] = s[i]
           /\ n >= Len(s) => FirstOf(s, n) = s
           /\ n = 0 => FirstOf(s, n) = <<>>
<1> DEFINE m == IF n <= Len(s) THEN n ELSE Len(s)
<1>1. Len(s) \in Nat /\ m \in Nat /\ m <= Len(s)
  BY LenProperties
<1>2. FirstOf(s, n) = SubSeq(s, 0 + 1, m)
  BY DEF FirstOf
<1>3. /\ FirstOf(s, n) \in Seq(S) /\ Len(FirstOf(s, n)) = m
      /\ \A i \in 1..m : FirstOf(s, n)[i] = s[i]
  <2> HIDE DEF m
  <2> QED
    BY <1>1, <1>2, Slice
<1>4. ASSUME n >= Len(s) PROVE FirstOf(s, n) = s
  BY <1>1, <1>3, <1>4, SeqEqual
<1>5. ASSUME n = 0 PROVE FirstOf(s, n) = <<>>
  BY <1>1, <1>3, <1>5, EmptySeq
<1> QED
  BY <1>3, <1>4, <1>5

\* It is a prefix of the sequence.
LEMMA FirstOfPrefix ==
    ASSUME NEW T, NEW s \in Seq(T), NEW n \in Nat
    PROVE  IsPrefix(FirstOf(s, n), s)
<1>1. PICK m \in 0..Len(s) : FirstOf(s, n) = SubSeq(s, 1, m)
  BY LenProperties DEF FirstOf
<1>2. Len(SubSeq(s, 1, m)) = m /\ m <= Len(s)
  BY LenProperties, SubSeqProperties
<1>3. SubSeq(SubSeq(s, 1, m), 1, m) = SubSeq(s, 1, m)
  BY <1>2, SubSeqFull, SubSeqProperties
<1> QED
  BY <1>1, <1>2, <1>3 DEF IsPrefix

\* The size positions that follow the first r.
LEMMA NextSlice ==
    ASSUME NEW S, NEW s \in Seq(S), NEW r \in Nat, NEW size \in Nat \ {0}
    PROVE  /\ NextOf(s, r, size) \in Seq(S)
           /\ Len(NextOf(s, r, size)) <= size
           /\ NextOf(s, r, size) = <<>> <=> Len(s) <= r
           /\ \A i \in DOMAIN s : r < i /\ i <= r + size => s[i] \in ToSet(NextOf(s, r, size))
           /\ FirstOf(s, r) \o NextOf(s, r, size) = FirstOf(s, r + size)
<1> DEFINE m == IF r + size <= Len(s) THEN r + size ELSE Len(s)
           batch == NextOf(s, r, size)
<1>1. /\ Len(s) \in Nat /\ m \in Nat /\ m <= Len(s) /\ m <= r + size
      /\ (r + size <= Len(s) => m = r + size) /\ (r + size > Len(s) => m = Len(s))
  BY LenProperties
<1>2. batch = SubSeq(s, r + 1, m) /\ FirstOf(s, r + size) = SubSeq(s, 1, m)
  BY DEF FirstOf, NextOf
<1> HIDE DEF m, batch
<1>3. /\ batch \in Seq(S)
      /\ Len(batch) = IF r < m THEN m - r ELSE 0
      /\ \A i \in 1..(m - r) : batch[i] = s[r + i]
  BY <1>1, <1>2, Slice, SMTT(60)
<1>4. Len(batch) <= size /\ (Len(batch) = 0 <=> Len(s) <= r)
  BY <1>1, <1>3
<1>5. batch = <<>> <=> Len(s) <= r
  BY <1>3, <1>4, EmptySeq
<1>6. ASSUME NEW i \in DOMAIN s, r < i, i <= r + size
      PROVE  s[i] \in ToSet(batch)
  <2>1. i - r \in 1..(m - r) /\ r + (i - r) = i /\ r < m
    <3>1. i \in 1..Len(s)
      BY <1>6, LenProperties
    <3> QED
      BY <1>1, <1>6, <3>1
  <2>2. batch[i - r] = s[i] /\ i - r \in DOMAIN batch
    BY <1>3, <2>1, LenProperties
  <2> QED
    BY <2>2 DEF ToSet
<1>7. FirstOf(s, r) \o batch = FirstOf(s, r + size)
  <2>1. CASE Len(s) <= r
    <3>1. FirstOf(s, r) = s /\ FirstOf(s, r + size) = s
      BY <1>1, <2>1, FirstOfType
    <3>2. batch = <<>>
      BY <1>5, <2>1
    <3> QED
      BY <3>1, <3>2, ConcatEmptySeq
  <2>2. CASE r < Len(s)
    <3>1. 1 \in 1..(Len(s) + 1) /\ r \in (1 - 1)..Len(s) /\ m \in r..Len(s)
      BY <1>1, <2>2
    <3>2. SubSeq(s, 1, r) \o SubSeq(s, r + 1, m) = SubSeq(s, 1, m)
      BY <3>1, ConcatAdjacentSubSeq
    <3>3. FirstOf(s, r) = SubSeq(s, 1, r)
      BY <1>1, <2>2 DEF FirstOf
    <3> QED
      BY <1>2, <3>2, <3>3
  <2> QED
    BY <1>1, <2>1, <2>2, SMTT(60)
<1> QED
  BY <1>3, <1>4, <1>5, <1>6, <1>7 DEF batch

\* An object is added at position i.
LEMMA InsertAtType ==
    ASSUME NEW S, NEW s \in Seq(S), NEW o \in S, NEW i \in 1..Len(s) + 1
    PROVE  /\ InsertAt(s, i, o) \in Seq(S)
           /\ Len(InsertAt(s, i, o)) = Len(s) + 1
           /\ \A j \in 1..Len(s) + 1 : InsertAt(s, i, o)[j] =
                  IF j < i THEN s[j] ELSE IF j = i THEN o ELSE s[j - 1]
<1>1. Len(s) \in Nat /\ i \in Nat /\ i - 1 \in Nat /\ i - 1 <= Len(s) /\ (i - 1) + 1 = i
  BY LenProperties
<1> DEFINE left == SubSeq(s, 1, i - 1)
           one == <<o>>
           right == SubSeq(s, i, Len(s))
<1>2. /\ left \in Seq(S) /\ Len(left) = i - 1
      /\ \A j \in 1..(i - 1) : left[j] = s[j]
  <2>1. /\ SubSeq(s, 0 + 1, i - 1) \in Seq(S)
        /\ Len(SubSeq(s, 0 + 1, i - 1)) = IF 0 < i - 1 THEN (i - 1) - 0 ELSE 0
        /\ \A j \in 1..((i - 1) - 0) : SubSeq(s, 0 + 1, i - 1)[j] = s[0 + j]
    BY <1>1, Slice
  <2> QED
    BY <1>1, <2>1
<1>3. /\ right \in Seq(S) /\ Len(right) = Len(s) - (i - 1)
      /\ \A j \in 1..(Len(s) - (i - 1)) : right[j] = s[(i - 1) + j]
  <2>1. /\ SubSeq(s, (i - 1) + 1, Len(s)) \in Seq(S)
        /\ Len(SubSeq(s, (i - 1) + 1, Len(s))) = IF i - 1 < Len(s) THEN Len(s) - (i - 1) ELSE 0
        /\ \A j \in 1..(Len(s) - (i - 1)) : SubSeq(s, (i - 1) + 1, Len(s))[j] = s[(i - 1) + j]
    BY <1>1, Slice
  <2> QED
    BY <1>1, <2>1
<1>4. InsertAt(s, i, o) = left \o one \o right
  BY DEF InsertAt
<1>o. one \in Seq(S) /\ Len(one) = 1 /\ one[1] = o
  OBVIOUS
<1> HIDE DEF left, one, right
<1>s. left \in Seq(S) /\ one \in Seq(S) /\ right \in Seq(S)
  BY <1>2, <1>o, <1>3
<1> DEFINE both == left \o one
<1>5. /\ both \in Seq(S) /\ Len(both) = i /\ both[i] = o
      /\ \A j \in 1..(i - 1) : both[j] = s[j]
  <2>1. /\ both \in Seq(S) /\ Len(both) = Len(left) + Len(one)
        /\ \A j \in 1..Len(left) : both[j] = left[j]
        /\ \A j \in 1..Len(one) : both[Len(left) + j] = one[j]
    BY <1>s, ConcatAt, SMTT(60)
  <2>2. Len(left) + 1 = i /\ 1 \in 1..1
    BY <1>1, <1>2
  <2> QED
    BY <1>2, <1>o, <2>1, <2>2
<1> HIDE DEF both
<1>6. /\ InsertAt(s, i, o) \in Seq(S) /\ Len(InsertAt(s, i, o)) = Len(s) + 1
      /\ \A j \in 1..i : InsertAt(s, i, o)[j] = both[j]
      /\ \A j \in 1..(Len(s) - (i - 1)) : InsertAt(s, i, o)[i + j] = right[j]
  <2>1. /\ both \o right \in Seq(S) /\ Len(both \o right) = Len(both) + Len(right)
        /\ \A j \in 1..Len(both) : (both \o right)[j] = both[j]
        /\ \A j \in 1..Len(right) : (both \o right)[Len(both) + j] = right[j]
    BY <1>3, <1>5, ConcatAt
  <2>2. i + (Len(s) - (i - 1)) = Len(s) + 1
    BY <1>1
  <2>3. InsertAt(s, i, o) = both \o right
    BY <1>4 DEF both
  <2> QED
    BY <1>3, <1>5, <2>1, <2>2, <2>3
<1>7. ASSUME NEW j \in 1..Len(s) + 1
      PROVE  InsertAt(s, i, o)[j] = IF j < i THEN s[j] ELSE IF j = i THEN o ELSE s[j - 1]
  <2>1. CASE j < i
    <3>1. j \in 1..i /\ j \in 1..(i - 1)
      BY <1>1, <2>1
    <3> QED
      BY <1>5, <1>6, <2>1, <3>1
  <2>2. CASE j = i
    <3>1. j \in 1..i /\ ~(j < i)
      BY <1>1, <2>2
    <3> QED
      BY <1>5, <1>6, <2>2, <3>1
  <2>3. CASE j > i
    <3>1. /\ j - i \in 1..(Len(s) - (i - 1)) /\ i + (j - i) = j /\ (i - 1) + (j - i) = j - 1
          /\ ~(j < i) /\ j # i
      BY <1>1, <2>3
    <3>2. InsertAt(s, i, o)[j] = right[j - i]
      BY <1>6, <3>1
    <3>3. right[j - i] = s[j - 1]
      BY <1>3, <3>1
    <3> QED
      BY <3>1, <3>2, <3>3
  <2> QED
    BY <1>1, <2>1, <2>2, <2>3
<1> QED
  BY <1>6, <1>7

\* The object at position i goes.
LEMMA RemoveAtType ==
    ASSUME NEW S, NEW s \in Seq(S), NEW i \in 1..Len(s)
    PROVE  /\ RemoveAt(s, i) \in Seq(S)
           /\ Len(RemoveAt(s, i)) = Len(s) - 1
           /\ \A j \in 1..Len(s) - 1 : RemoveAt(s, i)[j] = IF j < i THEN s[j] ELSE s[j + 1]
<1>1. Len(s) \in Nat /\ i \in Nat /\ i - 1 \in Nat /\ i <= Len(s) /\ i - 1 <= Len(s)
  BY LenProperties
<1> DEFINE left == SubSeq(s, 1, i - 1)
           right == SubSeq(s, i + 1, Len(s))
<1>2. /\ left \in Seq(S) /\ Len(left) = i - 1
      /\ \A j \in 1..(i - 1) : left[j] = s[j]
  <2>1. /\ SubSeq(s, 0 + 1, i - 1) \in Seq(S)
        /\ Len(SubSeq(s, 0 + 1, i - 1)) = IF 0 < i - 1 THEN (i - 1) - 0 ELSE 0
        /\ \A j \in 1..((i - 1) - 0) : SubSeq(s, 0 + 1, i - 1)[j] = s[0 + j]
    BY <1>1, Slice
  <2> QED
    BY <1>1, <2>1
<1>3. /\ right \in Seq(S) /\ Len(right) = Len(s) - i
      /\ \A j \in 1..(Len(s) - i) : right[j] = s[i + j]
  <2>1. /\ right \in Seq(S)
        /\ Len(right) = IF i < Len(s) THEN Len(s) - i ELSE 0
        /\ \A j \in 1..(Len(s) - i) : right[j] = s[i + j]
    BY <1>1, Slice
  <2> QED
    BY <1>1, <2>1
<1>4. RemoveAt(s, i) = left \o right
  BY DEF RemoveAt
<1> HIDE DEF left, right
<1>s. left \in Seq(S) /\ right \in Seq(S)
  BY <1>2, <1>3
<1>5. /\ RemoveAt(s, i) \in Seq(S) /\ Len(RemoveAt(s, i)) = Len(s) - 1
      /\ \A j \in 1..(i - 1) : RemoveAt(s, i)[j] = left[j]
      /\ \A j \in 1..(Len(s) - i) : RemoveAt(s, i)[(i - 1) + j] = right[j]
  <2>1. /\ left \o right \in Seq(S) /\ Len(left \o right) = Len(left) + Len(right)
        /\ \A j \in 1..Len(left) : (left \o right)[j] = left[j]
        /\ \A j \in 1..Len(right) : (left \o right)[Len(left) + j] = right[j]
    BY <1>s, ConcatAt
  <2>2. (i - 1) + (Len(s) - i) = Len(s) - 1
    BY <1>1
  <2> QED
    BY <1>2, <1>3, <1>4, <2>1, <2>2
<1>6. ASSUME NEW j \in 1..Len(s) - 1
      PROVE  RemoveAt(s, i)[j] = IF j < i THEN s[j] ELSE s[j + 1]
  <2>1. CASE j < i
    <3>1. j \in 1..(i - 1)
      BY <1>1, <2>1
    <3> QED
      BY <1>2, <1>5, <2>1, <3>1
  <2>2. CASE ~(j < i)
    <3>1. /\ j - (i - 1) \in 1..(Len(s) - i) /\ (i - 1) + (j - (i - 1)) = j
          /\ i + (j - (i - 1)) = j + 1
      BY <1>1, <2>2
    <3>2. RemoveAt(s, i)[j] = right[j - (i - 1)]
      BY <1>5, <3>1
    <3>3. right[j - (i - 1)] = s[j + 1]
      BY <1>3, <3>1
    <3> QED
      BY <2>2, <3>2, <3>3
  <2> QED
    BY <2>1, <2>2
<1> QED
  BY <1>5, <1>6

LEMMA ToSetConcat ==
    ASSUME NEW S, NEW s \in Seq(S), NEW t \in Seq(S)
    PROVE  ToSet(s) \subseteq ToSet(s \o t) /\ ToSet(t) \subseteq ToSet(s \o t)
<1>1. /\ Len(s) \in Nat /\ Len(t) \in Nat /\ DOMAIN s = 1..Len(s) /\ DOMAIN t = 1..Len(t)
      /\ DOMAIN (s \o t) = 1..(Len(s) + Len(t))
      /\ \A i \in 1..Len(s) : (s \o t)[i] = s[i]
      /\ \A i \in 1..Len(t) : (s \o t)[Len(s) + i] = t[i]
  BY ConcatAt, LenProperties
<1>2. ASSUME NEW i \in DOMAIN s PROVE s[i] \in ToSet(s \o t)
  <2>1. i \in 1..(Len(s) + Len(t))
    BY <1>1
  <2> QED
    BY <1>1, <2>1 DEF ToSet
<1>3. ASSUME NEW i \in DOMAIN t PROVE t[i] \in ToSet(s \o t)
  <2>1. Len(s) + i \in 1..(Len(s) + Len(t))
    BY <1>1
  <2> QED
    BY <1>1, <2>1 DEF ToSet
<1> QED
  BY <1>2, <1>3 DEF ToSet

-------------------------------------------------------------------------------
LEMMA ReadUpToNat ==
    ASSUME PageTypeOK
    PROVE  /\ ReadUpTo \in Nat /\ page \in Nat /\ (page + 1) * PageSize = ReadUpTo + PageSize
           /\ page = 0 => ReadUpTo = 0
  BY PageAssumption DEF PageTypeOK, ReadUpTo

\* The page that follows the first r positions.
LEMMA CutPageIsNext ==
    ASSUME NEW s, NEW n \in Nat, NEW r \in Nat, r = n * PageSize
    PROVE  CutPage(s, n) = NextOf(s, r, PageSize)
<1>1. (n + 1) * PageSize = r + PageSize
  BY PageAssumption
<1> QED
  BY <1>1 DEF CutPage, NextOf

LEMMA PageStart ==
    ASSUME NEW asked \in BOOLEAN, PageInit(asked)
    PROVE  PageInv
<1>1. PageTypeOK
  <2>1. collection \in Collections \/ collection = <<>>
    BY DEF PageInit
  <2>2. collection \in Seq(Objects)
    BY <2>1, EmptySeq, CollectionAssumption
  <2> QED
    BY <2>2, PageAssumption, CollectionAssumption DEF PageInit, PageTypeOK
<1>2. ReadUpTo = 0 /\ Len(fetched) = 0
  BY <1>1, ReadUpToNat DEF PageInit
<1> QED
  BY <1>1, <1>2 DEF PageInit, PageInv, Unread, ReadSoFar, CountedUpTo, PagesComplete

\* The first page.
LEMMA FirstPageKeeps ==
    ASSUME PageInv, NEW c \in Totals, FirstPage(c)
    PROVE  PageInv'
<1>0. collection \in Seq(Objects) /\ PageSize \in Nat \ {0}
  BY PageAssumption DEF PageInv, PageTypeOK
<1>1. /\ collection \in Seq(Objects) /\ Len(collection) \in Nat /\ PageSize \in Nat \ {0}
      /\ walk = "first" /\ edits = 0 /\ edits' = 0
      /\ astray' = IF 0 < c /\ c < Len(collection) THEN {"low"} ELSE {}
      /\ collection' = collection /\ stayed' = stayed /\ stayed \subseteq ToSet(collection)
      /\ total' = c /\ page' = 1 /\ walk' \in {"more", "done"}
      /\ fetched' = CutPage(collection, 0)
      /\ walk' = "done" <=> fetched' = <<>>
  BY LenProperties, PageAssumption DEF PageInv, PageTypeOK, Unread, FirstPage, Misled
<1>2. /\ fetched' \in Seq(Objects) /\ Len(fetched') <= PageSize
      /\ fetched' = <<>> <=> Len(collection) <= 0
      /\ \A i \in DOMAIN collection :
            0 < i /\ i <= PageSize => collection[i] \in ToSet(fetched')
      /\ fetched' = FirstOf(collection, PageSize)
  <2>1. PICK r \in Nat : r = 0
    OBVIOUS
  <2>2. fetched' = NextOf(collection, r, PageSize)
    <3>1. r = 0 * PageSize
      BY <1>0, <2>1
    <3> QED
      BY <1>1, <2>1, <3>1, CutPageIsNext
  <2>3. LET b == NextOf(collection, r, PageSize)
        IN /\ b \in Seq(Objects)
           /\ Len(b) <= PageSize
           /\ b = <<>> <=> Len(collection) <= r
           /\ \A i \in DOMAIN collection :
                 r < i /\ i <= r + PageSize => collection[i] \in ToSet(b)
           /\ FirstOf(collection, r) \o b = FirstOf(collection, r + PageSize)
    BY <1>0, NextSlice, SMTT(60)
  <2>4. FirstOf(collection, r) = <<>> /\ r + PageSize = PageSize
    BY <1>0, <2>1, FirstOfType
  <2>5. fetched' = FirstOf(collection, PageSize)
    <3>1. fetched' \in Seq(Objects)
      BY <2>2, <2>3
    <3>2. <<>> \o fetched' = fetched'
      BY <3>1, ConcatEmptySeq
    <3> QED
      BY <2>2, <2>3, <2>4, <3>2
  <2> QED
    BY <2>1, <2>2, <2>3, <2>4, <2>5
<1>3. PageTypeOK'
  <2>1. total' \in Nat
    BY <1>1, CollectionAssumption
  <2>2. page' \in 0..MaxPages + 1
    BY <1>1, PageAssumption
  <2> QED
    BY <1>1, <1>2, <2>1, <2>2 DEF PageInv, PageTypeOK
<1>4. ReadUpTo' = PageSize
  BY <1>1 DEF ReadUpTo
<1>5. \A i \in DOMAIN collection : 0 < i /\ i <= Len(collection)
  BY <1>1, LenProperties
<1>6. ReadSoFar'
  BY <1>1, <1>2, <1>4, <1>5 DEF ReadSoFar
<1>7. c \in Nat /\ (c # 0 /\ "low" \notin astray' => Len(collection) <= c)
  BY <1>1, CollectionAssumption
<1>8. CountedUpTo'
  <2>1. c # 0 /\ "low" \notin astray' => \A i \in DOMAIN collection : i <= c
    <3>1. ASSUME c # 0, "low" \notin astray', NEW i \in 1..Len(collection) PROVE i <= c
      BY <1>1, <1>7, <3>1
    <3> QED
      BY <1>1, <3>1, LenProperties
  <2> QED
    BY <1>1, <1>7, <2>1 DEF CountedUpTo
<1>9. PagesComplete'
  <2>1. ASSUME walk' = "done" PROVE collection = <<>> /\ fetched' = <<>>
    BY <1>1, <1>2, <2>1, EmptySeq
  <2> QED
    BY <1>1, <2>1 DEF PagesComplete, IsPrefix
<1> QED
  BY <1>1, <1>3, <1>6, <1>8, <1>9 DEF PageInv, Unread

\* What was read already is counted up to the total.
LEMMA EndOfPagesKeeps ==
    ASSUME PageInv, EndOfPages
    PROVE  PageInv'
<1>1. /\ walk = "more" /\ walk' = "done" /\ total # 0 /\ Len(fetched) >= total
      /\ UNCHANGED <<page, total, fetched, collection, edits, stayed, astray>>
  BY DEF EndOfPages, Satisfied
<1>2. /\ ReadUpTo \in Nat /\ total \in Nat /\ Len(fetched) \in Nat /\ Len(collection) \in Nat
      /\ Len(fetched) <= ReadUpTo /\ total <= ReadUpTo /\ collection \in Seq(Objects)
  <2>1. /\ ReadUpTo \in Nat /\ total \in Nat /\ Len(fetched) \in Nat /\ Len(collection) \in Nat
        /\ Len(fetched) <= ReadUpTo /\ collection \in Seq(Objects)
    BY ReadUpToNat, LenProperties DEF PageInv, ReadSoFar, PageTypeOK
  <2> QED
    BY <1>1, <2>1
<1>3. ReadUpTo' = ReadUpTo
  BY <1>1 DEF ReadUpTo
<1>4. ASSUME edits = 0
      PROVE  IsPrefix(fetched, collection) /\ (fetched = collection \/ "low" \in astray)
  <2>1. fetched = FirstOf(collection, ReadUpTo)
    BY <1>1, <1>4 DEF PageInv, ReadSoFar
  <2>2. ASSUME "low" \notin astray PROVE fetched = collection
    <3>1. Len(collection) <= total
      BY <1>1, <1>4, <2>2 DEF PageInv, CountedUpTo
    <3>2. ReadUpTo >= Len(collection)
      BY <1>2, <3>1
    <3> QED
      BY <1>2, <2>1, <3>2, FirstOfType
  <2> QED
    BY <1>2, <2>1, <2>2, FirstOfPrefix
<1>5. ASSUME "low" \notin astray, "back" \notin astray, "ahead" \notin astray,
             NEW u \in stayed
      PROVE  u \in ToSet(fetched)
  <2>1. PICK i \in DOMAIN collection : u = collection[i]
    BY DEF PageInv, PageTypeOK, ToSet
  <2>2. i <= total /\ i \in Nat
    BY <1>1, <1>2, <1>5, <2>1, LenProperties DEF PageInv, CountedUpTo
  <2>3. i <= ReadUpTo
    BY <1>2, <2>2
  <2> QED
    BY <1>1, <1>5, <2>1, <2>3 DEF PageInv, ReadSoFar
<1> QED
  BY <1>1, <1>3, <1>4, <1>5
  DEF PageInv, PageTypeOK, Unread, ReadSoFar, CountedUpTo, PagesComplete

\* The next page; the empty one says that everything was read.
LEMMA NextPageKeeps ==
    ASSUME PageInv, NextPage
    PROVE  PageInv'
<1> DEFINE batch == CutPage(collection, page)
           upTo == ReadUpTo
<1>0. upTo \in Nat /\ collection \in Seq(Objects) /\ PageSize \in Nat \ {0}
  BY PageAssumption, ReadUpToNat DEF PageInv, PageTypeOK
<1>1. /\ walk = "more" /\ page <= MaxPages
      /\ fetched' = fetched \o batch
      /\ walk' = IF batch = <<>> THEN "done" ELSE "more"
      /\ page' = IF batch = <<>> THEN page ELSE page + 1
      /\ UNCHANGED <<total, collection, edits, stayed, astray>>
  BY DEF NextPage
<1>2. /\ upTo \in Nat /\ page \in Nat /\ Len(collection) \in Nat /\ Len(fetched) \in Nat
      /\ collection \in Seq(Objects) /\ fetched \in Seq(Objects) /\ Len(fetched) <= upTo
      /\ PageSize \in Nat \ {0} /\ stayed \subseteq ToSet(collection)
  BY PageAssumption, ReadUpToNat, LenProperties DEF PageInv, ReadSoFar, PageTypeOK
<1>3. /\ batch \in Seq(Objects) /\ Len(batch) <= PageSize
      /\ batch = <<>> <=> Len(collection) <= upTo
      /\ \A i \in DOMAIN collection :
            upTo < i /\ i <= upTo + PageSize => collection[i] \in ToSet(batch)
      /\ FirstOf(collection, upTo) \o batch = FirstOf(collection, upTo + PageSize)
  <2>1. upTo = page * PageSize
    BY DEF ReadUpTo
  <2> HIDE DEF upTo
  <2>2. batch = NextOf(collection, upTo, PageSize)
    BY <1>2, <2>1, CutPageIsNext
  <2>3. LET b == NextOf(collection, upTo, PageSize)
        IN /\ b \in Seq(Objects)
           /\ Len(b) <= PageSize
           /\ b = <<>> <=> Len(collection) <= upTo
           /\ \A i \in DOMAIN collection :
                 upTo < i /\ i <= upTo + PageSize => collection[i] \in ToSet(b)
           /\ FirstOf(collection, upTo) \o b = FirstOf(collection, upTo + PageSize)
    BY <1>0, NextSlice
  <2> QED
    BY <2>2, <2>3
<1>4. /\ edits = 0 => fetched = FirstOf(collection, upTo)
      /\ "back" \notin astray =>
            \A i \in DOMAIN collection : i <= upTo /\ collection[i] \in stayed
                => collection[i] \in ToSet(fetched)
  BY <1>1 DEF PageInv, ReadSoFar
<1>5. page' = page + 1 => ReadUpTo' = upTo + PageSize
  BY <1>2, ReadUpToNat DEF ReadUpTo, PageInv
<1>6. page' = page => ReadUpTo' = upTo
  BY DEF ReadUpTo
<1> HIDE DEF batch, upTo
<1>7. /\ fetched' \in Seq(Objects) /\ Len(fetched') = Len(fetched) + Len(batch)
      /\ Len(batch) \in Nat
  BY <1>1, <1>2, <1>3, ConcatProperties, LenProperties
<1>8. PageTypeOK'
  <2>1. page' \in 0..MaxPages + 1
    BY <1>1, <1>2, PageAssumption
  <2> QED
    BY <1>1, <1>7, <2>1 DEF PageInv, PageTypeOK
<1>9. CASE batch = <<>>
  <2>1. /\ walk' = "done" /\ fetched' = fetched /\ ReadUpTo' = upTo /\ Len(collection) <= upTo
        /\ page' = page
    BY <1>1, <1>2, <1>3, <1>6, <1>9, ConcatEmptySeq
  <2>2. ASSUME edits = 0 PROVE fetched = collection /\ IsPrefix(fetched, collection)
    BY <1>2, <1>4, <2>1, <2>2, FirstOfType, FirstOfPrefix
  <2>3. ASSUME "back" \notin astray, NEW u \in stayed PROVE u \in ToSet(fetched)
    <3>1. PICK i \in DOMAIN collection : u = collection[i]
      BY <1>2 DEF ToSet
    <3>2. i \in 1..Len(collection)
      BY <1>2, LenProperties
    <3>3. i <= upTo
      BY <1>2, <2>1, <3>2
    <3> QED
      BY <1>4, <2>3, <3>1, <3>3
  <2> QED
    BY <1>1, <1>2, <1>8, <2>1, <2>2, <2>3
    DEF PageInv, Unread, ReadSoFar, CountedUpTo, PagesComplete
<1>10. CASE batch # <<>>
  <2>1. walk' = "more" /\ page' = page + 1 /\ page' # 0 /\ ReadUpTo' = upTo + PageSize
    BY <1>1, <1>2, <1>5, <1>10
  <2>2. Len(fetched') <= ReadUpTo'
    BY <1>2, <1>3, <1>7, <2>1
  <2>3. edits = 0 => fetched' = FirstOf(collection, upTo + PageSize)
    BY <1>1, <1>3, <1>4
  <2>4. ASSUME "back" \notin astray, NEW i \in DOMAIN collection, i <= upTo + PageSize,
               collection[i] \in stayed
        PROVE  collection[i] \in ToSet(fetched')
    <3>1. i \in 1..Len(collection)
      BY <1>2, LenProperties
    <3>2. i <= upTo \/ upTo < i
      BY <1>2, <3>1
    <3>3. collection[i] \in ToSet(fetched) \/ collection[i] \in ToSet(batch)
      BY <1>3, <1>4, <2>4, <3>2
    <3> QED
      BY <1>1, <1>2, <1>3, <3>3, ToSetConcat
  <2> QED
    BY <1>1, <1>8, <2>1, <2>2, <2>3, <2>4
    DEF PageInv, Unread, ReadSoFar, CountedUpTo, PagesComplete
<1> QED
  BY <1>9, <1>10

LEMMA PageErrorKeeps ==
    ASSUME PageInv, PageError
    PROVE  PageInv'
<1>1. ReadUpTo' = ReadUpTo
  BY DEF PageError, ReadUpTo
<1> QED
  BY <1>1 DEF PageError, PageInv, PageTypeOK, Unread, ReadSoFar, CountedUpTo, PagesComplete

\* What stayed moves on by at most one position, and not at all before position
\* i: unread objects stay counted only if the newcomer is the last.
LEMMA OtherInsertsKeeps ==
    ASSUME PageInv, NEW i \in 1..Len(collection) + 1, NEW o \in Newcomers, OtherInserts(i, o)
    PROVE  PageInv'
<1> DEFINE upTo == ReadUpTo
<1>1. /\ walk = "more" /\ edits < MaxEdits /\ edits' = edits + 1
      /\ o \notin ToSet(collection) /\ collection' = InsertAt(collection, i, o)
      /\ astray' = astray \cup (IF i <= Len(collection) THEN {"ahead"} ELSE {})
      /\ UNCHANGED <<walk, page, total, fetched, stayed>>
  BY DEF OtherInserts
<1>2. /\ upTo \in Nat /\ edits \in Nat /\ edits' # 0 /\ collection \in Seq(Objects)
      /\ Len(collection) \in Nat /\ stayed \subseteq ToSet(collection) /\ i \in Nat
      /\ total \in Nat
  <2>1. upTo \in Nat /\ collection \in Seq(Objects) /\ stayed \subseteq ToSet(collection)
        /\ edits \in Nat /\ total \in Nat
    BY ReadUpToNat DEF PageInv, PageTypeOK
  <2> QED
    BY <1>1, <2>1, LenProperties
<1>3. ReadUpTo' = upTo
  BY <1>1 DEF ReadUpTo
<1>4. /\ collection' \in Seq(Objects) /\ DOMAIN collection = 1..Len(collection)
      /\ Len(collection') = Len(collection) + 1 /\ DOMAIN collection' = 1..Len(collection) + 1
      /\ \A j \in 1..Len(collection) + 1 : collection'[j] =
            IF j < i THEN collection[j] ELSE IF j = i THEN o ELSE collection[j - 1]
  <2>1. /\ collection' \in Seq(Objects) /\ Len(collection') = Len(collection) + 1
        /\ \A j \in 1..Len(collection) + 1 : collection'[j] =
              IF j < i THEN collection[j] ELSE IF j = i THEN o ELSE collection[j - 1]
    <3>1. o \in Objects
      BY CollectionAssumption
    <3>2. LET t == InsertAt(collection, i, o)
          IN /\ t \in Seq(Objects) /\ Len(t) = Len(collection) + 1
             /\ \A j \in 1..Len(collection) + 1 : t[j] =
                   IF j < i THEN collection[j] ELSE IF j = i THEN o ELSE collection[j - 1]
      BY <1>2, <3>1, InsertAtType
    <3> QED
      BY <1>1, <3>2
  <2>2. DOMAIN collection' = 1..Len(collection) + 1 /\ DOMAIN collection = 1..Len(collection)
    BY <1>2, <2>1, LenProperties
  <2> QED
    BY <2>1, <2>2
<1> HIDE DEF upTo
\* Where an object that stayed was before.
<1>5. ASSUME NEW j \in DOMAIN collection', collection'[j] \in stayed
      PROVE  \E k \in DOMAIN collection :
                /\ collection[k] = collection'[j] /\ k <= j
                /\ (i > Len(collection) => k = j)
  <2>1. j \in Nat /\ j <= Len(collection) + 1 /\ 1 <= j
    BY <1>2, <1>4
  <2>2. collection'[j] # o
    BY <1>1, <1>2, <1>5
  <2>3. CASE j < i
    <3>1. j \in 1..Len(collection) /\ collection'[j] = collection[j]
      BY <1>2, <1>4, <2>1, <2>3
    <3> QED
      BY <1>4, <2>1, <3>1
  <2>4. CASE ~(j < i)
    <3>1. j # i /\ collection'[j] = collection[j - 1]
      BY <1>4, <2>2, <2>4
    <3>2. j - 1 \in 1..Len(collection) /\ j - 1 <= j /\ ~(i > Len(collection))
      BY <1>2, <2>1, <2>4, <3>1
    <3> QED
      BY <1>4, <3>1, <3>2
  <2> QED
    BY <2>3, <2>4
<1>6. stayed \subseteq ToSet(collection')
  <2>1. ASSUME NEW k \in DOMAIN collection PROVE collection[k] \in ToSet(collection')
    <3>1. k \in 1..Len(collection)
      BY <1>4
    <3>2. CASE k < i
      <4>1. k \in DOMAIN collection' /\ collection'[k] = collection[k]
        BY <1>2, <1>4, <3>1, <3>2
      <4> QED
        BY <4>1 DEF ToSet
    <3>3. CASE ~(k < i)
      <4>1. k + 1 \in 1..Len(collection) + 1 /\ ~(k + 1 < i) /\ k + 1 # i /\ (k + 1) - 1 = k
        BY <1>2, <3>1, <3>3
      <4>2. k + 1 \in DOMAIN collection' /\ collection'[k + 1] = collection[k]
        BY <1>4, <4>1
      <4> QED
        BY <4>2 DEF ToSet
    <3> QED
      BY <3>2, <3>3
  <2> QED
    BY <1>2, <2>1 DEF ToSet
<1>7. PageTypeOK'
  <2>1. edits' \in 0..MaxEdits
    BY <1>1, CollectionAssumption DEF PageInv, PageTypeOK
  <2> QED
    BY <1>1, <1>4, <1>6, <2>1 DEF PageInv, PageTypeOK
<1>8. ReadSoFar'
  <2>1. ASSUME "back" \notin astray', NEW j \in DOMAIN collection', j <= upTo,
               collection'[j] \in stayed
        PROVE  collection'[j] \in ToSet(fetched)
    <3>1. PICK k \in DOMAIN collection : collection[k] = collection'[j] /\ k <= j
      BY <1>5, <2>1
    <3>2. k <= upTo
      BY <1>2, <1>4, <2>1, <3>1
    <3> QED
      BY <1>1, <2>1, <3>1, <3>2 DEF PageInv, ReadSoFar, upTo
  <2> QED
    BY <1>1, <1>2, <1>3, <2>1 DEF PageInv, ReadSoFar, upTo
<1>9. CountedUpTo'
  <2>1. ASSUME total # 0, "low" \notin astray', "ahead" \notin astray',
               NEW j \in DOMAIN collection',
               collection'[j] \in stayed
        PROVE  j <= total
    <3>1. i > Len(collection) /\ "ahead" \notin astray /\ "low" \notin astray
      BY <1>1, <1>2, <2>1
    <3>2. PICK k \in DOMAIN collection : collection[k] = collection'[j] /\ k = j
      BY <1>5, <2>1, <3>1
    <3> QED
      BY <1>1, <2>1, <3>1, <3>2 DEF PageInv, CountedUpTo
  <2> QED
    BY <1>1, <1>2, <2>1 DEF CountedUpTo
<1> QED
  BY <1>1, <1>7, <1>8, <1>9 DEF PageInv, Unread, PagesComplete

\* What stayed moves back by at most one position, and not at all before
\* position i: none of it leaves the positions yet to be read unless i is read.
LEMMA OtherRemovesKeeps ==
    ASSUME PageInv, NEW i \in 1..Len(collection), OtherRemoves(i)
    PROVE  PageInv'
<1> DEFINE upTo == ReadUpTo
<1>1. /\ walk = "more" /\ edits < MaxEdits /\ edits' = edits + 1
      /\ collection' = RemoveAt(collection, i) /\ stayed' = stayed \ {collection[i]}
      /\ astray' = astray \cup (IF i <= upTo THEN {"back"} ELSE {})
      /\ UNCHANGED <<walk, page, total, fetched>>
  BY DEF OtherRemoves
<1>2. /\ upTo \in Nat /\ edits \in Nat /\ edits' # 0 /\ collection \in Seq(Objects)
      /\ Len(collection) \in Nat /\ stayed \subseteq ToSet(collection) /\ i \in Nat
      /\ total \in Nat
  <2>1. upTo \in Nat /\ collection \in Seq(Objects) /\ stayed \subseteq ToSet(collection)
        /\ edits \in Nat /\ total \in Nat
    BY ReadUpToNat DEF PageInv, PageTypeOK
  <2> QED
    BY <1>1, <2>1, LenProperties
<1>3. ReadUpTo' = upTo
  BY <1>1 DEF ReadUpTo
<1>4. /\ collection' \in Seq(Objects) /\ DOMAIN collection = 1..Len(collection)
      /\ Len(collection') = Len(collection) - 1 /\ DOMAIN collection' = 1..Len(collection) - 1
      /\ \A j \in 1..Len(collection) - 1 : collection'[j] =
            IF j < i THEN collection[j] ELSE collection[j + 1]
  <2>1. LET t == RemoveAt(collection, i)
        IN /\ t \in Seq(Objects) /\ Len(t) = Len(collection) - 1
           /\ \A j \in 1..Len(collection) - 1 : t[j] =
                 IF j < i THEN collection[j] ELSE collection[j + 1]
    BY <1>2, RemoveAtType
  <2>2. DOMAIN collection' = 1..Len(collection) - 1 /\ DOMAIN collection = 1..Len(collection)
    BY <1>1, <1>2, <2>1, LenProperties
  <2> QED
    BY <1>1, <2>1, <2>2
<1> HIDE DEF upTo
<1>5. ASSUME NEW j \in DOMAIN collection'
      PROVE  \E k \in DOMAIN collection :
                collection[k] = collection'[j] /\ j <= k /\ (j < i => k = j)
  <2>1. j \in Nat /\ j <= Len(collection) - 1 /\ 1 <= j
    BY <1>2, <1>4
  <2>2. CASE j < i
    <3>1. j \in 1..Len(collection) /\ collection'[j] = collection[j]
      BY <1>2, <1>4, <2>1, <2>2
    <3> QED
      BY <1>4, <2>1, <3>1
  <2>3. CASE ~(j < i)
    <3>1. j + 1 \in 1..Len(collection) /\ collection'[j] = collection[j + 1] /\ j <= j + 1
      BY <1>2, <1>4, <2>1, <2>3
    <3> QED
      BY <1>4, <2>3, <3>1
  <2> QED
    BY <2>2, <2>3
<1>6. stayed' \subseteq ToSet(collection')
  <2>1. ASSUME NEW k \in DOMAIN collection, k # i PROVE collection[k] \in ToSet(collection')
    <3>1. k \in 1..Len(collection)
      BY <1>4
    <3>2. CASE k < i
      <4>1. k \in DOMAIN collection' /\ collection'[k] = collection[k]
        BY <1>2, <1>4, <3>1, <3>2
      <4> QED
        BY <4>1 DEF ToSet
    <3>3. CASE ~(k < i)
      <4>1. k - 1 \in 1..Len(collection) - 1 /\ ~(k - 1 < i) /\ (k - 1) + 1 = k
        BY <1>2, <2>1, <3>1, <3>3
      <4>2. k - 1 \in DOMAIN collection' /\ collection'[k - 1] = collection[k]
        BY <1>4, <4>1
      <4> QED
        BY <4>2 DEF ToSet
    <3> QED
      BY <3>2, <3>3
  <2>2. ASSUME NEW u \in stayed' PROVE u \in ToSet(collection')
    <3>1. PICK k \in DOMAIN collection : u = collection[k]
      BY <1>1, <1>2 DEF ToSet
    <3> QED
      BY <1>1, <2>1, <3>1
  <2> QED
    BY <2>2
<1>7. PageTypeOK'
  <2>1. edits' \in 0..MaxEdits
    BY <1>1, CollectionAssumption DEF PageInv, PageTypeOK
  <2> QED
    BY <1>1, <1>4, <1>6, <2>1 DEF PageInv, PageTypeOK
<1>8. ReadSoFar'
  <2>1. ASSUME "back" \notin astray', NEW j \in DOMAIN collection', j <= upTo,
               collection'[j] \in stayed'
        PROVE  collection'[j] \in ToSet(fetched)
    <3>1. ~(i <= upTo) /\ "back" \notin astray
      BY <1>1, <2>1
    <3>2. j < i
      BY <1>2, <1>4, <2>1, <3>1
    <3>3. PICK k \in DOMAIN collection : collection[k] = collection'[j] /\ k = j
      BY <1>5, <3>2
    <3> QED
      BY <1>1, <2>1, <3>1, <3>3 DEF PageInv, ReadSoFar, upTo
  <2> QED
    BY <1>1, <1>2, <1>3, <2>1 DEF PageInv, ReadSoFar, upTo
<1>9. CountedUpTo'
  <2>1. ASSUME total # 0, "low" \notin astray', "ahead" \notin astray',
               NEW j \in DOMAIN collection',
               collection'[j] \in stayed'
        PROVE  j <= total
    <3>1. PICK k \in DOMAIN collection : collection[k] = collection'[j] /\ j <= k
      BY <1>5
    <3>2. k <= total
      BY <1>1, <2>1, <3>1 DEF PageInv, CountedUpTo
    <3> QED
      BY <1>2, <1>4, <3>1, <3>2
  <2> QED
    BY <1>1, <1>2, <2>1 DEF CountedUpTo
<1> QED
  BY <1>1, <1>7, <1>8, <1>9 DEF PageInv, Unread, PagesComplete

LEMMA PageStep ==
    ASSUME PageInv, PageNext
    PROVE  PageInv'
  BY FirstPageKeeps, EndOfPagesKeeps, NextPageKeeps, PageErrorKeeps, OtherInsertsKeeps,
     OtherRemovesKeeps DEF PageNext

LEMMA PageStutter ==
    ASSUME PageInv, UNCHANGED pageVars
    PROVE  PageInv'
<1>1. ReadUpTo' = ReadUpTo
  BY DEF ReadUpTo, pageVars
<1> QED
  BY <1>1 DEF pageVars, PageInv, PageTypeOK, Unread, ReadSoFar, CountedUpTo, PagesComplete

LEMMA PagesKept == Spec => []PageInv
<1>1. Init => PageInv
  <2>1. Paging \in BOOLEAN
    BY DEF Paging
  <2> QED
    BY <2>1, PageStart DEF Init
<1>2. PageInv /\ [Next]_<<sessionVars, pageVars>> => PageInv'
  BY PageStep, PageStutter DEF Next
<1> QED
  BY <1>1, <1>2, PTL DEF Spec

-------------------------------------------------------------------------------
(* The session's invariants.                                               *)

USE PlanAssumption, CallerAssumption
USE DEF sessionVars, history, socketVars, None

\* What a caller at some place calls, and has in its hands.
Places ==
    \A t \in Callers :
        /\ pc[t] \in {"close", "shut", "stop", "forget", "client", "closed"} =>
               call[t] = "close"
        /\ pc[t] = "create" => call[t] = "subscribe"
        /\ pc[t] \in {"open", "rest", "insert", "stream", "batchrun", "shut", "stop",
                      "forget"} => sock[t] # None
        /\ pc[t] \in {"stop", "forget"} => sock[t] \in shut

\* At most one socket is created for each caller that has passed the creation.
Creators  == {t \in Callers : call[t] = "subscribe" /\ pc[t] \notin {"start", "create"}}
MadeBound == made <= Cardinality(Creators)

\* Registered streams, now and at a close(), are those of calls that returned.
Streams ==
    /\ \A u \in live : pc[u] = "stream"
    /\ \A t \in Callers : /\ before[t].sockets \subseteq 1..made
                          /\ \A u \in before[t].streams : pc[u] = "stream"

\* No socket is forgotten: it is shut, or overwritten, or the attribute's.
Named == \A s \in 1..made : s \in shut \cup lost \/ s = field

\* What is open although it was shut is in the hands of the close() that shut it.
Shutting ==
    \A s \in (connected \cup {sock[u] : u \in live}) \cap shut : BeingClosed(s)

\* After a close() the attribute names no socket there was before.
Replaced ==
    \A t \in Callers : pc[t] \in {"client", "closed"} =>
        /\ field \notin before[t].sockets
        /\ \A u \in before[t].streams : sock[u] # field

\* Calls that run at the same time as a close() are recorded.
Overlapping ==
    \A t, u \in Callers :
        t # u /\ Running(t) /\ Running(u) /\ call[u] = "close" => t \in overlaps

\* A call on its way to the attribute finds it cleared only for that reason.
Cleared ==
    \A t \in Callers : pc[t] \in {"use", "batch", "close"} /\ field = None =>
                           t \in overlaps

AnotherCloses(t) == \E u \in Callers \ {t} : call[u] = "close"

\* Between a task's test of the attribute and its use nothing else runs.
OneTask ==
    tasks => \A t \in Callers : pc[t] \in {"create", "use", "batch", "close"} =>
                 loop = t /\ (field = None <=> pc[t] = "create")

\* The only task that closes finds the socket it closed where it was.
OneCloses ==
    tasks => \A t \in Callers : pc[t] \in {"shut", "stop", "forget"} =>
                 field = sock[t] \/ AnotherCloses(t)

\* Tasks overwrite a socket only when two of them close.
TasksLose ==
    tasks /\ lost # {} => \E t \in Callers : call[t] = "close" /\ AnotherCloses(t)

\* Only threads fail on a cleared attribute, and only next to a close().
Crashes == \A t \in crashed : t \in overlaps /\ ~tasks

Inv == /\ SessionTypeOK /\ Places /\ MadeBound /\ Streams /\ Named /\ Shutting
       /\ Replaced /\ Overlapping /\ Cleared /\ OneTask /\ OneCloses
       /\ TasksLose /\ Crashes

\* Every variable of a session and of the walk through its pages stays within
-------------------------------------------------------------------------------
\* The three parts of SessionTypeOK.
ControlOK ==
    /\ call \in Plans /\ tasks \in BOOLEAN /\ loop \in Callers \cup {NoCaller}
    /\ clientOpen \in BOOLEAN /\ overlaps \subseteq Callers /\ crashed \subseteq Callers
    /\ pc \in [Callers -> Over \cup {"start", "create", "use", "open", "rest",
                                     "insert", "batch", "batchrun", "close", "shut", "stop",
                                     "forget", "client"}]
SocketsOK ==
    /\ field \in 0..made /\ made \in 0..Cardinality(Callers)
    /\ connected \subseteq 1..made /\ shut \subseteq 1..made /\ lost \subseteq 1..made
    /\ sock \in [Callers -> 0..made] /\ live \subseteq {t \in Callers : sock[t] # None}
BeforeOK ==
    before \in [Callers -> [sockets : SUBSET Sockets, streams : SUBSET Callers]]

\* A caller about to create a socket has created none.
LEMMA RoomLeft ==
    ASSUME SessionTypeOK, Places, MadeBound, NEW t \in Callers, pc[t] = "create"
    PROVE  made + 1 <= Cardinality(Callers)
<1>1. Creators \subseteq Callers \ {t}
  BY DEF Creators
<1>2. /\ IsFiniteSet(Callers \ {t})
      /\ Cardinality(Callers \ {t}) = Cardinality(Callers) - 1
  BY FS_RemoveElement
<1>3. Cardinality(Creators) <= Cardinality(Callers) - 1
  BY <1>1, <1>2, FS_Subset
<1>4. /\ IsFiniteSet(Creators) /\ Cardinality(Creators) \in Nat
      /\ Cardinality(Callers) \in Nat
  BY <1>1, <1>2, FS_Subset, FS_CardinalityType
<1> QED
  BY <1>3, <1>4 DEF MadeBound, SessionTypeOK

LEMMA NextControl ==
    SessionTypeOK /\ [SessionNext]_sessionVars => ControlOK'
<1> SUFFICES ASSUME SessionTypeOK, [SessionNext]_sessionVars PROVE ControlOK'
  OBVIOUS
<1> USE DEF SessionTypeOK, ControlOK, Goto, Begin, Await, KeepLoop, Crash, Running, Over
<1>1. ASSUME NEW t \in Callers,
             SubscribeCheck(t) \/ SubscribeCreate(t) \/ SubscribeUse(t)
      PROVE  ControlOK'
  BY <1>1, ZenonT(60) DEF SubscribeCheck, SubscribeCreate, SubscribeUse
<1>2. ASSUME NEW t \in Callers, Open(t) \/ Rest(t) \/ Insert(t) PROVE ControlOK'
  BY <1>2 DEF Open, Rest, Insert
<1>3. ASSUME NEW t \in Callers, BatchCheck(t) \/ BatchUse(t) \/ BatchRun(t)
      PROVE  ControlOK'
  BY <1>3, ZenonT(60) DEF BatchCheck, BatchUse, BatchRun
<1>4. ASSUME NEW t \in Callers, CloseCheck(t) \/ CloseUse(t) \/ CloseShut(t)
      PROVE  ControlOK'
  BY <1>4 DEF CloseCheck, CloseUse, CloseShut
<1>5. ASSUME NEW t \in Callers, CloseStop(t) \/ CloseForget(t) \/ CloseClient(t)
      PROVE  ControlOK'
  BY <1>5 DEF CloseStop, CloseForget, CloseClient
<1>6. CASE UNCHANGED sessionVars
  BY <1>6
<1> QED
  BY <1>1, <1>2, <1>3, <1>4, <1>5, <1>6 DEF SessionNext

LEMMA NextSockets ==
    SessionTypeOK /\ Places /\ MadeBound /\ [SessionNext]_sessionVars => SocketsOK'
<1> SUFFICES ASSUME SessionTypeOK, Places, MadeBound, [SessionNext]_sessionVars
             PROVE  SocketsOK'
  OBVIOUS
<1> USE DEF SessionTypeOK, SocketsOK, Places, Overwritten, Goto,
            Begin, Await, KeepLoop, Crash, Running, Over
<1>1. ASSUME NEW t \in Callers, SubscribeCheck(t) PROVE SocketsOK'
  BY <1>1 DEF SubscribeCheck
<1>2. ASSUME NEW t \in Callers, SubscribeCreate(t) PROVE SocketsOK'
  BY <1>2, RoomLeft DEF SubscribeCreate
<1>3. ASSUME NEW t \in Callers, SubscribeUse(t) PROVE SocketsOK'
  BY <1>3 DEF SubscribeUse
<1>4. ASSUME NEW t \in Callers, Open(t) \/ Rest(t) \/ Insert(t) PROVE SocketsOK'
  <2>1. sock[t] \in 1..made
    BY <1>4 DEF Open, Rest, Insert
  <2> QED
    BY <1>4, <2>1, ZenonT(60) DEF Open, Rest, Insert
<1>5. ASSUME NEW t \in Callers, BatchCheck(t) PROVE SocketsOK'
  BY <1>5 DEF BatchCheck
<1>6. ASSUME NEW t \in Callers, BatchUse(t) PROVE SocketsOK'
  BY <1>6, SMTT(60) DEF BatchUse
<1>7. ASSUME NEW t \in Callers, BatchRun(t) PROVE SocketsOK'
  BY <1>7 DEF BatchRun
<1>8. ASSUME NEW t \in Callers, CloseCheck(t) PROVE SocketsOK'
  BY <1>8 DEF CloseCheck
<1>9. ASSUME NEW t \in Callers, CloseUse(t) PROVE SocketsOK'
  BY <1>9 DEF CloseUse
<1>10. ASSUME NEW t \in Callers, CloseShut(t) PROVE SocketsOK'
  <2>1. sock[t] \in 1..made
    BY <1>10 DEF CloseShut
  <2> QED
    BY <1>10, <2>1 DEF CloseShut
<1>11. ASSUME NEW t \in Callers, CloseStop(t) PROVE SocketsOK'
  BY <1>11 DEF CloseStop
<1>12. ASSUME NEW t \in Callers, CloseForget(t) PROVE SocketsOK'
  BY <1>12 DEF CloseForget
<1>13. ASSUME NEW t \in Callers, CloseClient(t) PROVE SocketsOK'
  BY <1>13 DEF CloseClient
<1>14. CASE UNCHANGED sessionVars
  BY <1>14
<1> QED
  BY <1>1, <1>2, <1>3, <1>4, <1>5, <1>6, <1>7, <1>8, <1>9, <1>10, <1>11,
     <1>12, <1>13, <1>14
  DEF SessionNext

LEMMA NextBefore ==
    SessionTypeOK /\ [SessionNext]_sessionVars => BeforeOK'
<1> SUFFICES ASSUME SessionTypeOK, [SessionNext]_sessionVars PROVE BeforeOK'
  OBVIOUS
<1> USE DEF SessionTypeOK, BeforeOK, Sockets, Goto, Begin,
            Await, KeepLoop, Crash, Running, Over
<1>1. ASSUME NEW t \in Callers,
             SubscribeCheck(t) \/ SubscribeCreate(t) \/ SubscribeUse(t)
      PROVE  BeforeOK'
  BY <1>1 DEF SubscribeCheck, SubscribeCreate, SubscribeUse
<1>2. ASSUME NEW t \in Callers, Open(t) \/ Rest(t) \/ Insert(t) PROVE BeforeOK'
  BY <1>2 DEF Open, Rest, Insert
<1>3. ASSUME NEW t \in Callers, BatchCheck(t) \/ BatchUse(t) \/ BatchRun(t)
      PROVE  BeforeOK'
  BY <1>3 DEF BatchCheck, BatchUse, BatchRun
<1>4. ASSUME NEW t \in Callers, CloseCheck(t) PROVE BeforeOK'
  <2>1. 1..made \subseteq Sockets
    BY FS_CardinalityType
  <2>2. [sockets |-> connected, streams |-> live]
           \in [sockets : SUBSET Sockets, streams : SUBSET Callers]
    BY <2>1
  <2> QED
    BY <1>4, <2>2 DEF CloseCheck
<1>5. ASSUME NEW t \in Callers, CloseUse(t) PROVE BeforeOK'
  BY <1>5 DEF CloseUse
<1>6. ASSUME NEW t \in Callers, CloseShut(t) PROVE BeforeOK'
  BY <1>6 DEF CloseShut
<1>7. ASSUME NEW t \in Callers, CloseStop(t) \/ CloseForget(t) \/ CloseClient(t)
      PROVE  BeforeOK'
  BY <1>7 DEF CloseStop, CloseForget, CloseClient
<1>8. CASE UNCHANGED sessionVars
  BY <1>8
<1> QED
  BY <1>1, <1>2, <1>3, <1>4, <1>5, <1>6, <1>7, <1>8 DEF SessionNext

LEMMA NextType ==
    SessionTypeOK /\ Places /\ MadeBound /\ [SessionNext]_sessionVars => SessionTypeOK'
  BY NextControl, NextSockets, NextBefore
  DEF SessionTypeOK, ControlOK, SocketsOK, BeforeOK

LEMMA NextMadeBound ==
    SessionTypeOK /\ Places /\ MadeBound /\ [SessionNext]_sessionVars => MadeBound'
<1> SUFFICES ASSUME SessionTypeOK, Places, MadeBound, [SessionNext]_sessionVars
             PROVE  MadeBound'
  OBVIOUS
<1>1. /\ \A S \in SUBSET Callers : IsFiniteSet(S) /\ Cardinality(S) \in Nat
      /\ Creators \subseteq Callers /\ Creators' \subseteq Callers /\ made \in Nat
  BY FS_Subset, FS_CardinalityType DEF Creators, SessionTypeOK
<1>2. CASE Creators \subseteq Creators' /\ UNCHANGED made
  <2>1. Cardinality(Creators) <= Cardinality(Creators')
    BY <1>1, <1>2, FS_Subset
  <2> QED
    BY <1>1, <1>2, <2>1 DEF MadeBound
<1>3. ASSUME NEW t \in Callers, SubscribeCreate(t) PROVE MadeBound'
  <2>1. Creators' = Creators \cup {t} /\ t \notin Creators /\ made' = made + 1
    BY <1>3 DEF SubscribeCreate, Goto, Creators, SessionTypeOK, Places
  <2>2. Cardinality(Creators') = Cardinality(Creators) + 1
    BY <1>1, <2>1, FS_AddElement
  <2> QED
    BY <1>1, <2>1, <2>2 DEF MadeBound
<1>4. ASSUME NEW t \in Callers,
             \/ SubscribeCheck(t) \/ SubscribeUse(t) \/ Open(t) \/ Rest(t) \/ Insert(t)
             \/ BatchCheck(t) \/ BatchUse(t) \/ BatchRun(t)
             \/ CloseCheck(t) \/ CloseUse(t) \/ CloseShut(t)
             \/ CloseStop(t) \/ CloseForget(t) \/ CloseClient(t)
      PROVE  Creators \subseteq Creators' /\ UNCHANGED made
  BY <1>4
  DEF SubscribeCheck, SubscribeUse, Open, Rest, Insert, BatchCheck, BatchUse, BatchRun,
      CloseCheck, CloseUse, CloseShut, CloseStop, CloseForget, CloseClient, Begin, Goto,
      Crash, Creators, SessionTypeOK
<1>5. CASE UNCHANGED sessionVars
  BY <1>2, <1>5 DEF Creators
<1> QED
  BY <1>2, <1>3, <1>4, <1>5 DEF SessionNext

LEMMA NextPlaces ==
    SessionTypeOK /\ Places /\ [SessionNext]_sessionVars => Places'
<1> SUFFICES ASSUME SessionTypeOK, Places, [SessionNext]_sessionVars PROVE Places'
  OBVIOUS
<1> USE DEF SessionTypeOK, Places, Goto, Begin, Await, KeepLoop, Crash, Running, Over
<1>1. ASSUME NEW t \in Callers,
             SubscribeCheck(t) \/ SubscribeCreate(t) \/ SubscribeUse(t)
      PROVE  Places'
  BY <1>1 DEF SubscribeCheck, SubscribeCreate, SubscribeUse
<1>2. ASSUME NEW t \in Callers, Open(t) \/ Rest(t) \/ Insert(t) PROVE Places'
  BY <1>2 DEF Open, Rest, Insert
<1>3. ASSUME NEW t \in Callers, BatchCheck(t) \/ BatchUse(t) \/ BatchRun(t)
      PROVE  Places'
  BY <1>3 DEF BatchCheck, BatchUse, BatchRun
<1>4. ASSUME NEW t \in Callers, CloseCheck(t) \/ CloseUse(t) \/ CloseShut(t)
      PROVE  Places'
  BY <1>4 DEF CloseCheck, CloseUse, CloseShut
<1>5. ASSUME NEW t \in Callers, CloseStop(t) \/ CloseForget(t) \/ CloseClient(t)
      PROVE  Places'
  BY <1>5 DEF CloseStop, CloseForget, CloseClient
<1>6. CASE UNCHANGED sessionVars
  BY <1>6
<1> QED
  BY <1>1, <1>2, <1>3, <1>4, <1>5, <1>6 DEF SessionNext

LEMMA NextStreams ==
    SessionTypeOK /\ Streams /\ [SessionNext]_sessionVars => Streams'
<1> SUFFICES ASSUME SessionTypeOK, Streams, [SessionNext]_sessionVars PROVE Streams'
  OBVIOUS
<1> USE DEF SessionTypeOK, Streams, Goto, Begin, Await, KeepLoop, Crash, Running, Over
<1>1. ASSUME NEW t \in Callers,
             SubscribeCheck(t) \/ SubscribeCreate(t) \/ SubscribeUse(t)
      PROVE  Streams'
  BY <1>1 DEF SubscribeCheck, SubscribeCreate, SubscribeUse
<1>2. ASSUME NEW t \in Callers, Open(t) \/ Rest(t) \/ Insert(t) PROVE Streams'
  BY <1>2 DEF Open, Rest, Insert
<1>3. ASSUME NEW t \in Callers, BatchCheck(t) \/ BatchUse(t) \/ BatchRun(t)
      PROVE  Streams'
  BY <1>3 DEF BatchCheck, BatchUse, BatchRun
<1>4. ASSUME NEW t \in Callers, CloseCheck(t) PROVE Streams'
  BY <1>4, ZenonT(60) DEF CloseCheck
<1>5. ASSUME NEW t \in Callers, CloseUse(t) PROVE Streams'
  BY <1>5 DEF CloseUse
<1>6. ASSUME NEW t \in Callers, CloseShut(t) PROVE Streams'
  BY <1>6 DEF CloseShut
<1>7. ASSUME NEW t \in Callers, CloseStop(t) \/ CloseForget(t) \/ CloseClient(t)
      PROVE  Streams'
  BY <1>7 DEF CloseStop, CloseForget, CloseClient
<1>8. CASE UNCHANGED sessionVars
  BY <1>8
<1> QED
  BY <1>1, <1>2, <1>3, <1>4, <1>5, <1>6, <1>7, <1>8 DEF SessionNext

LEMMA NextNamed ==
    SessionTypeOK /\ Places /\ Named /\ [SessionNext]_sessionVars => Named'
<1> SUFFICES ASSUME SessionTypeOK, Places, Named, [SessionNext]_sessionVars PROVE Named'
  OBVIOUS
<1> USE DEF SessionTypeOK, Places, Named, Overwritten, Goto,
            Begin, Await, KeepLoop, Crash, Running, Over
<1>1. ASSUME NEW t \in Callers, SubscribeCheck(t) PROVE Named'
  BY <1>1 DEF SubscribeCheck
<1>2. ASSUME NEW t \in Callers, SubscribeCreate(t) PROVE Named'
  BY <1>2 DEF SubscribeCreate
<1>3. ASSUME NEW t \in Callers, SubscribeUse(t) PROVE Named'
  BY <1>3 DEF SubscribeUse
<1>4. ASSUME NEW t \in Callers, Open(t) \/ Rest(t) \/ Insert(t) PROVE Named'
  BY <1>4 DEF Open, Rest, Insert
<1>5. ASSUME NEW t \in Callers, BatchCheck(t) \/ BatchUse(t) \/ BatchRun(t) PROVE Named'
  BY <1>5 DEF BatchCheck, BatchUse, BatchRun
<1>6. ASSUME NEW t \in Callers, CloseCheck(t) \/ CloseUse(t) \/ CloseShut(t)
      PROVE  Named'
  BY <1>6 DEF CloseCheck, CloseUse, CloseShut
<1>7. ASSUME NEW t \in Callers, CloseStop(t) \/ CloseForget(t) \/ CloseClient(t)
      PROVE  Named'
  BY <1>7 DEF CloseStop, CloseForget, CloseClient
<1>8. CASE UNCHANGED sessionVars
  BY <1>8
<1> QED
  BY <1>1, <1>2, <1>3, <1>4, <1>5, <1>6, <1>7, <1>8 DEF SessionNext

LEMMA ShuttingKept ==
    ASSUME Shutting, UNCHANGED <<live, sock, shut>>, connected' \cap shut \subseteq connected,
           \A u \in Callers : pc[u] = "stop" => pc'[u] = "stop"
    PROVE  Shutting'
<1> SUFFICES ASSUME NEW s \in (connected' \cup {sock'[u] : u \in live'}) \cap shut'
             PROVE  BeingClosed(s)'
  BY DEF Shutting
<1>1. s \in (connected \cup {sock[u] : u \in live}) \cap shut
  OBVIOUS
<1>2. BeingClosed(s)
  BY <1>1 DEF Shutting
<1> QED
  BY <1>2 DEF BeingClosed

LEMMA NextShutting ==
    SessionTypeOK /\ Streams /\ Shutting /\ [SessionNext]_sessionVars => Shutting'
<1> SUFFICES ASSUME SessionTypeOK, Streams, Shutting, [SessionNext]_sessionVars
             PROVE  Shutting'
  OBVIOUS
<1> USE DEF SessionTypeOK, Streams, Shutting, BeingClosed, Goto, Begin,
            Await, KeepLoop, Crash, Running, Over
<1>1. ASSUME NEW t \in Callers, SubscribeCheck(t) PROVE Shutting'
  BY <1>1 DEF SubscribeCheck
<1>2. ASSUME NEW t \in Callers, SubscribeCreate(t) PROVE Shutting'
  BY <1>2 DEF SubscribeCreate
<1>3. ASSUME NEW t \in Callers, SubscribeUse(t) PROVE Shutting'
  BY <1>3 DEF SubscribeUse
<1>4. ASSUME NEW t \in Callers, Open(t) PROVE Shutting'
  <2>1. /\ connected' \cap shut \subseteq connected
        /\ UNCHANGED <<live, sock, shut>>
    BY <1>4 DEF Open
  <2>2. \A u \in Callers : pc[u] = "stop" => pc'[u] = "stop"
    BY <1>4 DEF Open
  <2> QED
    BY <2>1, <2>2, ShuttingKept
<1>5. ASSUME NEW t \in Callers, Rest(t) PROVE Shutting'
  BY <1>5 DEF Rest
<1>6. ASSUME NEW t \in Callers, Insert(t) PROVE Shutting'
  BY <1>6 DEF Insert
<1>7. ASSUME NEW t \in Callers, BatchCheck(t) PROVE Shutting'
  BY <1>7 DEF BatchCheck
<1>8. ASSUME NEW t \in Callers, BatchUse(t) PROVE Shutting'
  BY <1>8 DEF BatchUse
<1>9. ASSUME NEW t \in Callers, BatchRun(t) PROVE Shutting'
  BY <1>9 DEF BatchRun
<1>10. ASSUME NEW t \in Callers, CloseCheck(t) PROVE Shutting'
  BY <1>10 DEF CloseCheck
<1>11. ASSUME NEW t \in Callers, CloseUse(t) PROVE Shutting'
  BY <1>11 DEF CloseUse
<1>12. ASSUME NEW t \in Callers, CloseShut(t) PROVE Shutting'
  BY <1>12 DEF CloseShut
<1>13. ASSUME NEW t \in Callers, CloseStop(t) PROVE Shutting'
  BY <1>13 DEF CloseStop
<1>14. ASSUME NEW t \in Callers, CloseForget(t) PROVE Shutting'
  <2>1. /\ UNCHANGED <<connected, live, sock, shut>>
        /\ \A u \in Callers : pc[u] = "stop" => pc'[u] = "stop"
    BY <1>14 DEF CloseForget
  <2> QED
    BY <2>1, ShuttingKept
<1>15. ASSUME NEW t \in Callers, CloseClient(t) PROVE Shutting'
  BY <1>15 DEF CloseClient
<1>16. CASE UNCHANGED sessionVars
  BY <1>16, ShuttingKept
<1> QED
  BY <1>1, <1>2, <1>3, <1>4, <1>5, <1>6, <1>7, <1>8, <1>9, <1>10, <1>11,
     <1>12, <1>13, <1>14, <1>15, <1>16
  DEF SessionNext

LEMMA NextReplaced ==
    SessionTypeOK /\ Places /\ Streams /\ Replaced
    /\ [SessionNext]_sessionVars => Replaced'
<1> SUFFICES ASSUME SessionTypeOK, Places, Streams, Replaced, [SessionNext]_sessionVars
             PROVE  Replaced'
  OBVIOUS
<1> USE DEF SessionTypeOK, Places, Streams, Replaced, Goto,
            Begin, Await, KeepLoop, Crash, Running, Over
<1>1. ASSUME NEW t \in Callers,
             SubscribeCheck(t) \/ SubscribeCreate(t) \/ SubscribeUse(t)
      PROVE  Replaced'
  BY <1>1 DEF SubscribeCheck, SubscribeCreate, SubscribeUse
<1>2. ASSUME NEW t \in Callers, Open(t) \/ Rest(t) \/ Insert(t) PROVE Replaced'
  BY <1>2 DEF Open, Rest, Insert
<1>3. ASSUME NEW t \in Callers, BatchCheck(t) \/ BatchUse(t) \/ BatchRun(t)
      PROVE  Replaced'
  BY <1>3 DEF BatchCheck, BatchUse, BatchRun
<1>4. ASSUME NEW t \in Callers, CloseCheck(t) \/ CloseUse(t) \/ CloseShut(t)
      PROVE  Replaced'
  BY <1>4 DEF CloseCheck, CloseUse, CloseShut
<1>5. ASSUME NEW t \in Callers, CloseStop(t) \/ CloseForget(t) \/ CloseClient(t)
      PROVE  Replaced'
  BY <1>5 DEF CloseStop, CloseForget, CloseClient
<1>6. CASE UNCHANGED sessionVars
  BY <1>6
<1> QED
  BY <1>1, <1>2, <1>3, <1>4, <1>5, <1>6 DEF SessionNext

LEMMA NextOverlapping ==
    SessionTypeOK /\ Overlapping /\ [SessionNext]_sessionVars => Overlapping'
<1> SUFFICES ASSUME SessionTypeOK, Overlapping, [SessionNext]_sessionVars
             PROVE  Overlapping'
  OBVIOUS
<1> USE DEF SessionTypeOK, Overlapping, Goto, Begin,
            Await, KeepLoop, Crash, Running, Over
<1>1. ASSUME NEW t \in Callers,
             SubscribeCheck(t) \/ SubscribeCreate(t) \/ SubscribeUse(t)
      PROVE  Overlapping'
  BY <1>1 DEF SubscribeCheck, SubscribeCreate, SubscribeUse
<1>2. ASSUME NEW t \in Callers, Open(t) \/ Rest(t) \/ Insert(t) PROVE Overlapping'
  BY <1>2 DEF Open, Rest, Insert
<1>3. ASSUME NEW t \in Callers, BatchCheck(t) \/ BatchUse(t) \/ BatchRun(t)
      PROVE  Overlapping'
  BY <1>3 DEF BatchCheck, BatchUse, BatchRun
<1>4. ASSUME NEW t \in Callers, CloseCheck(t) \/ CloseUse(t) \/ CloseShut(t)
      PROVE  Overlapping'
  BY <1>4, SMTT(60) DEF CloseCheck, CloseUse, CloseShut
<1>5. ASSUME NEW t \in Callers, CloseStop(t) \/ CloseForget(t) \/ CloseClient(t)
      PROVE  Overlapping'
  BY <1>5 DEF CloseStop, CloseForget, CloseClient
<1>6. CASE UNCHANGED sessionVars
  BY <1>6
<1> QED
  BY <1>1, <1>2, <1>3, <1>4, <1>5, <1>6 DEF SessionNext

LEMMA NextCleared ==
    SessionTypeOK /\ Places /\ Overlapping /\ Cleared
    /\ [SessionNext]_sessionVars => Cleared'
<1> SUFFICES ASSUME SessionTypeOK, Places, Overlapping, Cleared,
                    [SessionNext]_sessionVars
             PROVE  Cleared'
  OBVIOUS
<1> USE DEF SessionTypeOK, Places, Overlapping, Cleared, Goto,
            Begin, Await, KeepLoop, Crash, Running, Over
<1>1. ASSUME NEW t \in Callers,
             SubscribeCheck(t) \/ SubscribeCreate(t) \/ SubscribeUse(t)
      PROVE  Cleared'
  BY <1>1 DEF SubscribeCheck, SubscribeCreate, SubscribeUse
<1>2. ASSUME NEW t \in Callers, Open(t) \/ Rest(t) \/ Insert(t) PROVE Cleared'
  BY <1>2 DEF Open, Rest, Insert
<1>3. ASSUME NEW t \in Callers, BatchCheck(t) \/ BatchUse(t) \/ BatchRun(t)
      PROVE  Cleared'
  BY <1>3 DEF BatchCheck, BatchUse, BatchRun
<1>4. ASSUME NEW t \in Callers, CloseCheck(t) \/ CloseUse(t) \/ CloseShut(t)
      PROVE  Cleared'
  BY <1>4 DEF CloseCheck, CloseUse, CloseShut
<1>5. ASSUME NEW t \in Callers, CloseStop(t) \/ CloseForget(t) \/ CloseClient(t)
      PROVE  Cleared'
  BY <1>5, SMTT(60) DEF CloseStop, CloseForget, CloseClient
<1>6. CASE UNCHANGED sessionVars
  BY <1>6
<1> QED
  BY <1>1, <1>2, <1>3, <1>4, <1>5, <1>6 DEF SessionNext

LEMMA NextOneTask ==
    SessionTypeOK /\ OneTask /\ [SessionNext]_sessionVars => OneTask'
<1> SUFFICES ASSUME SessionTypeOK, OneTask, [SessionNext]_sessionVars PROVE OneTask'
  OBVIOUS
<1> USE DEF SessionTypeOK, OneTask, Turn, Goto, Begin,
            Await, KeepLoop, Crash, Running, Over
<1>1. ASSUME NEW t \in Callers, SubscribeCheck(t) PROVE OneTask'
  BY <1>1 DEF SubscribeCheck
<1>2. ASSUME NEW t \in Callers, SubscribeCreate(t) PROVE OneTask'
  BY <1>2 DEF SubscribeCreate
<1>3. ASSUME NEW t \in Callers, SubscribeUse(t) PROVE OneTask'
  BY <1>3 DEF SubscribeUse
<1>4. ASSUME NEW t \in Callers, Open(t) \/ Rest(t) \/ Insert(t) PROVE OneTask'
  BY <1>4, ZenonT(60) DEF Open, Rest, Insert
<1>5. ASSUME NEW t \in Callers, BatchCheck(t) PROVE OneTask'
  BY <1>5 DEF BatchCheck
<1>6. ASSUME NEW t \in Callers, BatchUse(t) PROVE OneTask'
  BY <1>6 DEF BatchUse
<1>7. ASSUME NEW t \in Callers, BatchRun(t) PROVE OneTask'
  BY <1>7 DEF BatchRun
<1>8. ASSUME NEW t \in Callers, CloseCheck(t) PROVE OneTask'
  BY <1>8 DEF CloseCheck
<1>9. ASSUME NEW t \in Callers, CloseUse(t) PROVE OneTask'
  BY <1>9 DEF CloseUse
<1>10. ASSUME NEW t \in Callers, CloseShut(t) PROVE OneTask'
  BY <1>10 DEF CloseShut
<1>11. ASSUME NEW t \in Callers, CloseStop(t) PROVE OneTask'
  BY <1>11 DEF CloseStop
<1>12. ASSUME NEW t \in Callers, CloseForget(t) PROVE OneTask'
  BY <1>12 DEF CloseForget
<1>13. ASSUME NEW t \in Callers, CloseClient(t) PROVE OneTask'
  BY <1>13 DEF CloseClient
<1>14. CASE UNCHANGED sessionVars
  BY <1>14
<1> QED
  BY <1>1, <1>2, <1>3, <1>4, <1>5, <1>6, <1>7, <1>8, <1>9, <1>10, <1>11,
     <1>12, <1>13, <1>14
  DEF SessionNext

LEMMA NextOneCloses ==
    SessionTypeOK /\ Places /\ OneTask /\ OneCloses
    /\ [SessionNext]_sessionVars => OneCloses'
<1> SUFFICES ASSUME SessionTypeOK, Places, OneTask, OneCloses, [SessionNext]_sessionVars
             PROVE  OneCloses'
  OBVIOUS
<1> USE DEF SessionTypeOK, Places, OneTask, OneCloses, Goto,
            Begin, Await, KeepLoop, Crash, Running, Over
<1>0. call' = call => \A u \in Callers : AnotherCloses(u)' <=> AnotherCloses(u)
  BY DEF AnotherCloses
<1>1. ASSUME NEW t \in Callers, SubscribeCheck(t) PROVE OneCloses'
  BY <1>0, <1>1 DEF SubscribeCheck
<1>2. ASSUME NEW t \in Callers, SubscribeCreate(t) PROVE OneCloses'
  BY <1>0, <1>2 DEF SubscribeCreate
<1>3. ASSUME NEW t \in Callers, SubscribeUse(t) PROVE OneCloses'
  BY <1>0, <1>3 DEF SubscribeUse
<1>4. ASSUME NEW t \in Callers, Open(t) \/ Rest(t) \/ Insert(t) PROVE OneCloses'
  BY <1>0, <1>4, ZenonT(60) DEF Open, Rest, Insert
<1>5. ASSUME NEW t \in Callers, BatchCheck(t) \/ BatchUse(t) \/ BatchRun(t)
      PROVE  OneCloses'
  BY <1>0, <1>5, ZenonT(60) DEF BatchCheck, BatchUse, BatchRun
<1>6. ASSUME NEW t \in Callers, CloseCheck(t) PROVE OneCloses'
  BY <1>0, <1>6 DEF CloseCheck
<1>7. ASSUME NEW t \in Callers, CloseUse(t) PROVE OneCloses'
  BY <1>0, <1>7 DEF CloseUse
<1>8. ASSUME NEW t \in Callers, CloseShut(t) PROVE OneCloses'
  BY <1>0, <1>8 DEF CloseShut
<1>9. ASSUME NEW t \in Callers, CloseStop(t) PROVE OneCloses'
  BY <1>0, <1>9 DEF CloseStop
<1>10. ASSUME NEW t \in Callers, CloseForget(t) PROVE OneCloses'
  BY <1>10 DEF CloseForget, AnotherCloses
<1>11. ASSUME NEW t \in Callers, CloseClient(t) PROVE OneCloses'
  BY <1>0, <1>11 DEF CloseClient
<1>12. CASE UNCHANGED sessionVars
  BY <1>0, <1>12
<1> QED
  BY <1>1, <1>2, <1>3, <1>4, <1>5, <1>6, <1>7, <1>8, <1>9, <1>10, <1>11,
     <1>12
  DEF SessionNext

LEMMA NextTasksLose ==
    SessionTypeOK /\ Places /\ OneTask /\ OneCloses /\ TasksLose
    /\ [SessionNext]_sessionVars => TasksLose'
<1> SUFFICES ASSUME SessionTypeOK, Places, OneTask, OneCloses, TasksLose,
                    [SessionNext]_sessionVars
             PROVE  TasksLose'
  OBVIOUS
<1> USE DEF SessionTypeOK, Places, OneTask, OneCloses, TasksLose, Overwritten,
            Goto, Begin, Await, KeepLoop, Crash, Running, Over
<1>0. call' = call => \A u \in Callers : AnotherCloses(u)' <=> AnotherCloses(u)
  BY DEF AnotherCloses
<1>1. ASSUME NEW t \in Callers,
             SubscribeCheck(t) \/ SubscribeCreate(t) \/ SubscribeUse(t)
      PROVE  TasksLose'
  BY <1>0, <1>1 DEF SubscribeCheck, SubscribeCreate, SubscribeUse
<1>2. ASSUME NEW t \in Callers, Open(t) \/ Rest(t) \/ Insert(t) PROVE TasksLose'
  BY <1>0, <1>2 DEF Open, Rest, Insert
<1>3. ASSUME NEW t \in Callers, BatchCheck(t) \/ BatchUse(t) \/ BatchRun(t)
      PROVE  TasksLose'
  BY <1>0, <1>3 DEF BatchCheck, BatchUse, BatchRun
<1>4. ASSUME NEW t \in Callers, CloseCheck(t) \/ CloseUse(t) \/ CloseShut(t)
      PROVE  TasksLose'
  BY <1>0, <1>4 DEF CloseCheck, CloseUse, CloseShut
<1>5. ASSUME NEW t \in Callers, CloseStop(t) PROVE TasksLose'
  BY <1>0, <1>5 DEF CloseStop
<1>6. ASSUME NEW t \in Callers, CloseForget(t) PROVE TasksLose'
  BY <1>0, <1>6 DEF CloseForget
<1>7. ASSUME NEW t \in Callers, CloseClient(t) PROVE TasksLose'
  BY <1>0, <1>7 DEF CloseClient
<1>8. CASE UNCHANGED sessionVars
  BY <1>0, <1>8
<1> QED
  BY <1>1, <1>2, <1>3, <1>4, <1>5, <1>6, <1>7, <1>8 DEF SessionNext

LEMMA NextCrashes ==
    SessionTypeOK /\ Cleared /\ OneTask /\ Crashes
    /\ [SessionNext]_sessionVars => Crashes'
<1> SUFFICES ASSUME SessionTypeOK, Cleared, OneTask, Crashes, [SessionNext]_sessionVars
             PROVE  Crashes'
  OBVIOUS
<1> USE DEF SessionTypeOK, Cleared, OneTask, Crashes, Goto,
            Begin, Await, KeepLoop, Crash, Running, Over
<1>1. ASSUME NEW t \in Callers,
             SubscribeCheck(t) \/ SubscribeCreate(t) \/ SubscribeUse(t)
      PROVE  Crashes'
  BY <1>1 DEF SubscribeCheck, SubscribeCreate, SubscribeUse
<1>2. ASSUME NEW t \in Callers, Open(t) \/ Rest(t) \/ Insert(t) PROVE Crashes'
  BY <1>2 DEF Open, Rest, Insert
<1>3. ASSUME NEW t \in Callers, BatchCheck(t) \/ BatchUse(t) \/ BatchRun(t)
      PROVE  Crashes'
  BY <1>3 DEF BatchCheck, BatchUse, BatchRun
<1>4. ASSUME NEW t \in Callers, CloseCheck(t) \/ CloseUse(t) \/ CloseShut(t)
      PROVE  Crashes'
  BY <1>4 DEF CloseCheck, CloseUse, CloseShut
<1>5. ASSUME NEW t \in Callers, CloseStop(t) \/ CloseForget(t) \/ CloseClient(t)
      PROVE  Crashes'
  BY <1>5 DEF CloseStop, CloseForget, CloseClient
<1>6. CASE UNCHANGED sessionVars
  BY <1>6
<1> QED
  BY <1>1, <1>2, <1>3, <1>4, <1>5, <1>6 DEF SessionNext

LEMMA InvKept == SessionSpec => []Inv
<1>1. SessionInit => Inv
  <2> SUFFICES ASSUME SessionInit PROVE Inv
    OBVIOUS
  <2>1. Cardinality(Callers) \in Nat /\ Creators = {} /\ Cardinality({}) = 0
    BY FS_CardinalityType, FS_EmptySet DEF SessionInit, Creators
  <2>2. SessionTypeOK /\ MadeBound
    BY <2>1 DEF SessionInit, SessionTypeOK, MadeBound, Over
  <2> QED
    BY <2>2
    DEF Inv, SessionInit, Places, Streams, Named, Shutting, Replaced, Overlapping,
        Cleared, OneTask, OneCloses, TasksLose, Crashes, Running
<1>2. Inv /\ [SessionNext]_sessionVars => Inv'
  BY NextType, NextMadeBound, NextPlaces, NextStreams, NextNamed, NextShutting,
     NextReplaced, NextOverlapping, NextCleared, NextOneTask, NextOneCloses,
     NextTasksLose, NextCrashes
  DEF Inv
<1> QED
  BY <1>1, <1>2, PTL DEF SessionSpec

\* The reading of pages leaves the session alone.
LEMMA SessionOfSpec == Spec => SessionSpec
<1>1. Init => SessionInit
  BY DEF Init
<1>2. [Next]_<<sessionVars, pageVars>> => [SessionNext]_sessionVars
  BY DEF Next, PageNext
<1> QED
  BY <1>1, <1>2, PTL DEF Spec, SessionSpec

\* After close() has returned, every stream and connection there was before is
\* ended and closed, or is another close()'s, or was overwritten; and whatever
\* is open is named by the attribute: for any number of callers.
THEOREM CloseAlwaysReleases == Spec => []CloseReleases
<1>1. Inv => CloseReleases
  <2> SUFFICES ASSUME Inv PROVE CloseReleases
    OBVIOUS
  <2>1. \A s \in connected \cup {sock[u] : u \in live} :
            IF s \in shut THEN BeingClosed(s) ELSE s \in lost \cup {field}
    <3>1. \A s \in connected \cup {sock[u] : u \in live} : s \in 1..made
      BY DEF Inv, SessionTypeOK
    <3> QED
      BY <3>1 DEF Inv, Named, Shutting
  <2>2. ASSUME NEW t \in Callers, pc[t] = "closed",
               NEW u \in before[t].streams \cap live
        PROVE  sock[u] \in lost \/ BeingClosed(sock[u])
    BY <2>1, <2>2 DEF Inv, Replaced
  <2>3. ASSUME NEW t \in Callers, pc[t] = "closed",
               NEW s \in before[t].sockets \cap connected
        PROVE  s \in lost \/ BeingClosed(s)
    BY <2>1, <2>3 DEF Inv, Replaced
  <2> QED
    BY <2>1, <2>2, <2>3 DEF CloseReleases
<1> QED
  BY <1>1, SessionOfSpec, InvKept, PTL

\* A cleared attribute hurts only a thread that ran at the same time as a
\* close(), and tasks lose a socket only by closing twice: for any number.
THEOREM RacesOnlyHurt == Spec => []OnlyRacesHurt
<1>1. Inv => OnlyRacesHurt
  <2> SUFFICES ASSUME Inv PROVE OnlyRacesHurt
    OBVIOUS
  <2>1. ASSUME tasks, lost # {}
        PROVE  Cardinality({t \in Callers : call[t] = "close"}) > 1
    <3> DEFINE C == {t \in Callers : call[t] = "close"}
    <3>1. PICK t \in C : \E u \in C : u # t
      BY <2>1 DEF Inv, TasksLose, AnotherCloses
    <3>2. PICK u \in C : u # t
      BY <3>1
    <3>3. IsFiniteSet({t}) /\ Cardinality({t}) = 1
      BY FS_Singleton
    <3>4. IsFiniteSet({t} \cup {u}) /\ Cardinality({t} \cup {u}) = 2
      <4>1. Cardinality({t} \cup {u})
               = IF u \in {t} THEN Cardinality({t}) ELSE Cardinality({t}) + 1
        BY <3>3, FS_AddElement
      <4> QED
        BY <3>2, <3>3, <4>1, FS_AddElement, SMTT(60)
    <3>5. IsFiniteSet(C)
      BY FS_Subset
    <3>6. Cardinality({t} \cup {u}) <= Cardinality(C) /\ Cardinality(C) \in Nat
      BY <3>5, FS_Subset, FS_CardinalityType
    <3> QED
      BY <3>4, <3>6
  <2> QED
    BY <2>1 DEF OnlyRacesHurt, Inv, Crashes
<1> QED
  BY <1>1, SessionOfSpec, InvKept, PTL

\* Every variable of the session's calls and of the walk through pages keeps
\* its type, and no walk asks for more pages than the guard allows.
THEOREM TypeCorrect == Spec => []TypeOK
<1>1. Inv /\ PageInv => TypeOK
  BY DEF Inv, PageInv, TypeOK
<1> QED
  BY <1>1, SessionOfSpec, InvKept, PagesKept, PTL

\* A walk through the pages of any collection, with any total claimed and any
\* writes of others, returns whatever stayed in it, and all of it if nobody wrote;
\* but not when the claimed total was below the true one, and then at least as
\* many objects as that, nor when a removal moved objects before a position
\* already read, or an insertion before the end one past the total.
THEOREM PagesAreComplete == Spec => []PagesComplete
<1>1. PageInv => PagesComplete
  BY DEF PageInv
<1> QED
  BY <1>1, PagesKept, PTL
===============================================================================
