------------------------- MODULE AskSession_proofs -------------------------
(***************************************************************************)
(* Proofs about transcripts and the Ask that reads them, for every set of  *)
(* requests, all sizes of records and pages, any bounds of the retention   *)
(* and any number of restarts.                                             *)
(*                                                                         *)
(* The first part is about sums.  That Bytes adds up is an induction over  *)
(* the length of a sequence; it is done by the least counterexample, which *)
(* a set of natural numbers has.  The second part shows that a reader      *)
(* accepts every page cut from the transcript it reads, and the third that *)
(* the transcript it reads is the one that was captured.                   *)
(***************************************************************************)
EXTENDS AskSession, SequenceTheorems, WellFoundedInduction, TLAPS

----------------------------------------------------------------------------
(* Sums.                                                                   *)

\* A set of natural numbers has a least element.
LEMMA LeastNatural ==
    ASSUME NEW T, T \subseteq Nat, T # {}
    PROVE  \E n \in T : \A m \in T : n <= m
  <1> DEFINE less == {ss \in Nat \X Nat : ss[1] < ss[2]}
  <1>1. IsWellFoundedOn(less, Nat)
    BY NatLessThanWellFounded DEF OpToRel
  <1>2. PICK n \in T : \A m \in T : ~(<<m, n>> \in less)
    <2> HIDE DEF less
    <2> QED
      BY <1>1, WFMin
  <1>3. ASSUME NEW m \in T
        PROVE  n <= m
    <2>1. m \in Nat /\ n \in Nat /\ ~(<<m, n>> \in less)
      BY <1>2
    <2> QED
      BY <2>1
  <1> QED
    BY <1>3

\* f sums up s as far as n.
IsSum(f, s, n) == f = [i \in 0..n |-> IF i = 0 THEN 0 ELSE f[i - 1] + s[i]]

\* Every sequence can be summed up: the recursion of Bytes is well defined.
LEMMA SumExists ==
    ASSUME NEW s, NEW n \in Nat
    PROVE  \E f : IsSum(f, s, n)
  <1> DEFINE T == {k \in Nat : ~\E f : IsSum(f, s, k)}
  <1> SUFFICES ASSUME T # {} PROVE FALSE
    OBVIOUS
  <1>1. PICK k \in T : \A j \in T : k <= j
    BY LeastNatural
  <1>2. CASE k = 0
    <2>1. IsSum([i \in 0..0 |-> 0], s, 0)
      BY DEF IsSum
    <2> QED
      BY <1>2, <2>1
  <1>3. CASE k # 0
    <2>1. k - 1 \in Nat /\ k - 1 \notin T
      BY <1>1, <1>3
    <2>2. PICK f : IsSum(f, s, k - 1)
      BY <2>1
    <2> DEFINE g == [i \in 0..k |-> IF i = k THEN f[k - 1] + s[k] ELSE f[i]]
    <2>3. IsSum(g, s, k)
      <3>1. ASSUME NEW i \in 0..k
            PROVE  g[i] = IF i = 0 THEN 0 ELSE g[i - 1] + s[i]
        <4>1. CASE i = k
          BY <1>3, <4>1
        <4>2. CASE i # k
          <5>1. i \in 0..(k - 1)
            BY <4>2
          <5>2. f[i] = IF i = 0 THEN 0 ELSE f[i - 1] + s[i]
            BY <2>2, <5>1 DEF IsSum
          <5> QED
            BY <5>1, <5>2
        <4> QED
          BY <4>1, <4>2
      <3> HIDE DEF g
      <3>2. g = [i \in 0..k |-> g[i]]
        BY DEF g
      <3> QED
        BY <3>1, <3>2 DEF IsSum
    <2> QED
      BY <2>3
  <1> QED
    BY <1>2, <1>3

\* Bytes is the last of the partial sums.
LEMMA BytesIsSum ==
    ASSUME NEW s, Len(s) \in Nat
    PROVE  \E f : IsSum(f, s, Len(s)) /\ Bytes(s) = f[Len(s)]
  <1>1. Bytes(s) = (CHOOSE f : IsSum(f, s, Len(s)))[Len(s)]
    BY DEF Bytes, IsSum
  <1> QED
    BY <1>1, SumExists

\* Sums of natural numbers are natural numbers.
LEMMA SumsNatural ==
    ASSUME NEW s, NEW n \in Nat, NEW f, IsSum(f, s, n), \A i \in 1..n : s[i] \in Nat
    PROVE  \A i \in 0..n : f[i] \in Nat
  <1> DEFINE T == {i \in 0..n : f[i] \notin Nat}
  <1> SUFFICES ASSUME T # {} PROVE FALSE
    OBVIOUS
  <1>0. T \subseteq Nat
    OBVIOUS
  <1>1. PICK i \in T : \A j \in T : i <= j
    <2> HIDE DEF T
    <2> QED
      BY <1>0, LeastNatural
  <1>2. i \in 0..n /\ f[i] \notin Nat
    OBVIOUS
  <1>3. f[i] = IF i = 0 THEN 0 ELSE f[i - 1] + s[i]
    BY <1>2 DEF IsSum
  <1>4. i # 0 => i - 1 \in 0..n /\ i - 1 \notin T /\ i \in 1..n
    BY <1>1, <1>2
  <1>5. i # 0 => f[i - 1] \in Nat /\ s[i] \in Nat
    BY <1>4
  <1> QED
    BY <1>2, <1>3, <1>5

LEMMA BytesNatural ==
    ASSUME NEW s \in Seq(Nat)
    PROVE  Bytes(s) \in Nat
  <1>1. Len(s) \in Nat /\ \A i \in 1..Len(s) : s[i] \in Nat
    OBVIOUS
  <1>2. PICK f : IsSum(f, s, Len(s)) /\ Bytes(s) = f[Len(s)]
    BY <1>1, BytesIsSum
  <1>3. f[Len(s)] \in Nat
    BY <1>1, <1>2, SumsNatural
  <1> QED
    BY <1>2, <1>3

LEMMA BytesEmpty == Bytes(<< >>) = 0
  <1>1. Len(<< >>) = 0
    OBVIOUS
  <1>2. PICK f : IsSum(f, << >>, 0) /\ Bytes(<< >>) = f[0]
    BY <1>1, BytesIsSum
  <1> QED
    BY <1>2 DEF IsSum

\* What a concatenation has is what its parts have.
LEMMA BytesConcat ==
    ASSUME NEW s \in Seq(Nat), NEW t \in Seq(Nat)
    PROVE  Bytes(s \o t) = Bytes(s) + Bytes(t)
  <1> DEFINE u == s \o t
  <1>1. /\ u \in Seq(Nat) /\ Len(u) = Len(s) + Len(t) /\ Len(u) \in Nat
        /\ Len(s) \in Nat /\ Len(t) \in Nat
        /\ \A i \in 1..Len(s) : u[i] = s[i] /\ s[i] \in Nat
        /\ \A i \in 1..Len(t) : u[Len(s) + i] = t[i] /\ t[i] \in Nat
    OBVIOUS
  <1> HIDE DEF u
  <1>2. PICK f : IsSum(f, s, Len(s)) /\ Bytes(s) = f[Len(s)]
    BY <1>1, BytesIsSum
  <1>3. PICK g : IsSum(g, t, Len(t)) /\ Bytes(t) = g[Len(t)]
    BY <1>1, BytesIsSum
  <1>4. PICK h : IsSum(h, u, Len(u)) /\ Bytes(u) = h[Len(u)]
    BY <1>1, BytesIsSum
  <1>5. h[Len(s)] = f[Len(s)] /\ f[Len(s)] \in Nat
    <2>1. \A i \in 0..Len(s) : f[i] = h[i]
      <3> DEFINE T == {i \in 0..Len(s) : f[i] # h[i]}
      <3> SUFFICES ASSUME T # {} PROVE FALSE
        OBVIOUS
      <3>0. T \subseteq Nat
        BY <1>1
      <3>1. PICK i \in T : \A j \in T : i <= j
        <4> HIDE DEF T
        <4> QED
          BY <3>0, LeastNatural
      <3>2. i \in 0..Len(s) /\ i \in 0..Len(u) /\ f[i] # h[i]
        BY <1>1
      <3>3. f[i] = IF i = 0 THEN 0 ELSE f[i - 1] + s[i]
        BY <1>2, <3>2 DEF IsSum
      <3>4. h[i] = IF i = 0 THEN 0 ELSE h[i - 1] + u[i]
        BY <1>4, <3>2 DEF IsSum
      <3>5. i # 0 => i - 1 \in 0..Len(s) /\ i - 1 \notin T /\ i \in 1..Len(s)
        <4>1. i # 0 => i - 1 \in 0..Len(s) /\ i \in 1..Len(s) /\ ~(i <= i - 1)
          BY <1>1, <3>2
        <4> QED
          BY <3>1, <4>1
      <3>6. i # 0 => f[i - 1] = h[i - 1] /\ u[i] = s[i]
        BY <1>1, <3>5
      <3> QED
        BY <3>2, <3>3, <3>4, <3>6
    <2>2. \A i \in 0..Len(s) : f[i] \in Nat
      BY <1>1, <1>2, SumsNatural
    <2> QED
      BY <1>1, <2>1, <2>2
  <1>6. \A i \in 0..Len(t) : g[i] \in Nat
    BY <1>1, <1>3, SumsNatural
  <1>7. \A i \in 0..Len(t) : h[Len(s) + i] = f[Len(s)] + g[i]
    <2> DEFINE T == {i \in 0..Len(t) : h[Len(s) + i] # f[Len(s)] + g[i]}
    <2> SUFFICES ASSUME T # {} PROVE FALSE
      OBVIOUS
    <2>0. T \subseteq Nat
      BY <1>1
    <2>1. PICK i \in T : \A j \in T : i <= j
      <3> HIDE DEF T
      <3> QED
        BY <2>0, LeastNatural
    <2>2. i \in 0..Len(t) /\ h[Len(s) + i] # f[Len(s)] + g[i]
      OBVIOUS
    <2>3. i # 0
      <3>1. g[0] = 0
        BY <1>1, <1>3 DEF IsSum
      <3> QED
        BY <1>1, <1>5, <2>2, <3>1
    <2>4. i - 1 \in 0..Len(t) /\ i - 1 \notin T /\ i \in 1..Len(t) /\ i - 1 \in Nat
      <3>1. i \in 0..Len(t) /\ Len(t) \in Nat /\ i # 0
        BY <1>1, <2>2, <2>3
      <3>2. i - 1 \in 0..Len(t) /\ i \in 1..Len(t) /\ i - 1 \in Nat /\ ~(i <= i - 1)
        BY ONLY <3>1
      <3> QED
        BY <2>1, <3>2
    <2>5. h[Len(s) + (i - 1)] = f[Len(s)] + g[i - 1]
      BY <2>4
    <2>6. g[i] = g[i - 1] + t[i]
      BY <1>3, <2>2, <2>3 DEF IsSum
    <2>7. Len(s) + i \in 0..Len(u) /\ Len(s) + i # 0
      <3>1. /\ Len(u) = Len(s) + Len(t) /\ Len(s) \in Nat /\ Len(t) \in Nat
            /\ i \in 1..Len(t)
        BY <1>1, <2>4
      <3> QED
        BY ONLY <3>1
    <2>8. h[Len(s) + i] = h[(Len(s) + i) - 1] + u[Len(s) + i]
      BY <1>4, <2>7 DEF IsSum
    <2>9. (Len(s) + i) - 1 = Len(s) + (i - 1) /\ u[Len(s) + i] = t[i] /\ t[i] \in Nat
      BY <1>1, <2>4
    <2>10. g[i - 1] \in Nat /\ f[Len(s)] \in Nat
      BY <1>5, <1>6, <2>4
    <2>11. h[Len(s) + i] = (f[Len(s)] + g[i - 1]) + t[i]
      BY <2>5, <2>8, <2>9
    <2>12. f[Len(s)] + g[i] = (f[Len(s)] + g[i - 1]) + t[i]
      BY <2>6, <2>9, <2>10
    <2> QED
      BY <2>2, <2>11, <2>12
  <1> QED
    BY <1>1, <1>2, <1>3, <1>4, <1>7 DEF u


\* What is retained of a request.
Retained == [request : Requests, records : Seq(Sizes)]

SizesOf(queue) == [i \in 1..Len(queue) |-> Bytes(queue[i].records)]

LEMMA SizesPositive == Sizes \subseteq Nat \ {0}
  BY TranscriptAssumption

LEMMA RecordsNatural ==
    ASSUME NEW s \in Seq(Sizes)
    PROVE  s \in Seq(Nat) /\ Bytes(s) \in Nat
  <1>1. Sizes \subseteq Nat
    BY TranscriptAssumption
  <1>2. s \in Seq(Nat)
    BY <1>1, SeqMonotonic
  <1> QED
    BY <1>2, BytesNatural

LEMMA SizesNatural ==
    ASSUME NEW q \in Seq(Retained)
    PROVE  /\ SizesOf(q) \in Seq(Nat) /\ Len(SizesOf(q)) = Len(q)
           /\ \A i \in 1..Len(q) : SizesOf(q)[i] = Bytes(q[i].records)
           /\ TotalBytes(q) = Bytes(SizesOf(q)) /\ TotalBytes(q) \in Nat
  <1>1. Len(q) \in Nat
    OBVIOUS
  <1>2. ASSUME NEW i \in 1..Len(q)
        PROVE  Bytes(q[i].records) \in Nat
    <2>1. q[i] \in Retained
      BY ElementOfSeq
    <2>2. q[i].records \in Seq(Sizes)
      BY <2>1 DEF Retained
    <2> QED
      BY <2>2, RecordsNatural
  <1>3. SizesOf(q) \in Seq(Nat)
    BY <1>1, <1>2 DEF SizesOf
  <1>4. TotalBytes(q) = Bytes(SizesOf(q))
    BY DEF TotalBytes, SizesOf
  <1>5. Len(SizesOf(q)) = Len(q) /\ \A i \in 1..Len(q) : SizesOf(q)[i] = Bytes(q[i].records)
    BY <1>1 DEF SizesOf
  <1> QED
    BY <1>3, <1>4, <1>5, BytesNatural

LEMMA TotalEmpty == TotalBytes(<< >>) = 0
  <1>1. << >> \in Seq(Retained)
    OBVIOUS
  <1>2. SizesOf(<< >>) = << >>
    BY DEF SizesOf
  <1> QED
    BY <1>1, <1>2, SizesNatural, BytesEmpty

LEMMA TotalConcat ==
    ASSUME NEW p \in Seq(Retained), NEW q \in Seq(Retained)
    PROVE  TotalBytes(p \o q) = TotalBytes(p) + TotalBytes(q)
  <1>1. p \o q \in Seq(Retained)
    OBVIOUS
  <1>2. SizesOf(p \o q) = SizesOf(p) \o SizesOf(q)
    <2>1. /\ Len(p) \in Nat /\ Len(q) \in Nat /\ Len(p \o q) = Len(p) + Len(q)
          /\ \A i \in 1..(Len(p) + Len(q)) :
                (p \o q)[i] = IF i <= Len(p) THEN p[i] ELSE q[i - Len(p)]
      OBVIOUS
    <2> DEFINE a == SizesOf(p)
               b == SizesOf(q)
    <2>2. /\ a \in Seq(Nat) /\ Len(a) = Len(p)
          /\ \A i \in 1..Len(p) : a[i] = Bytes(p[i].records)
      BY <2>1, SizesNatural
    <2>6. /\ b \in Seq(Nat) /\ Len(b) = Len(q)
          /\ \A i \in 1..Len(q) : b[i] = Bytes(q[i].records)
      BY <2>1, SizesNatural
    <2> HIDE DEF a, b
    <2>3. /\ a \o b \in Seq(Nat) /\ Len(a \o b) = Len(p) + Len(q)
          /\ \A i \in 1..(Len(p) + Len(q)) :
                (a \o b)[i] = IF i <= Len(p) THEN a[i] ELSE b[i - Len(p)]
      BY <2>2, <2>6, ConcatProperties
    <2>4. ASSUME NEW i \in 1..(Len(p) + Len(q))
          PROVE  SizesOf(p \o q)[i] = (a \o b)[i]
      <3>0. SizesOf(p \o q)[i] = Bytes((p \o q)[i].records)
        BY <2>1 DEF SizesOf
      <3>1. CASE i <= Len(p)
        <4>1. i \in 1..Len(p) /\ (p \o q)[i] = p[i]
          BY <2>1, <3>1
        <4> QED
          BY <2>2, <2>3, <3>0, <3>1, <4>1
      <3>2. CASE ~(i <= Len(p))
        <4>1. i - Len(p) \in 1..Len(q) /\ (p \o q)[i] = q[i - Len(p)]
          BY <2>1, <3>2
        <4> QED
          BY <2>3, <2>6, <3>0, <3>2, <4>1
      <3> QED
        BY <3>1, <3>2
    <2>5. SizesOf(p \o q) \in Seq(Nat) /\ Len(SizesOf(p \o q)) = Len(p) + Len(q)
      BY <1>1, <2>1, SizesNatural
    <2> QED
      BY <2>3, <2>4, <2>5, SeqEqual DEF a, b
  <1> QED
    BY <1>1, <1>2, SizesNatural, BytesConcat

LEMMA BytesOne ==
    ASSUME NEW s, Len(s) = 1, s[1] \in Nat
    PROVE  Bytes(s) = s[1]
  <1>1. Len(s) \in Nat
    OBVIOUS
  <1>2. PICK f : IsSum(f, s, 1) /\ Bytes(s) = f[1]
    BY <1>1, BytesIsSum
  <1>3. f[0] = 0 /\ f[1] = f[0] + s[1]
    BY <1>2 DEF IsSum
  <1> QED
    BY <1>2, <1>3

LEMMA TotalOne ==
    ASSUME NEW x \in Retained
    PROVE  TotalBytes(<<x>>) = Bytes(x.records) /\ Bytes(x.records) \in Nat
  <1>1. <<x>> \in Seq(Retained) /\ Len(<<x>>) = 1 /\ <<x>>[1] = x
    OBVIOUS
  <1>2. Bytes(x.records) \in Nat
    BY RecordsNatural DEF Retained
  <1> DEFINE s == SizesOf(<<x>>)
  <1>3. Len(s) = 1 /\ s[1] = Bytes(x.records)
    BY <1>1 DEF SizesOf
  <1>4. TotalBytes(<<x>>) = Bytes(s)
    BY <1>1, SizesNatural
  <1> HIDE DEF s
  <1> QED
    BY <1>2, <1>3, <1>4, BytesOne

LEMMA TotalAppend ==
    ASSUME NEW q \in Seq(Retained), NEW x \in Retained
    PROVE  TotalBytes(Append(q, x)) = TotalBytes(q) + Bytes(x.records)
  <1>1. <<x>> \in Seq(Retained) /\ Append(q, x) = q \o <<x>>
    OBVIOUS
  <1> QED
    BY <1>1, TotalConcat, TotalOne

\* A queue cut after its first k entries.
LEMMA TotalSplit ==
    ASSUME NEW q \in Seq(Retained), NEW k \in 0..Len(q)
    PROVE  /\ SubSeq(q, 1, k) \in Seq(Retained)
           /\ SubSeq(q, k + 1, Len(q)) \in Seq(Retained)
           /\ q = SubSeq(q, 1, k) \o SubSeq(q, k + 1, Len(q))
           /\ TotalBytes(q) = TotalBytes(SubSeq(q, 1, k)) + TotalBytes(SubSeq(q, k + 1, Len(q)))
  <1>1. SubSeq(q, 1, k) \in Seq(Retained) /\ Len(SubSeq(q, 1, k)) = k
    OBVIOUS
  <1>2. SubSeq(q, k + 1, Len(q)) \in Seq(Retained) /\ Len(SubSeq(q, k + 1, Len(q))) = Len(q) - k
    OBVIOUS
  <1>3. q = SubSeq(q, 1, k) \o SubSeq(q, k + 1, Len(q))
    <2>1. 1 \in 1..(Len(q) + 1) /\ k \in (1 - 1)..Len(q) /\ Len(q) \in k..Len(q)
      OBVIOUS
    <2> QED
      BY <2>1, ConcatAdjacentSubSeq, SubSeqFull
  <1>4. TotalBytes(SubSeq(q, 1, k) \o SubSeq(q, k + 1, Len(q)))
            = TotalBytes(SubSeq(q, 1, k)) + TotalBytes(SubSeq(q, k + 1, Len(q)))
    BY <1>1, <1>2, TotalConcat
  <1> QED
    BY <1>1, <1>2, <1>3, <1>4

\* The entries of a queue without its first k.
LEMMA SuffixEntries ==
    ASSUME NEW q \in Seq(Retained), NEW k \in 0..Len(q)
    PROVE  /\ Len(SubSeq(q, k + 1, Len(q))) = Len(q) - k
           /\ \A j \in 1..(Len(q) - k) : SubSeq(q, k + 1, Len(q))[j] = q[k + j]
  OBVIOUS

\* What remove_finished leaves, and what it takes off the size.
LEMMA RemoveEntry ==
    ASSUME NEW q \in Seq(Retained), NEW i \in 1..Len(q)
    PROVE  /\ RemoveAt(q, i) \in Seq(Retained)
           /\ Len(RemoveAt(q, i)) = Len(q) - 1
           /\ \A j \in 1..(Len(q) - 1) :
                 RemoveAt(q, i)[j] = q[IF j < i THEN j ELSE j + 1]
           /\ TotalBytes(RemoveAt(q, i)) = TotalBytes(q) - Bytes(q[i].records)
  <1> DEFINE a == SubSeq(q, 1, i - 1)
             b == SubSeq(q, i + 1, Len(q))
             c == SubSeq(q, (i - 1) + 1, Len(q))
  <1>0. i - 1 \in 0..Len(q) /\ i \in 0..Len(q) /\ (i - 1) + 1 = i /\ Len(q) \in Nat /\ i \in i..Len(q)
    OBVIOUS
  <1>1. /\ a \in Seq(Retained) /\ c \in Seq(Retained)
        /\ TotalBytes(q) = TotalBytes(a) + TotalBytes(c)
    BY <1>0, TotalSplit
  <1>2. b \in Seq(Retained) /\ Len(b) = Len(q) - i /\ \A j \in 1..(Len(q) - i) : b[j] = q[i + j]
    BY <1>0, TotalSplit, SuffixEntries
  <1>3. c = <<q[i]>> \o b
    BY <1>0, SubSeqRecursiveFirst
  <1>4. Len(a) = i - 1 /\ \A j \in 1..(i - 1) : a[j] = q[j]
    OBVIOUS
  <1>5. q[i] \in Retained /\ <<q[i]>> \in Seq(Retained)
    BY ElementOfSeq
  <1>6. RemoveAt(q, i) = a \o b
    BY DEF RemoveAt
  <1> HIDE DEF a, b, c
  <1>7. TotalBytes(c) = Bytes(q[i].records) + TotalBytes(b) /\ Bytes(q[i].records) \in Nat
    BY <1>2, <1>3, <1>5, TotalConcat, TotalOne
  <1>8. TotalBytes(a \o b) = TotalBytes(a) + TotalBytes(b)
    BY <1>1, <1>2, TotalConcat
  <1>9. TotalBytes(a) \in Nat /\ TotalBytes(b) \in Nat
    BY <1>1, <1>2, SizesNatural
  <1>10. TotalBytes(RemoveAt(q, i)) = TotalBytes(q) - Bytes(q[i].records)
    BY <1>1, <1>6, <1>7, <1>8, <1>9
  <1>11. /\ a \o b \in Seq(Retained) /\ Len(a \o b) = (i - 1) + (Len(q) - i)
         /\ \A j \in 1..((i - 1) + (Len(q) - i)) :
               (a \o b)[j] = IF j <= i - 1 THEN a[j] ELSE b[j - (i - 1)]
    <2>1. /\ a \o b \in Seq(Retained) /\ Len(a \o b) = Len(a) + Len(b)
          /\ \A j \in 1..(Len(a) + Len(b)) :
                (a \o b)[j] = IF j <= Len(a) THEN a[j] ELSE b[j - Len(a)]
      BY <1>1, <1>2, ConcatProperties
    <2>2. Len(a) = i - 1 /\ Len(b) = Len(q) - i
      BY <1>2, <1>4
    <2> QED
      BY <2>1, <2>2
  <1>12. (i - 1) + (Len(q) - i) = Len(q) - 1
    BY <1>0
  <1>13. ASSUME NEW j \in 1..(Len(q) - 1)
         PROVE  (a \o b)[j] = q[IF j < i THEN j ELSE j + 1]
    <2>1. CASE j < i
      <3>1. j \in 1..(i - 1) /\ j <= i - 1
        BY <1>0, <2>1
      <3> QED
        BY <1>4, <1>11, <1>12, <2>1, <3>1
    <2>2. CASE ~(j < i)
      <3>1. ~(j <= i - 1) /\ j - (i - 1) \in 1..(Len(q) - i) /\ i + (j - (i - 1)) = j + 1
        BY <1>0, <2>2
      <3> QED
        BY <1>2, <1>11, <1>12, <2>2, <3>1
    <2> QED
      BY <2>1, <2>2
  <1> QED
    BY <1>6, <1>10, <1>11, <1>12, <1>13

\* The eviction stops, at the latest when nothing is left, and leaves what
\* both bounds allow.
LEMMA EvictionFits ==
    ASSUME NEW q \in Seq(Retained)
    PROVE  /\ Evicted(q) \in 0..Len(q)
           /\ WithinBounds(SubSeq(q, Evicted(q) + 1, Len(q)))
  <1> DEFINE fits(k) == WithinBounds(SubSeq(q, k + 1, Len(q)))
             T == {k \in 0..Len(q) : fits(k)}
  <1>1. T \subseteq Nat
    OBVIOUS
  <1>2. Len(q) \in T
    <2>1. Len(q) \in 0..Len(q) /\ SubSeq(q, Len(q) + 1, Len(q)) = << >>
      OBVIOUS
    <2>2. WithinBounds(<< >>)
      BY TotalEmpty, TranscriptAssumption DEF WithinBounds
    <2> QED
      BY <2>1, <2>2
  <1>3. PICK k \in T : \A j \in T : k <= j
    <2> HIDE DEF T
    <2> QED
      BY <1>1, <1>2, LeastNatural
  <1>4. k \in 0..Len(q) /\ fits(k)
    OBVIOUS
  <1>5. \A j \in 0..(k - 1) : ~fits(j)
    <2> SUFFICES ASSUME NEW j \in 0..(k - 1), fits(j) PROVE FALSE
      OBVIOUS
    <2>1. j \in 0..Len(q) /\ ~(k <= j)
      BY <1>4
    <2> QED
      BY <1>3, <2>1
  <1>6. \E n \in 0..Len(q) : fits(n) /\ \A j \in 0..(n - 1) : ~fits(j)
    BY <1>4, <1>5
  <1> HIDE DEF T
  <1> QED
    BY <1>6 DEF Evicted

----------------------------------------------------------------------------
(* Pages: a reader accepts whatever is cut from the transcript it reads.   *)

Readers == [after : Nat, records : Seq(Sizes), sequence : Nat, part : Nat,
            total : Nat, consistent : BOOLEAN]

\* What a reader holds is what the given records begin with.
ReaderAt(rd, records) ==
    /\ rd.consistent
    /\ rd.after <= Len(records)
    /\ rd.records = SubSeq(records, 1, rd.after)
    /\ rd.part > 0 =>
          /\ rd.after < Len(records)
          /\ rd.sequence = rd.after + 1
          /\ rd.total = records[rd.after + 1]
          /\ rd.part < rd.total

\* More of the records extend what a reader holds of them.
LEMMA PrefixExtends ==
    ASSUME NEW R \in Seq(Sizes), NEW a \in Nat, NEW j \in Nat, a + j <= Len(R),
           NEW s, s = [k \in 1..j |-> R[a + k]]
    PROVE  SubSeq(R, 1, a) \o s = SubSeq(R, 1, a + j)
  <1>1. /\ SubSeq(R, 1, a) \in Seq(Sizes) /\ Len(SubSeq(R, 1, a)) = a
        /\ \A i \in 1..a : SubSeq(R, 1, a)[i] = R[i]
    OBVIOUS
  <1>2. /\ SubSeq(R, 1, a + j) \in Seq(Sizes) /\ Len(SubSeq(R, 1, a + j)) = a + j
        /\ \A i \in 1..(a + j) : SubSeq(R, 1, a + j)[i] = R[i]
    OBVIOUS
  <1>3. s \in Seq(Sizes) /\ Len(s) = j /\ \A k \in 1..j : s[k] = R[a + k]
    <2>1. \A k \in 1..j : R[a + k] \in Sizes
      OBVIOUS
    <2> QED
      BY <2>1
  <1> DEFINE p == SubSeq(R, 1, a)
             q == SubSeq(R, 1, a + j)
  <1> HIDE DEF p, q
  <1>4. /\ p \in Seq(Sizes) /\ Len(p) = a /\ \A i \in 1..a : p[i] = R[i]
        /\ q \in Seq(Sizes) /\ Len(q) = a + j /\ \A i \in 1..(a + j) : q[i] = R[i]
    BY <1>1, <1>2 DEF p, q
  <1>5. /\ p \o s \in Seq(Sizes) /\ Len(p \o s) = Len(p) + Len(s)
        /\ \A i \in 1..(Len(p) + Len(s)) :
              (p \o s)[i] = IF i <= Len(p) THEN p[i] ELSE s[i - Len(p)]
    <2>1. p \in Seq(Sizes) /\ s \in Seq(Sizes)
      BY <1>3, <1>4
    <2> QED
      BY ONLY <2>1, ConcatProperties
  <1>6. ASSUME NEW i \in 1..(a + j)
        PROVE  (p \o s)[i] = q[i]
    <2>1. (p \o s)[i] = IF i <= a THEN p[i] ELSE s[i - a]
      BY <1>3, <1>4, <1>5
    <2>2. CASE i <= a
      <3>1. i \in 1..a
        BY <2>2
      <3> QED
        BY <1>4, <2>1, <2>2, <3>1
    <2>3. CASE ~(i <= a)
      <3>1. i - a \in 1..j /\ a + (i - a) = i
        BY <2>3
      <3> QED
        BY <1>3, <1>4, <2>1, <2>3, <3>1
    <2> QED
      BY <2>2, <2>3
  <1>7. Len(p \o s) = a + j
    BY <1>3, <1>4, <1>5
  <1> QED
    BY <1>4, <1>5, <1>6, <1>7, SeqEqual DEF p, q

\* What the reader knows of a page that ends within record n.
LEMMA PageEntries ==
    ASSUME NEW rd \in Readers, NEW R \in Seq(Sizes), ReaderAt(rd, R),
           NEW n \in (rd.after + 1)..Len(R),
           NEW length \in 1..(R[n] - Delivered(CursorOf(rd), n)),
           NEW fs, fs = PageTo(R, CursorOf(rd), n, length)
    PROVE  LET m == n - rd.after IN
           /\ m \in Nat \ {0} /\ Len(fs) = m /\ fs = [k \in 1..m |-> fs[k]]
           /\ \A k \in 1..m :
                 /\ fs[k].sequence = rd.after + k
                 /\ fs[k].total = R[rd.after + k] /\ fs[k].total \in Sizes
                 /\ fs[k].offset = IF k = 1 THEN rd.part ELSE 0
                 /\ fs[k].length \in Nat \ {0}
                 /\ fs[k].offset + fs[k].length <= fs[k].total
                 /\ k # m => EndsRecord(fs[k])
           /\ fs[m].length = length
  <1> DEFINE a == rd.after
             m == n - a
             c == CursorOf(rd)
  <1>1. a \in Nat /\ rd.part \in Nat /\ Len(R) \in Nat /\ n \in Nat /\ n >= a + 1 /\ n <= Len(R)
    BY DEF Readers
  <1>2. m \in Nat \ {0}
    BY <1>1
  <1>3. \A k \in 1..m : a + k \in 1..Len(R) /\ R[a + k] \in Sizes /\ R[a + k] \in Nat \ {0}
    <2> SUFFICES ASSUME NEW k \in 1..m
                 PROVE  a + k \in 1..Len(R) /\ R[a + k] \in Sizes /\ R[a + k] \in Nat \ {0}
      OBVIOUS
    <2>1. a + k \in 1..Len(R)
      BY <1>1
    <2>2. R[a + k] \in Sizes
      BY <2>1, ElementOfSeq
    <2> QED
      BY <2>1, <2>2, TranscriptAssumption
  <1>4. c.after = a /\ c.offset = rd.part
    BY DEF CursorOf
  <1>5. rd.part > 0 => rd.part < R[a + 1]
    BY DEF ReaderAt
  <1>6. Len(fs) = m /\ fs = [k \in 1..m |-> fs[k]]
    BY <1>2, <1>4 DEF PageTo
  <1>7. ASSUME NEW k \in 1..m
        PROVE  /\ fs[k].sequence = a + k
               /\ fs[k].total = R[a + k]
               /\ fs[k].offset = Delivered(c, a + k)
               /\ fs[k].length = IF a + k = n THEN length ELSE R[a + k] - Delivered(c, a + k)
    BY <1>4 DEF PageTo
  <1>8. ASSUME NEW k \in 1..m
        PROVE  /\ Delivered(c, a + k) = IF k = 1 THEN rd.part ELSE 0
               /\ Delivered(c, a + k) \in Nat
               /\ Delivered(c, a + k) < R[a + k]
    <2>1. Delivered(c, a + k) = IF k = 1 THEN rd.part ELSE 0
      BY <1>1, <1>4 DEF Delivered
    <2>2. R[a + k] \in Nat \ {0}
      BY <1>3
    <2>3. 1 \in 1..m /\ R[a + 1] \in Nat \ {0}
      BY <1>2, <1>3
    <2>4. rd.part \in Nat
      BY <1>1
    <2>5. CASE k = 1
      <3>1. Delivered(c, a + k) = rd.part /\ R[a + k] = R[a + 1]
        BY <2>1, <2>5
      <3> QED
        BY <1>5, <2>1, <2>3, <2>4, <3>1
    <2>6. CASE k # 1
      <3>1. Delivered(c, a + k) = 0
        BY <2>1, <2>6
      <3> QED
        BY <2>1, <2>2, <3>1
    <2> QED
      BY <2>5, <2>6
  <1>9. a + m = n /\ m \in 1..m /\ \A k \in 1..m : a + k = n <=> k = m
    <2>1. a \in Nat /\ n \in Nat /\ n >= a + 1
      BY <1>1
    <2>2. a + m = n /\ m \in 1..m
      BY <2>1
    <2>3. ASSUME NEW k \in 1..m PROVE a + k = n <=> k = m
      BY <2>1
    <2> QED
      BY <2>2, <2>3
  <1>10. length \in Nat \ {0} /\ Delivered(c, n) + length <= R[n]
    <2>1. Delivered(c, n) \in Nat /\ R[n] \in Nat /\ length \in 1..(R[n] - Delivered(c, n))
      BY <1>3, <1>8, <1>9
    <2> QED
      BY <2>1
  <1> HIDE DEF a, m, c
  <1>11. ASSUME NEW k \in 1..m
         PROVE  /\ fs[k].length \in Nat \ {0}
                /\ fs[k].offset + fs[k].length <= fs[k].total
                /\ k # m => EndsRecord(fs[k])
    <2>1. R[a + k] \in Nat /\ Delivered(c, a + k) \in Nat /\ Delivered(c, a + k) < R[a + k]
      BY <1>3, <1>8
    <2>2. CASE k = m
      <3>1. /\ fs[k].length = length /\ fs[k].total = R[n] /\ fs[k].offset = Delivered(c, n)
        BY <1>7, <1>9, <2>2
      <3> QED
        BY <1>10, <2>2, <3>1
    <2>3. CASE k # m
      <3>1. /\ fs[k].length = R[a + k] - Delivered(c, a + k)
            /\ fs[k].total = R[a + k] /\ fs[k].offset = Delivered(c, a + k)
        BY <1>7, <1>9, <2>3
      <3>2. R[a + k] - Delivered(c, a + k) \in Nat \ {0}
        BY <2>1
      <3> QED
        BY <2>1, <3>1, <3>2 DEF EndsRecord
    <2> QED
      BY <2>2, <2>3
  <1>12. fs[m].length = length
    BY <1>7, <1>9
  <1>13. ASSUME NEW k \in 1..m
         PROVE  /\ fs[k].sequence = a + k
                /\ fs[k].total = R[a + k] /\ fs[k].total \in Sizes
                /\ fs[k].offset = IF k = 1 THEN rd.part ELSE 0
    BY <1>3, <1>7, <1>8
  <1> QED
    BY <1>2, <1>6, <1>11, <1>12, <1>13 DEF a, m

\* Every fragment of such a page continues the stream.
LEMMA PageContinues ==
    ASSUME NEW rd \in Readers, NEW R \in Seq(Sizes), ReaderAt(rd, R),
           NEW n \in (rd.after + 1)..Len(R),
           NEW length \in 1..(R[n] - Delivered(CursorOf(rd), n)),
           NEW fs, fs = PageTo(R, CursorOf(rd), n, length)
    PROVE  /\ fs # << >> /\ Continues(rd, fs[1])
           /\ \A k \in 2..Len(fs) : Follows(fs[k - 1], fs[k])
           /\ \A k \in 1..Len(fs) :
                 fs[k].length > 0 /\ fs[k].offset + fs[k].length <= fs[k].total
  <1> DEFINE a == rd.after
             m == n - a
  <1>1. /\ m \in Nat \ {0} /\ Len(fs) = m
        /\ \A k \in 1..m :
              /\ fs[k].sequence = a + k
              /\ fs[k].total = R[a + k]
              /\ fs[k].offset = IF k = 1 THEN rd.part ELSE 0
              /\ fs[k].length \in Nat \ {0}
              /\ fs[k].offset + fs[k].length <= fs[k].total
              /\ k # m => EndsRecord(fs[k])
    BY PageEntries
  <1>2. a \in Nat /\ rd.part \in Nat
    BY DEF Readers
  <1>3. rd.part > 0 => rd.sequence = a + 1 /\ rd.total = R[a + 1]
    BY DEF ReaderAt
  <1> HIDE DEF m
  <1>4. Continues(rd, fs[1])
    <2>1. 1 \in 1..m
      BY <1>1
    <2>2. fs[1].sequence = a + 1 /\ fs[1].total = R[a + 1] /\ fs[1].offset = rd.part
      BY <1>1, <2>1
    <2> QED
      BY <1>2, <1>3, <2>2 DEF Continues
  <1>5. ASSUME NEW k \in 2..m
        PROVE  Follows(fs[k - 1], fs[k])
    <2>1. k \in 1..m /\ k - 1 \in 1..m /\ k - 1 # m /\ k # 1
      BY <1>1
    <2>2. EndsRecord(fs[k - 1]) /\ fs[k - 1].sequence = a + (k - 1)
      BY <1>1, <2>1
    <2>3. fs[k].sequence = a + k /\ fs[k].offset = 0
      BY <1>1, <2>1
    <2> QED
      BY <1>2, <2>2, <2>3 DEF Follows
  <1>6. fs # << >>
    BY <1>1
  <1>7. \A k \in 1..m : fs[k].length > 0 /\ fs[k].offset + fs[k].length <= fs[k].total
    BY <1>1
  <1> QED
    BY <1>1, <1>4, <1>5, <1>6, <1>7

\* A reader that has come to the end of record n, and one that holds a part
\* of it.
AtEnd(rd, R, n) == [rd EXCEPT !.after = n, !.records = SubSeq(R, 1, n),
                              !.sequence = n, !.total = R[n], !.part = 0]
AtCut(rd, R, n, part) == [rd EXCEPT !.after = n - 1, !.records = SubSeq(R, 1, n - 1),
                                    !.sequence = n, !.total = R[n], !.part = part]

\* A page that ends a record: the reader holds everything up to there.
LEMMA AbsorbedToEnd ==
    ASSUME NEW rd \in Readers, NEW R \in Seq(Sizes), ReaderAt(rd, R),
           NEW n \in (rd.after + 1)..Len(R),
           NEW length \in 1..(R[n] - Delivered(CursorOf(rd), n)),
           NEW fs, fs = PageTo(R, CursorOf(rd), n, length),
           EndsRecord(Last(fs))
    PROVE  /\ Absorbed(rd, fs) = AtEnd(rd, R, n)
           /\ NextCursor(CursorOf(rd), fs) = [after |-> n, offset |-> 0]
  <1> DEFINE a == rd.after
             m == n - a
  <1>1. /\ m \in Nat \ {0} /\ Len(fs) = m
        /\ \A k \in 1..m : fs[k].sequence = a + k /\ fs[k].total = R[a + k]
        /\ fs # << >>
    BY PageEntries, PageContinues
  <1>2. a \in Nat /\ n \in Nat /\ n <= Len(R) /\ rd.records = SubSeq(R, 1, a)
    BY DEF Readers, ReaderAt
  <1>3. a + m = n /\ m \in 1..m
    BY <1>1, <1>2
  <1>4. Last(fs) = fs[m] /\ Last(fs).sequence = n /\ Last(fs).total = R[n]
    BY <1>1, <1>3 DEF Last
  <1>5. rd.records \o [k \in 1..Len(fs) |-> fs[k].total] = SubSeq(R, 1, n)
    <2>1. [k \in 1..Len(fs) |-> fs[k].total] = [k \in 1..m |-> R[a + k]]
      BY <1>1
    <2> DEFINE s == [k \in 1..m |-> R[a + k]]
    <2>2. m \in Nat /\ a \in Nat /\ a + m <= Len(R)
      BY <1>1, <1>2, <1>3
    <2> HIDE DEF a, m
    <2>3. SubSeq(R, 1, a) \o s = SubSeq(R, 1, a + m)
      BY <2>2, PrefixExtends
    <2> HIDE DEF s
    <2> QED
      BY <1>2, <1>3, <2>1, <2>3 DEF s
  <1>6. Absorbed(rd, fs) = AtEnd(rd, R, n)
    <2>1. Absorbed(rd, fs) = [rd EXCEPT !.after = Last(fs).sequence,
                              !.records = rd.records \o [k \in 1..Len(fs) |-> fs[k].total],
                              !.sequence = Last(fs).sequence, !.total = Last(fs).total, !.part = 0]
      BY <1>1 DEF Absorbed
    <2> QED
      BY <1>4, <1>5, <2>1 DEF AtEnd
  <1>7. NextCursor(CursorOf(rd), fs) = [after |-> n, offset |-> 0]
    <2>1. Last(fs).offset + Last(fs).length = Last(fs).total
      BY DEF EndsRecord
    <2>2. R[n] \in Nat
      <3>1. n \in 1..Len(R)
        BY <1>2, <1>3
      <3> QED
        BY <3>1, ElementOfSeq, TranscriptAssumption
    <2>3. ~(Last(fs).offset + Last(fs).length < Last(fs).total)
      BY <1>4, <2>1, <2>2
    <2> QED
      BY <1>1, <1>4, <2>3 DEF NextCursor
  <1> QED
    BY <1>6, <1>7

\* A page that cuts record n: the reader holds the whole ones before it.
LEMMA AbsorbedToCut ==
    ASSUME NEW rd \in Readers, NEW R \in Seq(Sizes), ReaderAt(rd, R),
           NEW n \in (rd.after + 1)..Len(R),
           NEW length \in 1..(R[n] - Delivered(CursorOf(rd), n)),
           NEW fs, fs = PageTo(R, CursorOf(rd), n, length),
           ~EndsRecord(Last(fs))
    PROVE  \E part \in 1..(R[n] - 1) :
           /\ Absorbed(rd, fs) = AtCut(rd, R, n, part)
           /\ NextCursor(CursorOf(rd), fs) = [after |-> n - 1, offset |-> part]
           /\ n = rd.after + 1 => part > rd.part
  <1> DEFINE a == rd.after
             m == n - a
             f == Last(fs)
             part == f.offset + f.length
             whole == Front(fs)
  <1>0. a \in Nat /\ n \in Nat /\ n <= Len(R) /\ rd.records = SubSeq(R, 1, a) /\ rd.part \in Nat
    BY DEF Readers, ReaderAt
  <1>1. /\ m \in Nat \ {0} /\ Len(fs) = m /\ fs = [k \in 1..m |-> fs[k]]
        /\ \A k \in 1..m :
              /\ fs[k].sequence = a + k /\ fs[k].total = R[a + k] /\ fs[k].total \in Sizes
              /\ fs[k].offset = IF k = 1 THEN rd.part ELSE 0
              /\ fs[k].length \in Nat \ {0}
              /\ fs[k].offset + fs[k].length <= fs[k].total
        /\ fs # << >>
    BY PageEntries, PageContinues
  <1>2. a + m = n /\ m \in 1..m /\ a + (m - 1) = n - 1 /\ m - 1 \in Nat
    <2>1. m \in Nat \ {0}
      BY <1>1
    <2>2. a \in Nat /\ n \in Nat
      BY <1>0
    <2> QED
      BY ONLY <2>1, <2>2
  <1> HIDE DEF a, m
  <1>3. /\ f = fs[m] /\ f.sequence = n /\ f.total = R[n] /\ f.total \in Nat
        /\ f.length \in Nat \ {0} /\ f.offset \in Nat /\ part <= f.total
    <2>1. f = fs[m]
      BY <1>1 DEF Last
    <2>2. /\ fs[m].sequence = a + m /\ fs[m].total = R[a + m] /\ fs[m].total \in Sizes
          /\ fs[m].offset = IF m = 1 THEN rd.part ELSE 0
          /\ fs[m].length \in Nat \ {0}
          /\ fs[m].offset + fs[m].length <= fs[m].total
      BY <1>1, <1>2
    <2>3. fs[m].total \in Nat /\ fs[m].offset \in Nat
      <3>1. fs[m].total \in Nat
        BY <2>2, SizesPositive
      <3>2. fs[m].offset \in Nat
        BY <1>0, <2>2
      <3> QED
        BY <3>1, <3>2
    <2>4. fs[m].sequence = n /\ fs[m].total = R[n]
      BY <1>2, <2>2
    <2> HIDE DEF f
    <2> QED
      BY <2>1, <2>2, <2>3, <2>4
  <1>4. part # f.total /\ part \in 1..(R[n] - 1) /\ part < f.total
    <2>1. part # f.total
      BY DEF EndsRecord
    <2>2. part \in Nat \ {0}
      <3>1. f.length \in Nat \ {0} /\ f.offset \in Nat
        BY <1>3
      <3> HIDE DEF f
      <3> QED
        BY <3>1
    <2> HIDE DEF part, f
    <2> QED
      BY <1>3, <2>1, <2>2
  <1>5. Len(whole) = m - 1 /\ \A k \in 1..(m - 1) : whole[k] = fs[k]
    <2>1. whole = [k \in 1..(m - 1) |-> fs[k]]
      BY <1>1, <1>2 DEF Front
    <2> QED
      BY <1>2, <2>1
  <1>6. whole = << >> <=> m = 1
    <2>1. whole = SubSeq(fs, 1, m - 1)
      BY <1>1 DEF Front
    <2> QED
      BY <1>1, <1>5, <2>1
  <1>7. rd.records \o [k \in 1..Len(whole) |-> whole[k].total] = SubSeq(R, 1, n - 1)
    <2>1. [k \in 1..Len(whole) |-> whole[k].total] = [k \in 1..(m - 1) |-> R[a + k]]
      <3> HIDE DEF whole
      <3>1. \A k \in 1..(m - 1) : whole[k].total = R[a + k]
        <4>1. \A k \in 1..(m - 1) : k \in 1..m
          BY <1>2
        <4> QED
          BY <1>1, <1>5, <4>1
      <3> QED
        BY <1>5, <3>1
    <2>2. a + (m - 1) <= Len(R)
      BY <1>0, <1>2
    <2> DEFINE s == [k \in 1..(m - 1) |-> R[a + k]]
    <2>3. SubSeq(R, 1, a) \o s = SubSeq(R, 1, a + (m - 1))
      <3>1. m - 1 \in Nat /\ a \in Nat
        BY <1>0, <1>2
      <3> QED
        BY <2>2, <3>1, PrefixExtends
    <2> HIDE DEF whole, s
    <2> QED
      BY <1>0, <1>2, <2>1, <2>3 DEF s
  <1>8. (IF whole = << >> THEN rd.after ELSE Last(whole).sequence) = n - 1
    <2>1. CASE m = 1
      <3>1. rd.after = n - 1
        BY <1>0, <1>2, <2>1 DEF a
      <3> HIDE DEF whole
      <3> QED
        BY <1>6, <2>1, <3>1
    <2>2. CASE m # 1
      <3>1. m - 1 \in 1..(m - 1) /\ m - 1 \in 1..m
        BY <1>2, <2>2
      <3>2. Last(whole).sequence = a + (m - 1)
        <4>1. whole[m - 1] = fs[m - 1] /\ fs[m - 1].sequence = a + (m - 1)
          BY <1>1, <1>5, <3>1
        <4> HIDE DEF whole
        <4> QED
          BY <1>5, <4>1 DEF Last
      <3> QED
        BY <1>2, <1>6, <2>2, <3>2
    <2> QED
      BY <2>1, <2>2
  <1>9. Absorbed(rd, fs) = AtCut(rd, R, n, part)
    <2>1. Absorbed(rd, fs) =
             [rd EXCEPT !.after = IF whole = << >> THEN rd.after ELSE Last(whole).sequence,
                        !.records = rd.records \o [k \in 1..Len(whole) |-> whole[k].total],
                        !.sequence = f.sequence, !.total = f.total, !.part = part]
      BY <1>1 DEF Absorbed
    <2> HIDE DEF whole, part, f
    <2> QED
      BY <1>3, <1>7, <1>8, <2>1 DEF AtCut
  <1>10. NextCursor(CursorOf(rd), fs) = [after |-> n - 1, offset |-> part]
    BY <1>1, <1>3, <1>4 DEF NextCursor
  <1>11. n = rd.after + 1 => part > rd.part
    <2> SUFFICES ASSUME n = rd.after + 1 PROVE part > rd.part
      OBVIOUS
    <2>1. m = 1
      BY <1>0 DEF a, m
    <2>2. f.offset = rd.part
      BY <1>1, <1>3, <2>1
    <2> HIDE DEF f
    <2> QED
      BY <1>0, <1>3, <2>2
  <1> HIDE DEF part
  <1> QED
    BY <1>4, <1>9, <1>10, <1>11

\* Between two readers of the same records.
Advances(rd, new) ==
    /\ IsPrefix(rd.records, new.records)
    /\ \/ new.after > rd.after
       \/ new.after = rd.after /\ new.part > rd.part

LEMMA PrefixesOfOne ==
    ASSUME NEW R \in Seq(Sizes), NEW a \in 0..Len(R), NEW b \in 0..Len(R), a <= b
    PROVE  IsPrefix(SubSeq(R, 1, a), SubSeq(R, 1, b))
  <1> DEFINE p == SubSeq(R, 1, a)
             q == SubSeq(R, 1, b)
  <1>1. Len(p) = a /\ Len(q) = b
    OBVIOUS
  <1>2. SubSeq(p, 1, a) = p /\ SubSeq(q, 1, a) = p
    OBVIOUS
  <1> HIDE DEF p, q
  <1>3. IsPrefix(p, q)
    BY <1>1, <1>2 DEF IsPrefix
  <1> QED
    BY <1>3 DEF p, q

\* Whatever page is cut from the transcript, the reader's own cursor is
\* valid, the page is accepted and leaves the reader at a place in the
\* transcript, further on than it was unless the page is empty; when nothing
\* is left to deliver, it holds everything.
LEMMA PageAccepted ==
    ASSUME NEW rd \in Readers, NEW R \in Seq(Sizes), ReaderAt(rd, R),
           NEW fs \in Fragments(R, CursorOf(rd)), NEW page,
           page.fragments = fs, page.next = NextCursor(CursorOf(rd), fs)
    PROVE  /\ ValidCursor(R, CursorOf(rd))
           /\ Accept(rd, page) \in Readers
           /\ ReaderAt(Accept(rd, page), R)
           /\ DeliveredAll(R, page.next) =>
                 Accept(rd, page).records = R /\ Accept(rd, page).part = 0
           /\ Accept(rd, page) = rd \/ Advances(rd, Accept(rd, page))
  <1> DEFINE c == CursorOf(rd)
             new == Absorbed(rd, fs)
  <1>0. /\ rd.after \in Nat /\ rd.part \in Nat /\ Len(R) \in Nat /\ rd.after <= Len(R)
        /\ c.after = rd.after /\ c.offset = rd.part /\ rd.consistent
        /\ rd.records = SubSeq(R, 1, rd.after)
    BY DEF Readers, ReaderAt, CursorOf
  <1>1. ValidCursor(R, c)
    BY <1>0 DEF ValidCursor, ReaderAt
  <1>2. CASE Len(R) <= rd.after
    <2>1. fs = << >> /\ rd.after = Len(R) /\ rd.part = 0
      BY <1>0, <1>2 DEF Fragments, ReaderAt
    <2>2. new = rd
      BY <2>1 DEF Absorbed
    <2>3. page.next = CursorOf(rd)
      BY <1>0, <2>1 DEF NextCursor, CursorOf
    <2>4. Accept(rd, page) = rd
      <3>1. Len(fs) = 0
        BY <2>1
      <3> QED
        BY <2>1, <2>2, <2>3, <3>1 DEF Accept
    <2>5. rd.records = R
      BY <1>0, <2>1, SubSeqFull
    <2> QED
      BY <1>1, <2>1, <2>4, <2>5
  <1>3. CASE ~(Len(R) <= rd.after)
    <2>1. PICK n \in (rd.after + 1)..Len(R) : \E length \in 1..(R[n] - Delivered(c, n)) :
             fs = PageTo(R, c, n, length)
      BY <1>0, <1>1, <1>3 DEF Fragments
    <2>2. PICK length \in 1..(R[n] - Delivered(c, n)) : fs = PageTo(R, c, n, length)
      BY <2>1
    <2>3. /\ fs # << >> /\ Continues(rd, fs[1])
          /\ \A k \in 2..Len(fs) : Follows(fs[k - 1], fs[k])
          /\ \A k \in 1..Len(fs) :
                fs[k].length > 0 /\ fs[k].offset + fs[k].length <= fs[k].total
      BY <2>2, PageContinues
    <2>4. page.next = CursorOf(new) => Accept(rd, page) = new
      BY <2>3 DEF Accept
    <2>5. n \in Nat \ {0} /\ n \in 1..Len(R) /\ n - 1 \in 0..Len(R) /\ (n - 1) + 1 = n
      BY <1>0
    <2>6. R[n] \in Nat \ {0}
      BY <2>5, ElementOfSeq, TranscriptAssumption
    <2>7. CASE EndsRecord(Last(fs))
      <3>0. /\ Absorbed(rd, fs) = AtEnd(rd, R, n)
            /\ NextCursor(CursorOf(rd), fs) = [after |-> n, offset |-> 0]
        BY <2>2, <2>7, AbsorbedToEnd
      <3>1. /\ new = AtEnd(rd, R, n)
            /\ page.next = [after |-> n, offset |-> 0]
        BY <3>0
      <3> HIDE DEF new
      <3>2. /\ new.after = n /\ new.records = SubSeq(R, 1, n) /\ new.part = 0
            /\ new.sequence = n /\ new.total = R[n] /\ new.consistent = rd.consistent
        BY <3>1 DEF Readers, AtEnd
      <3>3. Accept(rd, page) = new
        BY <2>4, <3>1, <3>2 DEF CursorOf
      <3>4. SubSeq(R, 1, n) \in Seq(Sizes)
        BY <2>5
      <3>5. new \in Readers
        BY <2>5, <2>6, <3>1, <3>4 DEF Readers, AtEnd
      <3>6. ReaderAt(new, R)
        BY <1>0, <2>5, <3>2 DEF ReaderAt
      <3>7. DeliveredAll(R, page.next) => new.records = R
        <4>1. DeliveredAll(R, page.next) => n = Len(R)
          BY <2>5, <3>1 DEF DeliveredAll
        <4> QED
          BY <3>2, <4>1, SubSeqFull
      <3>8. Advances(rd, new)
        <4>1. rd.after \in 0..Len(R) /\ n \in 0..Len(R) /\ rd.after <= n /\ n > rd.after
          BY <1>0, <2>5
        <4>2. IsPrefix(SubSeq(R, 1, rd.after), SubSeq(R, 1, n))
          BY <4>1, PrefixesOfOne
        <4> QED
          BY <1>0, <3>2, <4>1, <4>2 DEF Advances
      <3> QED
        BY <1>1, <3>2, <3>3, <3>5, <3>6, <3>7, <3>8
    <2>8. CASE ~EndsRecord(Last(fs))
      <3>0. \E part \in 1..(R[n] - 1) :
              /\ Absorbed(rd, fs) = AtCut(rd, R, n, part)
              /\ NextCursor(CursorOf(rd), fs) = [after |-> n - 1, offset |-> part]
              /\ n = rd.after + 1 => part > rd.part
        BY <2>2, <2>8, AbsorbedToCut
      <3>1. PICK part \in 1..(R[n] - 1) :
               /\ new = AtCut(rd, R, n, part)
               /\ page.next = [after |-> n - 1, offset |-> part]
               /\ n = rd.after + 1 => part > rd.part
        BY <3>0
      <3> HIDE DEF new
      <3>2. /\ new.after = n - 1 /\ new.records = SubSeq(R, 1, n - 1) /\ new.part = part
            /\ new.sequence = n /\ new.total = R[n] /\ new.consistent = rd.consistent
        BY <3>1 DEF Readers, AtCut
      <3>3. Accept(rd, page) = new
        BY <2>4, <3>1, <3>2 DEF CursorOf
      <3>4. SubSeq(R, 1, n - 1) \in Seq(Sizes)
        BY <2>5
      <3>5. part \in Nat /\ part < R[n] /\ part > 0
        BY <2>6
      <3>6. new \in Readers
        <4>1. n - 1 \in Nat /\ n \in Nat /\ R[n] \in Nat /\ part \in Nat
          BY <2>5, <2>6, <3>5
        <4> QED
          BY <3>1, <3>4, <4>1 DEF Readers, AtCut
      <3>7. ReaderAt(new, R)
        BY <1>0, <2>5, <3>2, <3>5 DEF ReaderAt
      <3>8. ~DeliveredAll(R, page.next)
        BY <3>1, <3>5 DEF DeliveredAll
      <3>9. Advances(rd, new)
        <4>1. /\ rd.after \in 0..Len(R) /\ n - 1 \in 0..Len(R) /\ rd.after <= n - 1
              /\ n - 1 > rd.after \/ n = rd.after + 1
          BY <1>0, <2>5
        <4>2. IsPrefix(SubSeq(R, 1, rd.after), SubSeq(R, 1, n - 1))
          BY <4>1, PrefixesOfOne
        <4>3. n - 1 > rd.after \/ (n - 1 = rd.after /\ part > rd.part)
          BY <1>0, <3>1, <4>1
        <4> QED
          BY <1>0, <3>2, <4>2, <4>3 DEF Advances
      <3> QED
        BY <1>1, <3>3, <3>6, <3>7, <3>8, <3>9
    <2> QED
      BY <2>7, <2>8
  <1> QED
    BY <1>2, <1>3

\* build_output_page: a page always has room for some of what is left, so no
\* transcript gets stuck on the limits of a page.
THEOREM PageAlwaysFits ==
    ASSUME NEW rd \in Readers, NEW R \in Seq(Sizes), ReaderAt(rd, R), rd.after < Len(R)
    PROVE  /\ Fragments(R, CursorOf(rd)) # {}
           /\ << >> \notin Fragments(R, CursorOf(rd))
  <1> DEFINE c == CursorOf(rd)
             n == rd.after + 1
             fs == PageTo(R, c, n, 1)
             sizes == [k \in 1..Len(fs) |-> fs[k].length]
  <1>1. /\ rd.after \in Nat /\ rd.part \in Nat /\ Len(R) \in Nat
        /\ c.after = rd.after /\ c.offset = rd.part
    BY DEF Readers, CursorOf
  <1>2. n \in (c.after + 1)..Len(R) /\ n \in (rd.after + 1)..Len(R) /\ n \in 1..Len(R)
    BY <1>1
  <1>3. R[n] \in Nat \ {0}
    BY <1>2, ElementOfSeq, SizesPositive
  <1>4. Delivered(c, n) = rd.part
    BY <1>1 DEF Delivered
  <1>5. rd.part > 0 => rd.part < R[n]
    BY DEF ReaderAt
  <1>6. 1 \in 1..(R[n] - Delivered(c, n))
    BY <1>1, <1>3, <1>4, <1>5
  <1>7. Len(fs) = n - rd.after /\ fs[n - rd.after].length = 1
    BY <1>2, <1>6, PageEntries
  <1>8. n - rd.after = 1
    BY <1>1
  <1>9. ValidCursor(R, c) /\ ~(Len(R) <= c.after)
    BY <1>1, <1>5 DEF ValidCursor
  <1> HIDE DEF fs
  <1>10. FitsPage(fs)
    <2>1. Len(fs) = 1 /\ Len(sizes) = 1 /\ sizes[1] = 1
      BY <1>7, <1>8
    <2>2. Bytes(sizes) = 1
      <3> HIDE DEF sizes
      <3> QED
        BY <2>1, BytesOne
    <2>3. PageFragments \in Nat \ {0} /\ PageBytes \in Nat \ {0}
      BY TranscriptAssumption
    <2> QED
      BY <2>1, <2>2, <2>3 DEF FitsPage
  <1>11. fs \in Fragments(R, c)
    BY <1>2, <1>6, <1>9, <1>10 DEF Fragments, fs
  <1>12. ASSUME << >> \in Fragments(R, c) PROVE FALSE
    <2>1. PICK i \in (c.after + 1)..Len(R) : \E length \in 1..(R[i] - Delivered(c, i)) :
             << >> = PageTo(R, c, i, length)
      BY <1>9, <1>12 DEF Fragments
    <2>2. PICK length \in 1..(R[i] - Delivered(c, i)) : << >> = PageTo(R, c, i, length)
      BY <2>1
    <2>3. i \in (rd.after + 1)..Len(R)
      BY <1>1
    <2> QED
      BY <2>2, <2>3, PageContinues
  <1> QED
    BY <1>11, <1>12

\* What a reader holds stays where it is when a record is captured.
LEMMA ReaderOutgrown ==
    ASSUME NEW rd \in Readers, NEW R \in Seq(Sizes), ReaderAt(rd, R), NEW x \in Sizes
    PROVE  ReaderAt(rd, Append(R, x))
  <1>1. /\ rd.after \in Nat /\ rd.after <= Len(R) /\ rd.records = SubSeq(R, 1, rd.after)
        /\ rd.consistent
    BY DEF Readers, ReaderAt
  <1>2. /\ Len(Append(R, x)) = Len(R) + 1 /\ Len(R) \in Nat
        /\ \A i \in 1..Len(R) : Append(R, x)[i] = R[i]
    OBVIOUS
  <1>3. SubSeq(Append(R, x), 1, rd.after) = SubSeq(R, 1, rd.after)
    BY <1>1, <1>2
  <1>4. rd.part > 0 =>
          /\ rd.after < Len(R) + 1
          /\ rd.sequence = rd.after + 1
          /\ rd.total = Append(R, x)[rd.after + 1]
          /\ rd.part < rd.total
    <2> SUFFICES ASSUME rd.part > 0
                 PROVE  /\ rd.after < Len(R) + 1
                        /\ rd.sequence = rd.after + 1
                        /\ rd.total = Append(R, x)[rd.after + 1]
                        /\ rd.part < rd.total
      OBVIOUS
    <2>1. /\ rd.after < Len(R) /\ rd.sequence = rd.after + 1
          /\ rd.total = R[rd.after + 1] /\ rd.part < rd.total
      BY DEF ReaderAt
    <2>2. rd.after + 1 \in 1..Len(R)
      BY <1>1, <1>2, <2>1
    <2> QED
      BY <1>1, <1>2, <2>1, <2>2
  <1> QED
    BY <1>1, <1>2, <1>3, <1>4 DEF ReaderAt

----------------------------------------------------------------------------
(* The retention: begin, append and finish in any order.                   *)

LiveOf(f) ==
    /\ DOMAIN f \subseteq Requests
    /\ f = [q \in DOMAIN f |-> f[q]]
    /\ \A q \in DOMAIN f : f[q] \in Seq(Sizes)

\* What the store keeps under its mutex, whoever calls it.
StoreInv ==
    /\ LiveOf(live)
    /\ finished \in Seq(Retained)
    /\ RetentionExact

LEMMA BeginStore ==
    ASSUME StoreInv, NEW r \in Requests, Begin(r)
    PROVE  StoreInv'
  <1>1. LiveOf(live)'
    <2>1. live' = [q \in DOMAIN live \cup {r} |-> IF q = r THEN << >> ELSE live[q]]
      BY DEF Begin
    <2>2. DOMAIN live' = DOMAIN live \cup {r}
      BY <2>1
    <2>3. \A q \in DOMAIN live \cup {r} : live'[q] \in Seq(Sizes)
      BY <2>1 DEF StoreInv, LiveOf
    <2> QED
      BY <2>1, <2>2, <2>3 DEF StoreInv, LiveOf
  <1>2. DOMAIN live' = DOMAIN live \cup {r}
    BY DEF Begin
  <1>3. finished \in Seq(Retained) /\ DOMAIN finished = 1..Len(finished) /\ Len(finished) \in Nat
    BY LenProperties DEF StoreInv
  <1>4. CASE RetainedAt(r) = {}
    <2>1. finished' = finished /\ finishedBytes' = finishedBytes
      BY <1>4 DEF Begin
    <2>2. \A i \in DOMAIN finished : finished[i].request # r
      BY <1>4 DEF RetainedAt
    <2>3. RetentionExact'
      BY <1>2, <2>1, <2>2 DEF StoreInv, RetentionExact, WithinBounds
    <2> QED
      BY <1>1, <1>3, <2>1, <2>3 DEF StoreInv
  <1>5. CASE RetainedAt(r) # {}
    <2> DEFINE at == CHOOSE i \in RetainedAt(r) : \A j \in RetainedAt(r) : i <= j
    <2>1. at \in RetainedAt(r)
      <3>1. RetainedAt(r) \subseteq Nat
        BY <1>3 DEF RetainedAt
      <3>2. \E i \in RetainedAt(r) : \A j \in RetainedAt(r) : i <= j
        BY <1>5, <3>1, LeastNatural
      <3> QED
        BY <3>2
    <2>2. /\ finished' = RemoveAt(finished, at)
          /\ finishedBytes' = finishedBytes - Bytes(finished[at].records)
      BY <1>5 DEF Begin
    <2> HIDE DEF at
    <2>3. at \in 1..Len(finished) /\ finished[at].request = r
      BY <1>3, <2>1 DEF RetainedAt
    <2>4. /\ finished' \in Seq(Retained)
          /\ Len(finished') = Len(finished) - 1
          /\ \A j \in 1..(Len(finished) - 1) :
                finished'[j] = finished[IF j < at THEN j ELSE j + 1]
          /\ TotalBytes(finished') = TotalBytes(finished) - Bytes(finished[at].records)
      BY <1>3, <2>2, <2>3, RemoveEntry
    <2>5. DOMAIN finished' = 1..(Len(finished) - 1)
      BY <2>4, LenProperties
    <2> DEFINE old(j) == IF j < at THEN j ELSE j + 1
    <2>6. \A j \in 1..(Len(finished) - 1) :
             old(j) \in 1..Len(finished) /\ old(j) # at /\ finished'[j] = finished[old(j)]
      BY <1>3, <2>3, <2>4
    <2>7. \A i, j \in 1..(Len(finished) - 1) : old(i) = old(j) => i = j
      BY <1>3, <2>3
    <2>8. \A i, j \in 1..Len(finished) : finished[i].request = finished[j].request => i = j
      BY <1>3 DEF StoreInv, RetentionExact
    <2> HIDE DEF old
    <2>9. \A i, j \in DOMAIN finished' : finished'[i].request = finished'[j].request => i = j
      BY <2>5, <2>6, <2>7, <2>8
    <2>10. \A j \in DOMAIN finished' : finished'[j].request \notin DOMAIN live'
      <3> SUFFICES ASSUME NEW j \in DOMAIN finished' PROVE finished'[j].request \notin DOMAIN live'
        OBVIOUS
      <3>1. old(j) \in 1..Len(finished) /\ old(j) # at /\ finished'[j] = finished[old(j)]
        BY <2>5, <2>6
      <3>2. finished[old(j)].request \notin DOMAIN live
        BY <1>3, <3>1 DEF StoreInv, RetentionExact
      <3>3. finished[old(j)].request # r
        BY <2>3, <2>8, <3>1
      <3> QED
        BY <1>2, <3>1, <3>2, <3>3
    <2>11. TotalBytes(finished) \in Nat /\ TotalBytes(finished') \in Nat
      BY <1>3, <2>4, SizesNatural
    <2>12. Bytes(finished[at].records) \in Nat
      <3>1. finished[at] \in Retained
        BY <1>3, <2>3, ElementOfSeq
      <3> QED
        BY <3>1, TotalOne
    <2>13. finishedBytes' = TotalBytes(finished')
      BY <2>2, <2>4 DEF StoreInv, RetentionExact
    <2>14. WithinBounds(finished')
      <3>1. Len(finished) <= MaxRetained /\ TotalBytes(finished) <= MaxRetainedBytes
        BY DEF StoreInv, RetentionExact, WithinBounds
      <3>2. MaxRetained \in Nat /\ MaxRetainedBytes \in Nat
        BY TranscriptAssumption
      <3>3. Len(finished') <= MaxRetained
        BY <1>3, <2>4, <3>1, <3>2
      <3>4. TotalBytes(finished') <= MaxRetainedBytes
        BY <2>4, <2>11, <2>12, <3>1, <3>2
      <3> QED
        BY <3>3, <3>4 DEF WithinBounds
    <2>15. RetentionExact'
      <3>1. WithinBounds(finished)'
        BY <2>14 DEF WithinBounds
      <3> QED
        BY <2>9, <2>10, <2>13, <3>1 DEF RetentionExact
    <2> QED
      BY <1>1, <2>4, <2>15 DEF StoreInv
  <1> QED
    BY <1>4, <1>5

LEMMA AppendStore ==
    ASSUME StoreInv, NEW r \in Requests, NEW size \in Sizes, AppendRecord(r, size)
    PROVE  StoreInv'
  <1>1. /\ r \in DOMAIN live /\ live' = [live EXCEPT ![r] = Append(live[r], size)]
        /\ finished' = finished /\ finishedBytes' = finishedBytes
    BY DEF AppendRecord
  <1>2. DOMAIN live' = DOMAIN live
    BY <1>1
  <1>3. LiveOf(live)'
    <2>1. \A q \in DOMAIN live : live'[q] \in Seq(Sizes)
      BY <1>1 DEF StoreInv, LiveOf
    <2>2. live' = [q \in DOMAIN live |-> live'[q]]
      BY <1>1
    <2> QED
      BY <1>2, <2>1, <2>2 DEF StoreInv, LiveOf
  <1>4. RetentionExact'
    BY <1>1, <1>2 DEF StoreInv, RetentionExact, WithinBounds
  <1> QED
    BY <1>1, <1>3, <1>4 DEF StoreInv

LEMMA FinishStore ==
    ASSUME StoreInv, NEW r \in Requests, FinishTranscript(r)
    PROVE  /\ StoreInv'
           /\ \A j \in DOMAIN finished' :
                 \/ finished'[j] = [request |-> r, records |-> live[r]]
                 \/ \E i \in DOMAIN finished : finished'[j] = finished[i]
  <1> DEFINE x == [request |-> r, records |-> live[r]]
             queue == Append(finished, x)
             k == Evicted(queue)
  <1>1. /\ r \in DOMAIN live
        /\ finished' = SubSeq(queue, k + 1, Len(queue))
        /\ finishedBytes' = finishedBytes + Bytes(live[r]) - TotalBytes(SubSeq(queue, 1, k))
        /\ live' = [q \in DOMAIN live \ {r} |-> live[q]]
    BY DEF FinishTranscript
  <1>2. finished \in Seq(Retained) /\ DOMAIN finished = 1..Len(finished) /\ Len(finished) \in Nat
    BY LenProperties DEF StoreInv
  <1>3. x \in Retained /\ x.request = r /\ x.records = live[r]
    BY <1>1 DEF StoreInv, LiveOf, Retained
  <1> HIDE DEF x
  <1>4. /\ queue \in Seq(Retained) /\ Len(queue) = Len(finished) + 1
        /\ \A i \in 1..Len(finished) : queue[i] = finished[i]
        /\ queue[Len(finished) + 1] = x
    BY <1>2, <1>3
  <1>5. TotalBytes(queue) = TotalBytes(finished) + Bytes(live[r])
    BY <1>2, <1>3, TotalAppend
  <1> HIDE DEF queue
  <1>6. k \in 0..Len(queue) /\ WithinBounds(SubSeq(queue, k + 1, Len(queue)))
    BY <1>4, EvictionFits
  <1> HIDE DEF k
  <1>7. /\ SubSeq(queue, 1, k) \in Seq(Retained)
        /\ finished' \in Seq(Retained)
        /\ TotalBytes(queue) = TotalBytes(SubSeq(queue, 1, k)) + TotalBytes(finished')
    BY <1>1, <1>4, <1>6, TotalSplit
  <1>8. /\ Len(finished') = Len(queue) - k
        /\ \A j \in 1..(Len(queue) - k) : finished'[j] = queue[k + j]
    BY <1>1, <1>4, <1>6, SuffixEntries
  <1>9. DOMAIN finished' = 1..(Len(queue) - k)
    BY <1>7, <1>8, LenProperties
  <1>10. finishedBytes' = TotalBytes(finished')
    <2>1. /\ TotalBytes(SubSeq(queue, 1, k)) \in Nat /\ TotalBytes(finished') \in Nat
          /\ TotalBytes(queue) \in Nat
      BY <1>4, <1>7, SizesNatural
    <2>2. finishedBytes = TotalBytes(finished)
      BY DEF StoreInv, RetentionExact
    <2>3. finishedBytes' = TotalBytes(queue) - TotalBytes(SubSeq(queue, 1, k))
      <3>1. finishedBytes \in Nat /\ Bytes(live[r]) \in Nat
        BY <1>2, <1>3, <2>2, SizesNatural, TotalOne
      <3> QED
        BY <1>1, <1>5, <2>1, <2>2, <3>1
    <2> QED
      BY <1>7, <2>1, <2>3
  <1>11. DOMAIN live' = DOMAIN live \ {r}
    BY <1>1
  <1>12. ASSUME NEW j \in DOMAIN finished'
         PROVE  /\ k + j \in 1..Len(queue) /\ finished'[j] = queue[k + j]
                /\ \/ k + j \in 1..Len(finished) /\ finished'[j] = finished[k + j]
                   \/ k + j = Len(finished) + 1 /\ finished'[j] = x
    <2>1. k + j \in 1..Len(queue) /\ finished'[j] = queue[k + j]
      BY <1>2, <1>4, <1>6, <1>8, <1>9
    <2>2. k + j \in 1..Len(finished) \/ k + j = Len(finished) + 1
      BY <1>2, <1>4, <2>1
    <2> QED
      BY <1>4, <2>1, <2>2
  <1>13. \A i \in 1..Len(finished) : finished[i].request \notin DOMAIN live /\ finished[i].request # r
    BY <1>1, <1>2 DEF StoreInv, RetentionExact
  <1>14. \A i, j \in 1..Len(queue) : queue[i].request = queue[j].request => i = j
    <2>1. \A i, j \in 1..Len(finished) : finished[i].request = finished[j].request => i = j
      BY <1>2 DEF StoreInv, RetentionExact
    <2>2. \A i \in 1..Len(queue) : i \in 1..Len(finished) \/ i = Len(finished) + 1
      BY <1>2, <1>4
    <2> QED
      BY <1>3, <1>4, <1>13, <2>1, <2>2
  <1>15. \A i, j \in DOMAIN finished' : finished'[i].request = finished'[j].request => i = j
    <2> SUFFICES ASSUME NEW i \in DOMAIN finished', NEW j \in DOMAIN finished',
                        finished'[i].request = finished'[j].request
                 PROVE  i = j
      OBVIOUS
    <2>1. k + i = k + j
      BY <1>12, <1>14
    <2> QED
      BY <1>4, <1>6, <1>9, <2>1
  <1>16. \A j \in DOMAIN finished' : finished'[j].request \notin DOMAIN live'
    BY <1>3, <1>11, <1>12, <1>13
  <1>17. RetentionExact'
    <2>1. WithinBounds(finished)'
      BY <1>1, <1>6 DEF WithinBounds
    <2> QED
      BY <1>10, <1>15, <1>16, <2>1 DEF RetentionExact
  <1>18. LiveOf(live)'
    BY <1>1, <1>11 DEF StoreInv, LiveOf
  <1>19. \A j \in DOMAIN finished' :
            finished'[j] = x \/ \E i \in DOMAIN finished : finished'[j] = finished[i]
    BY <1>2, <1>12
  <1> QED
    BY <1>7, <1>17, <1>18, <1>19 DEF StoreInv, x

LEMMA LoseStore ==
    ASSUME StoreInv, LoseTranscripts
    PROVE  StoreInv'
  <1>1. live' = << >> /\ finished' = << >> /\ finishedBytes' = 0
    BY DEF LoseTranscripts
  <1>2. DOMAIN live' = {} /\ DOMAIN finished' = {} /\ Len(finished') = 0
    BY <1>1
  <1>3. LiveOf(live)'
    BY <1>1, <1>2 DEF LiveOf
  <1>4. WithinBounds(finished)'
    BY <1>1, <1>2, TotalEmpty, TranscriptAssumption DEF WithinBounds
  <1>5. RetentionExact'
    BY <1>1, <1>2, <1>4, TotalEmpty DEF RetentionExact
  <1>6. finished' \in Seq(Retained)
    BY <1>1
  <1> QED
    BY <1>3, <1>5, <1>6 DEF StoreInv

----------------------------------------------------------------------------
(* The Ask.                                                                *)

Pcs == {"submit", "poll", "read", "status", "done"}
Driving == {"poll", "read", "status"}
Tasks == {"none", "claimed", "capturing", "captured", "claim_lost", "report_lost"}
AtWork == {"claimed", "capturing", "captured"}
Askings == [pc : Pcs, pages : Nat, cancelSent : BOOLEAN,
            output : {"none", "delivered", "missing", "partial"}]

AskTypes ==
    /\ phase \in [Requests -> DispatchPhases \cup {"absent"}]
    /\ task \in [Requests -> Tasks]
    /\ captured \in [Requests -> Seq(Sizes)]
    /\ asking \in [Requests -> Askings]
    /\ reader \in [Requests -> Readers]
    /\ ended = [r \in Requests |-> ended[r]]

\* The attempt has captured all it ever will.
Sealed(r) == phase[r] \notin {"absent", "admitted"} /\ task[r] \notin {"claimed", "capturing"}

Whole(r) == reader[r].records = captured[r] /\ reader[r].part = 0

\* A task at work belongs to an attempt that was claimed and not yet reported,
\* and nothing is captured before it begins.
TaskInv ==
    \A r \in Requests :
        /\ task[r] \in AtWork => phase[r] \in {"running", "cancel_requested"}
        /\ phase[r] \in {"absent", "admitted"} => captured[r] = << >>
        /\ task[r] = "claimed" => captured[r] = << >>

\* What the store serves is what was captured: all of it so far, or all of it.
ServedInv ==
    /\ \A r \in DOMAIN live : task[r] = "capturing" /\ live[r] = captured[r]
    /\ \A i \in DOMAIN finished :
          Sealed(finished[i].request) /\ finished[i].records = captured[finished[i].request]

\* What the driver knows and when it may say so.
DriverInv ==
    \A r \in Requests :
        /\ asking[r].pc = "submit" => phase[r] = "absent"
        /\ asking[r].pc \in Driving => phase[r] # "absent"
        /\ asking[r].pc = "status" => asking[r].output # "none"
        /\ ended[r] # "inconsistent"
        /\ ReaderAt(reader[r], captured[r])
        /\ asking[r].pc = "status" /\ asking[r].output = "delivered" => Sealed(r) /\ Whole(r)
        /\ ended[r] \in {"completed", "unverified"} =>
              asking[r].pc = "done" /\ Sealed(r) /\ Whole(r)

AskInv == StoreInv /\ AskTypes /\ TaskInv /\ ServedInv /\ DriverInv

\* The rules a row follows: what a step may make of a phase.
LEMMA Edges ==
    /\ ClaimEdge("admitted").to = "running"
    /\ \A p \in {"running", "cancel_requested"}, outcome \in Outcomes :
          FinishEdge(p, outcome).to \in TerminalPhases
    /\ \A p \in DispatchPhases \cup {"absent"} :
          /\ p \in {"running", "cancel_requested"} => Cancelled(p) \in {"running", "cancel_requested"}
          /\ p \notin {"absent", "admitted"} => Cancelled(p) \notin {"absent", "admitted"}
          /\ Cancelled(p) \in DispatchPhases \cup {"absent"}
          /\ p # "absent" => Cancelled(p) # "absent"
    /\ \A p \in DispatchPhases \cup {"absent"} :
          LET q == IF RecoverEdge(p).kind = "changed" THEN RecoverEdge(p).to ELSE p
          IN  /\ q \in DispatchPhases \cup {"absent"}
              /\ q = "absent" <=> p = "absent"
              /\ q # "admitted"
  <1>1. ClaimEdge("admitted").to = "running"
    BY DEF ClaimEdge, Changed, IsTerminal, TerminalPhases
  <1>2. ASSUME NEW p \in {"running", "cancel_requested"}, NEW outcome \in Outcomes
        PROVE  FinishEdge(p, outcome).to \in TerminalPhases
    BY DEF FinishEdge, FinishedStatuses, Changed, Outcomes, TerminalPhases
  <1>3. ASSUME NEW p \in DispatchPhases \cup {"absent"}
        PROVE  /\ p \in {"running", "cancel_requested"} => Cancelled(p) \in {"running", "cancel_requested"}
               /\ p \notin {"absent", "admitted"} => Cancelled(p) \notin {"absent", "admitted"}
               /\ Cancelled(p) \in DispatchPhases \cup {"absent"}
               /\ p # "absent" => Cancelled(p) # "absent"
    <2>1. p \in {"absent", "admitted", "running", "cancel_requested", "recovery_pending",
                 "completed", "failed", "unverified", "cancelled"}
      BY DEF DispatchPhases, ActivePhases, TerminalPhases
    <2> QED
      BY <2>1 DEF Cancelled, CancelEdge, Changed, Unchanged, Refused, DispatchPhases,
                  ActivePhases, TerminalPhases
  <1>4. ASSUME NEW p \in DispatchPhases \cup {"absent"}
        PROVE  LET q == IF RecoverEdge(p).kind = "changed" THEN RecoverEdge(p).to ELSE p
               IN  /\ q \in DispatchPhases \cup {"absent"}
                   /\ q = "absent" <=> p = "absent"
                   /\ q # "admitted"
    <2>1. p \in {"absent", "admitted", "running", "cancel_requested", "recovery_pending",
                 "completed", "failed", "unverified", "cancelled"}
      BY DEF DispatchPhases, ActivePhases, TerminalPhases
    <2> QED
      BY <2>1 DEF RecoverEdge, Changed, Unchanged, DispatchPhases, ActivePhases, TerminalPhases
  <1> QED
    BY <1>1, <1>2, <1>3, <1>4

LEMMA InitAsk == AskInit => AskInv
  <1> SUFFICES ASSUME AskInit PROVE AskInv
    OBVIOUS
  <1>1. live = << >> /\ finished = << >> /\ finishedBytes = 0 /\ captured = [r \in Requests |-> << >>]
    BY DEF AskInit, TranscriptInit
  <1>2. DOMAIN live = {} /\ DOMAIN finished = {} /\ Len(finished) = 0
    BY <1>1
  <1>3. StoreInv
    <2>1. WithinBounds(finished)
      BY <1>1, <1>2, TotalEmpty, TranscriptAssumption DEF WithinBounds
    <2>2. LiveOf(live)
      BY <1>1, <1>2 DEF LiveOf
    <2> QED
      BY <1>1, <1>2, <2>1, <2>2, TotalEmpty DEF StoreInv, RetentionExact
  <1>4. NewReader \in Readers
    BY DEF NewReader, Readers
  <1>5. AskTypes
    <2>1. asking \in [Requests -> Askings]
      BY DEF AskInit, Askings, Pcs
    <2>2. reader \in [Requests -> Readers]
      BY <1>4 DEF AskInit
    <2>3. captured \in [Requests -> Seq(Sizes)]
      BY <1>1
    <2> QED
      BY <2>1, <2>2, <2>3 DEF AskTypes, AskInit, Tasks
  <1>6. TaskInv
    BY <1>1 DEF TaskInv, AtWork, AskInit
  <1>7. ServedInv
    BY <1>2 DEF ServedInv
  <1>8. \A r \in Requests : ReaderAt(reader[r], captured[r])
    <2> SUFFICES ASSUME NEW r \in Requests PROVE ReaderAt(reader[r], captured[r])
      OBVIOUS
    <2>1. reader[r] = NewReader /\ captured[r] = << >>
      BY <1>1 DEF AskInit
    <2>2. SubSeq(<< >>, 1, 0) = << >> /\ Len(<< >>) = 0
      OBVIOUS
    <2> QED
      BY <2>1, <2>2 DEF ReaderAt, NewReader
  <1>9. DriverInv
    BY <1>8 DEF DriverInv, AskInit, Driving
  <1> QED
    BY <1>3, <1>5, <1>6, <1>7, <1>9 DEF AskInv

LEMMA StoreStutters ==
    ASSUME StoreInv, UNCHANGED transcriptVars
    PROVE  StoreInv'
  BY DEF StoreInv, LiveOf, RetentionExact, WithinBounds, transcriptVars

\* The facts about one request that most steps need.
LEMMA AskFacts ==
    ASSUME AskInv, NEW r \in Requests
    PROVE  /\ phase[r] \in DispatchPhases \cup {"absent"} /\ task[r] \in Tasks
           /\ captured[r] \in Seq(Sizes) /\ asking[r] \in Askings /\ reader[r] \in Readers
           /\ task[r] \in AtWork => phase[r] \in {"running", "cancel_requested"}
           /\ phase[r] \in {"absent", "admitted"} => captured[r] = << >>
           /\ task[r] = "claimed" => captured[r] = << >>
           /\ asking[r].pc = "submit" => phase[r] = "absent"
           /\ asking[r].pc \in Driving => phase[r] # "absent"
           /\ asking[r].pc = "status" => asking[r].output # "none"
           /\ ended[r] # "inconsistent"
           /\ ReaderAt(reader[r], captured[r])
           /\ asking[r].pc = "status" /\ asking[r].output = "delivered" => Sealed(r) /\ Whole(r)
           /\ ended[r] \in {"completed", "unverified"} =>
                 asking[r].pc = "done" /\ Sealed(r) /\ Whole(r)
  <1>1. /\ phase[r] \in DispatchPhases \cup {"absent"} /\ task[r] \in Tasks
        /\ captured[r] \in Seq(Sizes) /\ asking[r] \in Askings /\ reader[r] \in Readers
    BY DEF AskInv, AskTypes
  <1>2. /\ task[r] \in AtWork => phase[r] \in {"running", "cancel_requested"}
        /\ phase[r] \in {"absent", "admitted"} => captured[r] = << >>
        /\ task[r] = "claimed" => captured[r] = << >>
    BY DEF AskInv, TaskInv
  <1>3. /\ asking[r].pc = "submit" => phase[r] = "absent"
        /\ asking[r].pc \in Driving => phase[r] # "absent"
        /\ asking[r].pc = "status" => asking[r].output # "none"
        /\ ended[r] # "inconsistent"
        /\ ReaderAt(reader[r], captured[r])
        /\ asking[r].pc = "status" /\ asking[r].output = "delivered" => Sealed(r) /\ Whole(r)
        /\ ended[r] \in {"completed", "unverified"} =>
              asking[r].pc = "done" /\ Sealed(r) /\ Whole(r)
    BY DEF AskInv, DriverInv
  <1> QED
    BY <1>1, <1>2, <1>3

\* A step of the driver of r: it may move the phase of r, but not back before
\* the claim nor out of the hands of a task, and what it says of the reply
\* is so.
DriverMove(r) ==
    /\ UNCHANGED <<transcriptVars, task>>
    /\ AskTypes'
    /\ \A q \in Requests \ {r} :
          /\ phase'[q] = phase[q] /\ asking'[q] = asking[q]
          /\ reader'[q] = reader[q] /\ ended'[q] = ended[q]
    /\ phase[r] \notin {"absent", "admitted"} => phase'[r] \notin {"absent", "admitted"}
    /\ phase[r] \in {"running", "cancel_requested"} => phase'[r] \in {"running", "cancel_requested"}
    /\ asking'[r].pc # "submit"
    /\ asking'[r].pc \in Driving => phase'[r] # "absent"
    /\ asking'[r].pc = "status" => asking'[r].output # "none"
    /\ ended'[r] # "inconsistent"
    /\ ReaderAt(reader'[r], captured[r])
    /\ asking'[r].pc = "status" /\ asking'[r].output = "delivered" =>
          Sealed(r) /\ reader'[r].records = captured[r] /\ reader'[r].part = 0
    /\ ended'[r] \in {"completed", "unverified"} =>
          asking'[r].pc = "done" /\ Sealed(r) /\ reader'[r].records = captured[r] /\ reader'[r].part = 0

LEMMA DriverMoves ==
    ASSUME AskInv, NEW r \in Requests, DriverMove(r)
    PROVE  AskInv'
  <1>1. /\ live' = live /\ finished' = finished /\ finishedBytes' = finishedBytes
        /\ captured' = captured /\ task' = task /\ UNCHANGED transcriptVars
    BY DEF DriverMove, transcriptVars
  <1>2. StoreInv'
    BY <1>1, StoreStutters DEF AskInv
  <1>3. \A q \in Requests \ {r} :
           /\ phase'[q] = phase[q] /\ asking'[q] = asking[q]
           /\ reader'[q] = reader[q] /\ ended'[q] = ended[q]
    BY DEF DriverMove
  <1>4. /\ phase[r] \notin {"absent", "admitted"} => phase'[r] \notin {"absent", "admitted"}
        /\ phase[r] \in {"running", "cancel_requested"} => phase'[r] \in {"running", "cancel_requested"}
    BY DEF DriverMove
  <1>5. \A q \in Requests : Sealed(q) => Sealed(q)'
    BY <1>1, <1>3, <1>4 DEF Sealed
  <1>6. TaskInv'
    <2> SUFFICES ASSUME NEW q \in Requests
                 PROVE  /\ task[q] \in AtWork => phase'[q] \in {"running", "cancel_requested"}
                        /\ phase'[q] \in {"absent", "admitted"} => captured[q] = << >>
                        /\ task[q] = "claimed" => captured[q] = << >>
      BY <1>1 DEF TaskInv
    <2> QED
      BY <1>3, <1>4, AskFacts
  <1>7. ServedInv'
    <2>1. \A q \in DOMAIN live : task[q] = "capturing" /\ live[q] = captured[q]
      BY DEF AskInv, ServedInv
    <2>2. \A i \in DOMAIN finished :
             /\ Sealed(finished[i].request)' 
             /\ finished[i].records = captured[finished[i].request]
      <3> SUFFICES ASSUME NEW i \in DOMAIN finished
                   PROVE  /\ Sealed(finished[i].request)'
                          /\ finished[i].records = captured[finished[i].request]
        OBVIOUS
      <3>1. finished[i] \in Retained
        BY LenProperties, ElementOfSeq DEF AskInv, StoreInv
      <3>2. finished[i].request \in Requests
        BY <3>1 DEF Retained
      <3>3. Sealed(finished[i].request) /\ finished[i].records = captured[finished[i].request]
        BY DEF AskInv, ServedInv
      <3> QED
        BY <1>1, <1>5, <3>2, <3>3 DEF Sealed
    <2> QED
      BY <1>1, <2>1, <2>2 DEF ServedInv, Sealed
  <1>8. DriverInv'
    <2>1. ASSUME NEW q \in Requests, q # r
          PROVE  /\ asking'[q].pc = "submit" => phase'[q] = "absent"
                 /\ asking'[q].pc \in Driving => phase'[q] # "absent"
                 /\ asking'[q].pc = "status" => asking'[q].output # "none"
                 /\ ended'[q] # "inconsistent"
                 /\ ReaderAt(reader'[q], captured[q])
                 /\ asking'[q].pc = "status" /\ asking'[q].output = "delivered" =>
                       Sealed(q)' /\ Whole(q)'
                 /\ ended'[q] \in {"completed", "unverified"} =>
                       asking'[q].pc = "done" /\ Sealed(q)' /\ Whole(q)'
      <3>1. q \in Requests \ {r} /\ Sealed(q) => Sealed(q)'
        BY <1>5
      <3>2. Whole(q)' <=> Whole(q)
        BY <1>1, <1>3, <2>1 DEF Whole
      <3> QED
        BY <1>3, <1>5, <2>1, <3>2, AskFacts
    <2>2. /\ asking'[r].pc # "submit"
          /\ asking'[r].pc \in Driving => phase'[r] # "absent"
          /\ asking'[r].pc = "status" => asking'[r].output # "none"
          /\ ended'[r] # "inconsistent"
          /\ ReaderAt(reader'[r], captured[r])
          /\ asking'[r].pc = "status" /\ asking'[r].output = "delivered" =>
                Sealed(r)' /\ Whole(r)'
          /\ ended'[r] \in {"completed", "unverified"} =>
                asking'[r].pc = "done" /\ Sealed(r)' /\ Whole(r)'
      BY <1>1, <1>5 DEF DriverMove, Whole
    <2>3. \A q \in Requests :
             /\ asking'[q].pc = "submit" => phase'[q] = "absent"
             /\ asking'[q].pc \in Driving => phase'[q] # "absent"
             /\ asking'[q].pc = "status" => asking'[q].output # "none"
             /\ ended'[q] # "inconsistent"
             /\ ReaderAt(reader'[q], captured[q])
             /\ asking'[q].pc = "status" /\ asking'[q].output = "delivered" =>
                   Sealed(q)' /\ Whole(q)'
             /\ ended'[q] \in {"completed", "unverified"} =>
                   asking'[q].pc = "done" /\ Sealed(q)' /\ Whole(q)'
      BY <2>1, <2>2
    <2> QED
      BY <1>1, <2>3 DEF DriverInv, ReaderAt, Whole, Sealed
  <1>9. AskTypes'
    BY DEF DriverMove
  <1> QED
    BY <1>2, <1>6, <1>7, <1>8, <1>9 DEF AskInv

\* What the driver's assignments come to.
LEMMA GotoPut ==
    ASSUME AskInv, NEW r \in Requests, NEW pc \in Pcs, Goto(r, pc)
    PROVE  /\ asking' \in [Requests -> Askings]
           /\ asking'[r].pc = pc /\ asking'[r].output = asking[r].output
           /\ \A q \in Requests \ {r} : asking'[q] = asking[q]
  <1>1. asking \in [Requests -> Askings]
    BY DEF AskInv, AskTypes
  <1>2. asking' = [asking EXCEPT ![r] = [asking[r] EXCEPT !.pc = pc]]
    BY DEF Goto
  <1>3. [asking[r] EXCEPT !.pc = pc] \in Askings
    BY <1>1 DEF Askings
  <1>4. [asking[r] EXCEPT !.pc = pc].pc = pc /\ [asking[r] EXCEPT !.pc = pc].output = asking[r].output
    BY <1>1 DEF Askings
  <1> QED
    BY <1>1, <1>2, <1>3, <1>4

LEMMA OutputPut ==
    ASSUME AskInv, NEW r \in Requests, NEW output \in {"delivered", "missing", "partial"},
           Output(r, output)
    PROVE  /\ asking' \in [Requests -> Askings]
           /\ asking'[r].pc = "status" /\ asking'[r].output = output
           /\ \A q \in Requests \ {r} : asking'[q] = asking[q]
  <1> DEFINE ak == [asking[r] EXCEPT !.pc = "status", !.output = output]
  <1>1. asking \in [Requests -> Askings]
    BY DEF AskInv, AskTypes
  <1>2. asking' = [asking EXCEPT ![r] = ak]
    BY <1>1 DEF Output
  <1>3. ak \in Askings /\ ak.pc = "status" /\ ak.output = output
    BY <1>1 DEF Askings, Pcs
  <1> HIDE DEF ak
  <1> QED
    BY <1>1, <1>2, <1>3

LEMMA EndsPut ==
    ASSUME AskInv, NEW r \in Requests, NEW e, Ends(r, e)
    PROVE  /\ ended' = [q \in Requests |-> ended'[q]] /\ ended'[r] = e
           /\ \A q \in Requests \ {r} : ended'[q] = ended[q]
  <1>1. ended = [q \in Requests |-> ended[q]]
    BY DEF AskInv, AskTypes
  <1> DEFINE old(q) == ended[q]
  <1>2. ended' = [[q \in Requests |-> old(q)] EXCEPT ![r] = e]
    BY <1>1 DEF Ends
  <1> QED
    BY <1>2

\* A cancel, whoever sends it, and whether or not it arrives.
LEMMA CancelPut ==
    ASSUME AskInv, NEW r \in Requests,
           phase' = phase \/ phase' = [phase EXCEPT ![r] = Cancelled(phase[r])]
    PROVE  /\ phase' \in [Requests -> DispatchPhases \cup {"absent"}]
           /\ \A q \in Requests \ {r} : phase'[q] = phase[q]
           /\ phase[r] \notin {"absent", "admitted"} => phase'[r] \notin {"absent", "admitted"}
           /\ phase[r] # "absent" => phase'[r] # "absent"
           /\ phase[r] \in {"running", "cancel_requested"} =>
                 phase'[r] \in {"running", "cancel_requested"}
  <1>1. phase \in [Requests -> DispatchPhases \cup {"absent"}]
    BY DEF AskInv, AskTypes
  <1> DEFINE p == Cancelled(phase[r])
  <1>2. /\ p \in DispatchPhases \cup {"absent"}
        /\ phase[r] \notin {"absent", "admitted"} => p \notin {"absent", "admitted"}
        /\ phase[r] # "absent" => p # "absent"
        /\ phase[r] \in {"running", "cancel_requested"} => p \in {"running", "cancel_requested"}
    BY <1>1, Edges
  <1>3. phase' = phase \/ phase' = [phase EXCEPT ![r] = p]
    OBVIOUS
  <1> HIDE DEF p
  <1> QED
    BY <1>1, <1>2, <1>3

\* A driver that reads nothing keeps its reader.
LEMMA ReaderKept ==
    ASSUME AskInv, NEW r \in Requests, reader' = reader
    PROVE  /\ reader' \in [Requests -> Readers] /\ ReaderAt(reader'[r], captured[r])
           /\ \A q \in Requests \ {r} : reader'[q] = reader[q]
  BY AskFacts DEF AskInv, AskTypes

\* The types that no step of the driver touches.
LEMMA DriverTypes ==
    ASSUME AskInv, task' = task, captured' = captured,
           phase' \in [Requests -> DispatchPhases \cup {"absent"}],
           asking' \in [Requests -> Askings], reader' \in [Requests -> Readers],
           ended' = [q \in Requests |-> ended'[q]]
    PROVE  AskTypes'
  BY DEF AskInv, AskTypes

LEMMA SubmitStep ==
    ASSUME AskInv, NEW r \in Requests, Submit(r)
    PROVE  AskInv'
  <1>1. /\ asking[r].pc = "submit" /\ phase' = [phase EXCEPT ![r] = "admitted"]
        /\ Goto(r, "poll") /\ UNCHANGED <<task, transcriptVars>>
        /\ reader' = reader /\ ended' = ended
        /\ captured' = captured /\ task' = task
    BY DEF Submit, transcriptVars
  <1>2. phase[r] = "absent"
    BY <1>1, AskFacts
  <1>3. /\ phase' \in [Requests -> DispatchPhases \cup {"absent"}] /\ phase'[r] = "admitted"
        /\ \A q \in Requests \ {r} : phase'[q] = phase[q]
    <2>1. "admitted" \in DispatchPhases \cup {"absent"}
      BY DEF DispatchPhases, ActivePhases
    <2> QED
      BY <1>1, <2>1 DEF AskInv, AskTypes
  <1>4. /\ asking' \in [Requests -> Askings] /\ asking'[r].pc = "poll"
        /\ \A q \in Requests \ {r} : asking'[q] = asking[q]
    BY <1>1, GotoPut DEF Pcs
  <1>5. ended[r] # "inconsistent" /\ ended[r] \notin {"completed", "unverified"}
    BY <1>1, AskFacts
  <1>6. ended' = [q \in Requests |-> ended'[q]]
    BY <1>1 DEF AskInv, AskTypes
  <1>7. /\ reader' \in [Requests -> Readers] /\ ReaderAt(reader'[r], captured[r])
        /\ \A q \in Requests \ {r} : reader'[q] = reader[q]
    BY <1>1, ReaderKept
  <1>8. AskTypes'
    BY <1>1, <1>3, <1>4, <1>6, <1>7, DriverTypes
  <1>9. DriverMove(r)
    BY <1>1, <1>2, <1>3, <1>4, <1>5, <1>7, <1>8 DEF DriverMove
  <1> QED
    BY <1>9, DriverMoves

\* The driver gives up or is refused: its end promises no reply.
LEMMA EndStep ==
    ASSUME AskInv, NEW r \in Requests, NEW e, e \notin {"inconsistent", "completed", "unverified"},
           Ends(r, e), Goto(r, "done"), UNCHANGED <<task, transcriptVars, reader>>,
           phase' = phase \/ phase' = [phase EXCEPT ![r] = Cancelled(phase[r])]
    PROVE  AskInv'
  <1>1. captured' = captured /\ task' = task /\ reader' = reader
    BY DEF transcriptVars
  <1>2. /\ ended' = [q \in Requests |-> ended'[q]] /\ ended'[r] = e
        /\ \A q \in Requests \ {r} : ended'[q] = ended[q]
    BY EndsPut
  <1>3. /\ asking' \in [Requests -> Askings] /\ asking'[r].pc = "done"
        /\ \A q \in Requests \ {r} : asking'[q] = asking[q]
    BY GotoPut DEF Pcs
  <1>4. /\ phase' \in [Requests -> DispatchPhases \cup {"absent"}]
        /\ \A q \in Requests \ {r} : phase'[q] = phase[q]
        /\ phase[r] \notin {"absent", "admitted"} => phase'[r] \notin {"absent", "admitted"}
        /\ phase[r] # "absent" => phase'[r] # "absent"
        /\ phase[r] \in {"running", "cancel_requested"} =>
              phase'[r] \in {"running", "cancel_requested"}
    BY CancelPut
  <1>5. /\ reader' \in [Requests -> Readers] /\ ReaderAt(reader'[r], captured[r])
        /\ \A q \in Requests \ {r} : reader'[q] = reader[q]
    BY <1>1, ReaderKept
  <1>6. AskTypes'
    BY <1>1, <1>2, <1>3, <1>4, <1>5, DriverTypes
  <1>7. DriverMove(r)
    BY <1>2, <1>3, <1>4, <1>5, <1>6 DEF DriverMove, Driving
  <1> QED
    BY <1>7, DriverMoves

\* A step of the driver that ends nothing and shows nothing new.
LEMMA QuietStep ==
    ASSUME AskInv, NEW r \in Requests, asking[r].pc \in Driving,
           UNCHANGED <<task, transcriptVars, reader, ended>>,
           phase' = phase \/ phase' = [phase EXCEPT ![r] = Cancelled(phase[r])],
           asking' \in [Requests -> Askings], asking'[r].pc # "submit",
           asking'[r].pc = "status" => asking'[r].output \notin {"none", "delivered"},
           \A q \in Requests \ {r} : asking'[q] = asking[q]
    PROVE  AskInv'
  <1>1. captured' = captured /\ task' = task /\ reader' = reader /\ ended' = ended
    BY DEF transcriptVars
  <1>2. /\ ended' = [q \in Requests |-> ended'[q]] /\ ended'[r] # "inconsistent"
        /\ ended'[r] \notin {"completed", "unverified"} /\ phase[r] # "absent"
    BY <1>1, AskFacts DEF AskInv, AskTypes, Driving
  <1>3. /\ phase' \in [Requests -> DispatchPhases \cup {"absent"}]
        /\ \A q \in Requests \ {r} : phase'[q] = phase[q]
        /\ phase[r] \notin {"absent", "admitted"} => phase'[r] \notin {"absent", "admitted"}
        /\ phase[r] # "absent" => phase'[r] # "absent"
        /\ phase[r] \in {"running", "cancel_requested"} =>
              phase'[r] \in {"running", "cancel_requested"}
    BY CancelPut
  <1>4. /\ reader' \in [Requests -> Readers] /\ ReaderAt(reader'[r], captured[r])
        /\ \A q \in Requests \ {r} : reader'[q] = reader[q]
    BY <1>1, ReaderKept
  <1>5. AskTypes'
    BY <1>1, <1>2, <1>3, <1>4, DriverTypes
  <1>6. DriverMove(r)
    BY <1>1, <1>2, <1>3, <1>4, <1>5 DEF DriverMove
  <1> QED
    BY <1>6, DriverMoves

LEMMA SendCancelStep ==
    ASSUME AskInv, NEW r \in Requests, SendCancel(r)
    PROVE  AskInv'
  <1>1. asking[r].pc = "poll" /\ UNCHANGED <<task, transcriptVars, reader, restarts>>
    BY DEF SendCancel
  <1>2. CASE /\ asking' = [asking EXCEPT ![r].pc = "read", ![r].pages = 0, ![r].cancelSent = TRUE]
             /\ phase' = [phase EXCEPT ![r] = Cancelled(@)]
             /\ UNCHANGED ended
    <2> DEFINE ak == [asking[r] EXCEPT !.pc = "read", !.pages = 0, !.cancelSent = TRUE]
    <2>1. asking \in [Requests -> Askings]
      BY DEF AskInv, AskTypes
    <2>2. ak \in Askings /\ ak.pc = "read"
      BY <2>1 DEF Askings, Pcs
    <2>3. asking' = [asking EXCEPT ![r] = ak]
      BY <1>2, <2>1
    <2> HIDE DEF ak
    <2>4. /\ asking' \in [Requests -> Askings] /\ asking'[r].pc = "read"
          /\ \A q \in Requests \ {r} : asking'[q] = asking[q]
      BY <2>1, <2>2, <2>3
    <2>5. asking[r].pc \in Driving
      BY <1>1 DEF Driving
    <2>6. phase' = [phase EXCEPT ![r] = Cancelled(phase[r])]
      BY <1>2
    <2> QED
      BY <1>1, <1>2, <2>4, <2>5, <2>6, QuietStep
  <1>3. CASE Ends(r, "cancel_refused") /\ Goto(r, "done") /\ UNCHANGED phase
    BY <1>1, <1>3, EndStep
  <1> QED
    BY <1>2, <1>3 DEF SendCancel

LEMMA NoCancelStep ==
    ASSUME AskInv, NEW r \in Requests, NoCancel(r)
    PROVE  AskInv'
  <1> DEFINE ak == [asking[r] EXCEPT !.pc = "read", !.pages = 0]
  <1>1. /\ asking[r].pc = "poll" /\ UNCHANGED <<task, transcriptVars, reader, ended>>
        /\ phase' = phase
        /\ asking' = [asking EXCEPT ![r].pc = "read", ![r].pages = 0]
    BY DEF NoCancel, daemonVars
  <1>2. asking \in [Requests -> Askings]
    BY DEF AskInv, AskTypes
  <1>3. ak \in Askings /\ ak.pc = "read"
    BY <1>2 DEF Askings, Pcs
  <1>4. asking' = [asking EXCEPT ![r] = ak]
    BY <1>1, <1>2
  <1> HIDE DEF ak
  <1>5. /\ asking' \in [Requests -> Askings] /\ asking'[r].pc = "read"
        /\ \A q \in Requests \ {r} : asking'[q] = asking[q]
    BY <1>2, <1>3, <1>4
  <1>6. asking[r].pc \in Driving
    BY <1>1 DEF Driving
  <1> QED
    BY <1>1, <1>5, <1>6, QuietStep

LEMMA ReadMissingStep ==
    ASSUME AskInv, NEW r \in Requests, ReadMissing(r)
    PROVE  AskInv'
  <1>1. /\ asking[r].pc = "read" /\ UNCHANGED <<task, transcriptVars, reader, ended>>
        /\ phase' = phase /\ Output(r, "missing")
    BY DEF ReadMissing, daemonVars
  <1>2. /\ asking' \in [Requests -> Askings]
        /\ asking'[r].pc = "status" /\ asking'[r].output = "missing"
        /\ \A q \in Requests \ {r} : asking'[q] = asking[q]
    BY <1>1, OutputPut
  <1>3. asking[r].pc \in Driving
    BY <1>1 DEF Driving
  <1> QED
    BY <1>1, <1>2, <1>3, QuietStep

LEMMA RefuseStep ==
    ASSUME AskInv, NEW r \in Requests, Refuse(r)
    PROVE  AskInv'
  <1>1. /\ Ends(r, "refused") /\ Goto(r, "done") /\ phase' = phase
        /\ UNCHANGED <<task, transcriptVars, reader>>
    BY DEF Refuse, daemonVars
  <1> QED
    BY <1>1, EndStep

LEMMA GiveUpStep ==
    ASSUME AskInv, NEW r \in Requests, GiveUp(r)
    PROVE  AskInv'
  <1>1. /\ Ends(r, "gave_up") /\ Goto(r, "done")
        /\ UNCHANGED <<task, transcriptVars, reader>>
    BY DEF GiveUp
  <1>2. phase' = phase \/ phase' = [phase EXCEPT ![r] = Cancelled(phase[r])]
    BY DEF GiveUp, Abandoned
  <1> QED
    BY <1>1, <1>2, EndStep

\* Only what was delivered to its end lets an Ask end with a reply.
LEMMA ReadStatusStep ==
    ASSUME AskInv, NEW r \in Requests, ReadStatus(r)
    PROVE  AskInv'
  <1> DEFINE end == AttemptEnd(phase[r])
             how == IF end = "no" THEN "no" ELSE OutcomeOf(asking[r].output, end)
             pc == IF how = "no" THEN "poll" ELSE "done"
  <1>1. /\ asking[r].pc = "status" /\ Ends(r, how) /\ Goto(r, pc)
        /\ UNCHANGED <<task, transcriptVars, reader>> /\ phase' = phase
        /\ captured' = captured /\ task' = task /\ reader' = reader
    BY DEF ReadStatus, daemonVars, transcriptVars
  <1>2. phase[r] # "absent" /\ asking[r].output # "none"
    BY <1>1, AskFacts DEF Driving
  <1>3. end \in {"no", "dispatch_recovery_pending"} \cup TerminalPhases
    <2>1. phase[r] \in DispatchPhases
      BY <1>2, AskFacts
    <2> QED
      BY <2>1 DEF AttemptEnd, IsTerminal, DispatchPhases, ActivePhases, TerminalPhases
  <1>4. asking[r].output \in {"delivered", "missing", "partial"}
    <2>1. asking[r] \in Askings
      BY AskFacts
    <2> QED
      BY <1>2, <2>1 DEF Askings
  <1>5. how # "inconsistent" /\ (how \in {"completed", "unverified"} => asking[r].output = "delivered")
    <2> HIDE DEF end
    <2> QED
      BY <1>3, <1>4 DEF OutcomeOf, MissingEnd, TerminalPhases
  <1>6. how = "no" => how \notin {"completed", "unverified"}
    OBVIOUS
  <1> HIDE DEF how
  <1>7. /\ ended' = [q \in Requests |-> ended'[q]] /\ ended'[r] = how
        /\ \A q \in Requests \ {r} : ended'[q] = ended[q]
    BY <1>1, EndsPut
  <1>8. pc \in {"poll", "done"} /\ pc \in Pcs /\ (how # "no" => pc = "done")
    BY DEF Pcs
  <1> HIDE DEF pc
  <1>9. /\ asking' \in [Requests -> Askings] /\ asking'[r].pc = pc
        /\ \A q \in Requests \ {r} : asking'[q] = asking[q]
    BY <1>1, <1>8, GotoPut
  <1>10. /\ reader' \in [Requests -> Readers] /\ ReaderAt(reader'[r], captured[r])
         /\ \A q \in Requests \ {r} : reader'[q] = reader[q]
    BY <1>1, ReaderKept
  <1>11. phase' \in [Requests -> DispatchPhases \cup {"absent"}]
    BY <1>1 DEF AskInv, AskTypes
  <1>12. AskTypes'
    BY <1>1, <1>7, <1>9, <1>10, <1>11, DriverTypes
  <1>13. how \in {"completed", "unverified"} =>
            pc = "done" /\ Sealed(r) /\ reader[r].records = captured[r] /\ reader[r].part = 0
    BY <1>1, <1>5, <1>6, <1>8, AskFacts DEF Whole
  <1>14. DriverMove(r)
    BY <1>1, <1>2, <1>5, <1>7, <1>8, <1>9, <1>10, <1>12, <1>13 DEF DriverMove
  <1> QED
    BY <1>14, DriverMoves

\* What is served for r is what was captured of it.
LEMMA ServedCaptured ==
    ASSUME AskInv, NEW r \in Requests, Available(r)
    PROVE  /\ Records(r) = captured[r]
           /\ IsFinished(r) => Sealed(r)
  <1>1. CASE r \in DOMAIN live
    BY <1>1 DEF AskInv, ServedInv, Records, IsFinished
  <1>2. CASE r \notin DOMAIN live
    <2> DEFINE at == CHOOSE i \in RetainedAt(r) : TRUE
    <2>1. RetainedAt(r) # {}
      BY <1>2 DEF Available
    <2>2. at \in RetainedAt(r)
      BY <2>1
    <2>3. Records(r) = finished[at].records
      BY <1>2 DEF Records
    <2> HIDE DEF at
    <2>4. at \in DOMAIN finished /\ finished[at].request = r
      BY <2>2 DEF RetainedAt
    <2> QED
      BY <2>3, <2>4 DEF AskInv, ServedInv
  <1> QED
    BY <1>1, <1>2

LEMMA ReadPageStep ==
    ASSUME AskInv, NEW r \in Requests, ReadPage(r)
    PROVE  /\ AskInv'
           /\ \A q \in Requests : reader'[q] = reader[q] \/ Advances(reader[q], reader'[q])
  <1>1. /\ asking[r].pc = "read" /\ Available(r)
        /\ UNCHANGED <<task, transcriptVars>> /\ captured' = captured /\ task' = task
    BY DEF ReadPage, transcriptVars
  <1> DEFINE c == CursorOf(reader[r])
  <1>2. PICK fs \in Fragments(Records(r), c) :
          \E page \in {OutputPage(r, c, fs)} :
          \E read \in {AfterRead(r, page)} :
              /\ reader' = [reader EXCEPT ![r] = read]
              /\ IF read.consistent THEN UNCHANGED ended ELSE Ends(r, "inconsistent")
              /\ CASE ~read.consistent -> Goto(r, "done")
                   [] read.consistent /\ page.complete -> Output(r, "delivered")
                   [] read.consistent /\ ~page.complete ->
                         IF page.fragments = << >> \/ asking[r].pages + 1 = MaxPages
                         THEN Output(r, "partial")
                         ELSE asking' = [asking EXCEPT ![r].pages = @ + 1]
              /\ phase' \in IF read.consistent THEN {phase} ELSE Abandoned(r)
    BY DEF ReadPage
  <1> DEFINE page == OutputPage(r, c, fs)
             read == AfterRead(r, page)
  <1>3. /\ reader' = [reader EXCEPT ![r] = read]
        /\ IF read.consistent THEN UNCHANGED ended ELSE Ends(r, "inconsistent")
        /\ CASE ~read.consistent -> Goto(r, "done")
             [] read.consistent /\ page.complete -> Output(r, "delivered")
             [] read.consistent /\ ~page.complete ->
                   IF page.fragments = << >> \/ asking[r].pages + 1 = MaxPages
                   THEN Output(r, "partial")
                   ELSE asking' = [asking EXCEPT ![r].pages = @ + 1]
        /\ phase' \in IF read.consistent THEN {phase} ELSE Abandoned(r)
    BY <1>2
  <1>4. /\ Records(r) = captured[r]
        /\ IsFinished(r) => Sealed(r)
    BY <1>1, ServedCaptured
  <1>5. /\ page.fragments = fs /\ page.next = NextCursor(c, fs)
        /\ page.complete = (IsFinished(r) /\ DeliveredAll(Records(r), page.next))
    BY DEF OutputPage
  <1> HIDE DEF page
  <1>6. /\ ValidCursor(captured[r], c)
        /\ Accept(reader[r], page) \in Readers
        /\ ReaderAt(Accept(reader[r], page), captured[r])
        /\ DeliveredAll(captured[r], page.next) =>
              Accept(reader[r], page).records = captured[r] /\ Accept(reader[r], page).part = 0
        /\ Accept(reader[r], page) = reader[r] \/ Advances(reader[r], Accept(reader[r], page))
    <2>1. /\ reader[r] \in Readers /\ captured[r] \in Seq(Sizes)
          /\ ReaderAt(reader[r], captured[r]) /\ fs \in Fragments(captured[r], CursorOf(reader[r]))
      BY <1>4, AskFacts
    <2> QED
      BY <1>5, <2>1, PageAccepted
  <1>7. read = Accept(reader[r], page)
    BY <1>4, <1>6 DEF AfterRead
  <1> HIDE DEF read
  <1>8. /\ read \in Readers /\ ReaderAt(read, captured[r]) /\ read.consistent
        /\ page.complete => Sealed(r) /\ read.records = captured[r] /\ read.part = 0
    BY <1>4, <1>5, <1>6, <1>7 DEF ReaderAt
  <1>9. /\ reader' \in [Requests -> Readers] /\ reader'[r] = read
        /\ \A q \in Requests \ {r} : reader'[q] = reader[q]
    BY <1>3, <1>8 DEF AskInv, AskTypes
  <1>10. ended' = ended /\ phase' = phase
    BY <1>3, <1>8
  <1>11. /\ asking' \in [Requests -> Askings]
         /\ asking'[r].pc \in {"read", "status"}
         /\ asking'[r].pc = "status" => asking'[r].output # "none"
         /\ asking'[r].pc = "status" /\ asking'[r].output = "delivered" => page.complete
         /\ \A q \in Requests \ {r} : asking'[q] = asking[q]
    <2>1. \/ page.complete /\ Output(r, "delivered")
          \/ Output(r, "partial")
          \/ asking' = [asking EXCEPT ![r].pages = @ + 1]
      BY <1>3, <1>8
    <2>2. CASE page.complete /\ Output(r, "delivered")
      BY <2>2, OutputPut
    <2>3. CASE Output(r, "partial")
      BY <2>3, OutputPut
    <2>4. CASE asking' = [asking EXCEPT ![r].pages = @ + 1]
      <3> DEFINE ak == [asking[r] EXCEPT !.pages = asking[r].pages + 1]
      <3>1. asking \in [Requests -> Askings]
        BY DEF AskInv, AskTypes
      <3>2. asking[r].pages + 1 \in Nat
        BY <3>1 DEF Askings
      <3>3. ak \in Askings /\ ak.pc = asking[r].pc
        BY <3>1, <3>2 DEF Askings
      <3>4. asking' = [asking EXCEPT ![r] = ak]
        BY <2>4, <3>1
      <3> HIDE DEF ak
      <3> QED
        BY <1>1, <3>1, <3>3, <3>4
    <2> QED
      BY <2>1, <2>2, <2>3, <2>4
  <1>12. /\ ended' = [q \in Requests |-> ended'[q]] /\ ended'[r] # "inconsistent"
         /\ ended'[r] \notin {"completed", "unverified"} /\ phase[r] # "absent"
    BY <1>1, <1>10, AskFacts DEF AskInv, AskTypes, Driving
  <1>13. phase' \in [Requests -> DispatchPhases \cup {"absent"}]
    BY <1>10 DEF AskInv, AskTypes
  <1>14. AskTypes'
    BY <1>1, <1>9, <1>11, <1>12, <1>13, DriverTypes
  <1>15. DriverMove(r)
    BY <1>1, <1>8, <1>9, <1>10, <1>11, <1>12, <1>14 DEF DriverMove
  <1>16. \A q \in Requests : reader'[q] = reader[q] \/ Advances(reader[q], reader'[q])
    BY <1>6, <1>7, <1>9
  <1> QED
    BY <1>15, <1>16, DriverMoves

----------------------------------------------------------------------------
\* A step of an attempt or of the daemon: the driver notices none of it.
AttemptMove ==
    /\ UNCHANGED clientVars
    /\ StoreInv' /\ TaskInv' /\ ServedInv'
    /\ phase' \in [Requests -> DispatchPhases \cup {"absent"}]
    /\ task' \in [Requests -> Tasks]
    /\ captured' \in [Requests -> Seq(Sizes)]
    /\ \A q \in Requests :
          /\ Sealed(q) => Sealed(q)' /\ captured'[q] = captured[q]
          /\ ReaderAt(reader[q], captured'[q])
          /\ phase'[q] = "absent" <=> phase[q] = "absent"

LEMMA AttemptMoves ==
    ASSUME AskInv, AttemptMove
    PROVE  AskInv'
  <1>1. asking' = asking /\ reader' = reader /\ ended' = ended
    BY DEF AttemptMove, clientVars
  <1>2. AskTypes'
    BY <1>1 DEF AttemptMove, AskInv, AskTypes
  <1>3. DriverInv'
    <2> SUFFICES ASSUME NEW q \in Requests
                 PROVE  /\ asking'[q].pc = "submit" => phase'[q] = "absent"
                        /\ asking'[q].pc \in Driving => phase'[q] # "absent"
                        /\ asking'[q].pc = "status" => asking'[q].output # "none"
                        /\ ended'[q] # "inconsistent"
                        /\ ReaderAt(reader'[q], captured'[q])
                        /\ asking'[q].pc = "status" /\ asking'[q].output = "delivered" =>
                              Sealed(q)' /\ Whole(q)'
                        /\ ended'[q] \in {"completed", "unverified"} =>
                              asking'[q].pc = "done" /\ Sealed(q)' /\ Whole(q)'
      BY DEF DriverInv, ReaderAt, Whole, Sealed
    <2>1. /\ Sealed(q) => Sealed(q)' /\ captured'[q] = captured[q]
          /\ ReaderAt(reader[q], captured'[q])
          /\ phase'[q] = "absent" <=> phase[q] = "absent"
      BY DEF AttemptMove
    <2>2. Sealed(q) /\ Whole(q) => Sealed(q)' /\ Whole(q)'
      BY <1>1, <2>1 DEF Whole
    <2> QED
      BY <1>1, <2>1, <2>2, AskFacts
  <1> QED
    BY <1>2, <1>3 DEF AttemptMove, AskInv

\* Entries of the retention name requests.
LEMMA RetainedRequest ==
    ASSUME AskInv, NEW i \in DOMAIN finished
    PROVE  /\ finished[i].request \in Requests /\ Sealed(finished[i].request)
           /\ finished[i].records = captured[finished[i].request]
  <1>1. finished[i] \in Retained
    BY LenProperties, ElementOfSeq DEF AskInv, StoreInv
  <1> QED
    BY <1>1 DEF Retained, AskInv, ServedInv

\* The same for those that capture.
LEMMA LiveRequest ==
    ASSUME AskInv, NEW q \in DOMAIN live
    PROVE  q \in Requests /\ task[q] = "capturing" /\ live[q] = captured[q]
  BY DEF AskInv, StoreInv, LiveOf, ServedInv

\* A writer call of an attempt task, or its failure: the phase of r moves on to
\* p, its task to t, and no transcript is touched.
LEMMA WriterCallMoves ==
    ASSUME AskInv, NEW r \in Requests, NEW p \in DispatchPhases, NEW t \in Tasks,
           phase' = [phase EXCEPT ![r] = p], task' = [task EXCEPT ![r] = t],
           UNCHANGED transcriptVars, UNCHANGED clientVars,
           phase[r] # "absent", p = "admitted" => phase[r] = "admitted",
           task[r] # "capturing", t # "capturing",
           t \in AtWork => p \in {"running", "cancel_requested"},
           t = "claimed" => phase[r] = "admitted"
    PROVE  AskInv'
  <1>1. live' = live /\ finished' = finished /\ captured' = captured
    BY DEF transcriptVars
  <1>2. /\ phase \in [Requests -> DispatchPhases \cup {"absent"}]
        /\ task \in [Requests -> Tasks] /\ captured \in [Requests -> Seq(Sizes)]
    BY DEF AskInv, AskTypes
  <1>3. /\ phase' \in [Requests -> DispatchPhases \cup {"absent"}]
        /\ phase'[r] = p /\ \A q \in Requests \ {r} : phase'[q] = phase[q]
    BY <1>2
  <1>4. p # "absent"
    BY DEF DispatchPhases, ActivePhases, TerminalPhases
  <1>5. /\ task' \in [Requests -> Tasks]
        /\ task'[r] = t /\ \A q \in Requests \ {r} : task'[q] = task[q]
    BY <1>2
  <1>6. \A q \in Requests : Sealed(q) => Sealed(q)'
    BY <1>3, <1>4, <1>5 DEF Sealed
  <1>7. StoreInv'
    BY StoreStutters DEF AskInv
  <1>8. TaskInv'
    BY <1>1, <1>3, <1>4, <1>5, AskFacts DEF TaskInv, AtWork
  <1>9. ServedInv'
    <2>1. \A q \in DOMAIN live : task'[q] = "capturing" /\ live[q] = captured[q]
      BY <1>5, LiveRequest
    <2>2. \A i \in DOMAIN finished :
             Sealed(finished[i].request)' /\ finished[i].records = captured[finished[i].request]
      BY <1>1, <1>6, RetainedRequest DEF Sealed
    <2> QED
      BY <1>1, <2>1, <2>2 DEF ServedInv, Sealed
  <1>10. \A q \in Requests : phase'[q] = "absent" <=> phase[q] = "absent"
    BY <1>3, <1>4
  <1>11. AttemptMove
    BY <1>1, <1>2, <1>3, <1>5, <1>6, <1>7, <1>8, <1>9, <1>10, AskFacts DEF AttemptMove
  <1> QED
    BY <1>11, AttemptMoves

LEMMA ClaimStep ==
    ASSUME AskInv, NEW r \in Requests, Claim(r)
    PROVE  AskInv'
  <1>1. /\ task[r] = "none" /\ phase[r] = "admitted"
        /\ phase' = [phase EXCEPT ![r] = "running"]
        /\ task' = [task EXCEPT ![r] = "claimed"]
        /\ UNCHANGED transcriptVars /\ UNCHANGED clientVars
    BY Edges DEF Claim
  <1>2. "running" \in DispatchPhases /\ "claimed" \in Tasks
    BY DEF DispatchPhases, ActivePhases, Tasks
  <1> QED
    BY <1>1, <1>2, WriterCallMoves

LEMMA ClaimLostStep ==
    ASSUME AskInv, NEW r \in Requests, ClaimLost(r)
    PROVE  AskInv'
  <1>1. /\ task[r] = "none" /\ phase[r] = "admitted"
        /\ phase' = phase /\ task' = [task EXCEPT ![r] = "claim_lost"]
        /\ UNCHANGED transcriptVars /\ UNCHANGED clientVars
    BY DEF ClaimLost
  <1>2. phase' = [phase EXCEPT ![r] = "admitted"]
    BY <1>1 DEF AskInv, AskTypes
  <1>3. "admitted" \in DispatchPhases /\ "claim_lost" \in Tasks \ AtWork
    BY DEF DispatchPhases, ActivePhases, Tasks, AtWork
  <1> QED
    BY <1>1, <1>2, <1>3, WriterCallMoves

LEMMA LateClaimStep ==
    ASSUME AskInv, NEW r \in Requests, LateClaim(r)
    PROVE  AskInv'
  <1>1. /\ task[r] = "claim_lost" /\ phase[r] = "admitted"
        /\ phase' = [phase EXCEPT ![r] = "running"] /\ task' = task
        /\ UNCHANGED transcriptVars /\ UNCHANGED clientVars
    BY Edges DEF LateClaim
  <1>2. task' = [task EXCEPT ![r] = "claim_lost"]
    BY <1>1 DEF AskInv, AskTypes
  <1>3. "running" \in DispatchPhases /\ "claim_lost" \in Tasks \ AtWork
    BY DEF DispatchPhases, ActivePhases, Tasks, AtWork
  <1> QED
    BY <1>1, <1>2, <1>3, WriterCallMoves

LEMMA BeginCaptureStep ==
    ASSUME AskInv, NEW r \in Requests, BeginCapture(r)
    PROVE  AskInv'
  <1>1. /\ task[r] = "claimed" /\ Begin(r) /\ phase' = phase
        /\ task' = [task EXCEPT ![r] = "capturing"] /\ UNCHANGED clientVars
    BY DEF BeginCapture
  <1>2. ~Sealed(r) /\ captured[r] = << >>
    BY <1>1, AskFacts DEF Sealed
  <1>3. /\ phase \in [Requests -> DispatchPhases \cup {"absent"}]
        /\ task \in [Requests -> Tasks] /\ captured \in [Requests -> Seq(Sizes)]
    BY DEF AskInv, AskTypes
  <1>4. captured' = captured
    BY <1>1, <1>2, <1>3 DEF Begin
  <1>5. /\ task' \in [Requests -> Tasks]
        /\ task'[r] = "capturing" /\ \A q \in Requests \ {r} : task'[q] = task[q]
    BY <1>1, <1>3 DEF Tasks
  <1>6. StoreInv'
    BY <1>1, BeginStore DEF AskInv
  <1>7. RetainedAt(r) = {}
    BY <1>2, RetainedRequest DEF RetainedAt
  <1>8. finished' = finished
    BY <1>1, <1>7 DEF Begin
  <1>9. /\ DOMAIN live' = DOMAIN live \cup {r} /\ live'[r] = << >>
        /\ \A q \in DOMAIN live \ {r} : live'[q] = live[q]
    BY <1>1 DEF Begin
  <1>10. \A q \in Requests : Sealed(q) => Sealed(q)'
    BY <1>1, <1>2, <1>5 DEF Sealed
  <1>11. TaskInv'
    BY <1>1, <1>4, <1>5, AskFacts DEF TaskInv, AtWork
  <1>12. ServedInv'
    <2>1. \A q \in DOMAIN live' : task'[q] = "capturing" /\ live'[q] = captured[q]
      BY <1>2, <1>5, <1>9, LiveRequest
    <2>2. \A i \in DOMAIN finished :
             Sealed(finished[i].request)' /\ finished[i].records = captured[finished[i].request]
      BY <1>8, <1>10, RetainedRequest DEF Sealed
    <2> QED
      BY <1>4, <1>8, <2>1, <2>2 DEF ServedInv, Sealed
  <1>13. AttemptMove
    BY <1>1, <1>3, <1>4, <1>5, <1>6, <1>10, <1>11, <1>12, AskFacts DEF AttemptMove
  <1> QED
    BY <1>13, AttemptMoves

LEMMA CaptureStep ==
    ASSUME AskInv, NEW r \in Requests, NEW size \in Sizes, Capture(r, size)
    PROVE  AskInv'
  <1>1. /\ task[r] = "capturing" /\ AppendRecord(r, size) /\ UNCHANGED clientVars
        /\ phase' = phase /\ task' = task
    BY DEF Capture, daemonVars
  <1>2. ~Sealed(r)
    BY <1>1 DEF Sealed
  <1>3. /\ phase \in [Requests -> DispatchPhases \cup {"absent"}]
        /\ task \in [Requests -> Tasks] /\ captured \in [Requests -> Seq(Sizes)]
    BY DEF AskInv, AskTypes
  <1>4. /\ captured' = [captured EXCEPT ![r] = Append(captured[r], size)]
        /\ live' = [live EXCEPT ![r] = Append(live[r], size)]
        /\ r \in DOMAIN live /\ finished' = finished
    BY <1>1 DEF AppendRecord
  <1>5. /\ captured' \in [Requests -> Seq(Sizes)]
        /\ captured'[r] = Append(captured[r], size)
        /\ \A q \in Requests \ {r} : captured'[q] = captured[q]
    BY <1>3, <1>4
  <1>6. StoreInv'
    BY <1>1, AppendStore DEF AskInv
  <1>7. /\ DOMAIN live' = DOMAIN live /\ live'[r] = Append(live[r], size)
        /\ \A q \in DOMAIN live \ {r} : live'[q] = live[q]
    BY <1>4
  <1>8. \A q \in Requests : Sealed(q)' <=> Sealed(q)
    BY <1>1 DEF Sealed
  <1>9. TaskInv'
    BY <1>1, <1>5, AskFacts DEF TaskInv, AtWork
  <1>10. ServedInv'
    <2>1. \A q \in DOMAIN live' : task[q] = "capturing" /\ live'[q] = captured'[q]
      BY <1>4, <1>5, <1>7, LiveRequest
    <2>2. \A i \in DOMAIN finished :
             Sealed(finished[i].request)' /\ finished[i].records = captured'[finished[i].request]
      <3> SUFFICES ASSUME NEW i \in DOMAIN finished
                   PROVE  /\ Sealed(finished[i].request)'
                          /\ finished[i].records = captured'[finished[i].request]
        OBVIOUS
      <3>1. /\ finished[i].request \in Requests /\ Sealed(finished[i].request)
            /\ finished[i].records = captured[finished[i].request]
        BY RetainedRequest
      <3>2. finished[i].request # r
        BY <1>2, <3>1
      <3> QED
        BY <1>4, <1>5, <1>8, <3>1, <3>2 DEF Sealed
    <2> QED
      BY <1>1, <1>4, <2>1, <2>2 DEF ServedInv, Sealed
  <1>11. \A q \in Requests : ReaderAt(reader[q], captured'[q])
    <2> SUFFICES ASSUME NEW q \in Requests PROVE ReaderAt(reader[q], captured'[q])
      OBVIOUS
    <2>1. ReaderAt(reader[q], captured[q]) /\ reader[q] \in Readers /\ captured[q] \in Seq(Sizes)
      BY AskFacts
    <2>2. CASE q = r
      BY <1>5, <2>1, <2>2, ReaderOutgrown
    <2>3. CASE q # r
      BY <1>5, <2>1, <2>3
    <2> QED
      BY <2>2, <2>3
  <1>12. \A q \in Requests : Sealed(q) => captured'[q] = captured[q]
    BY <1>2, <1>5
  <1>13. AttemptMove
    BY <1>1, <1>3, <1>5, <1>6, <1>8, <1>9, <1>10, <1>11, <1>12 DEF AttemptMove
  <1> QED
    BY <1>13, AttemptMoves

LEMMA EndCaptureStep ==
    ASSUME AskInv, NEW r \in Requests, EndCapture(r)
    PROVE  AskInv'
  <1>1. /\ task[r] = "capturing" /\ FinishTranscript(r) /\ phase' = phase
        /\ task' = [task EXCEPT ![r] = "captured"] /\ UNCHANGED clientVars
    BY DEF EndCapture
  <1>2. /\ phase \in [Requests -> DispatchPhases \cup {"absent"}]
        /\ task \in [Requests -> Tasks] /\ captured \in [Requests -> Seq(Sizes)]
    BY DEF AskInv, AskTypes
  <1>3. /\ task' \in [Requests -> Tasks]
        /\ task'[r] = "captured" /\ \A q \in Requests \ {r} : task'[q] = task[q]
    BY <1>1, <1>2 DEF Tasks
  <1>4. /\ captured' = captured /\ r \in DOMAIN live
        /\ live' = [q \in DOMAIN live \ {r} |-> live[q]]
    BY <1>1 DEF FinishTranscript
  <1>5. /\ StoreInv'
        /\ \A j \in DOMAIN finished' :
              \/ finished'[j] = [request |-> r, records |-> live[r]]
              \/ \E i \in DOMAIN finished : finished'[j] = finished[i]
    BY <1>1, FinishStore DEF AskInv
  <1>6. phase[r] \in {"running", "cancel_requested"}
    BY <1>1, AskFacts DEF AtWork
  <1>7. \A q \in Requests : Sealed(q) => Sealed(q)'
    BY <1>1, <1>3 DEF Sealed
  <1>8. Sealed(r)'
    BY <1>1, <1>3, <1>6 DEF Sealed
  <1>9. TaskInv'
    BY <1>1, <1>3, <1>4, <1>6, AskFacts DEF TaskInv
  <1>10. ServedInv'
    <2>1. \A q \in DOMAIN live' : task'[q] = "capturing" /\ live'[q] = captured[q]
      BY <1>3, <1>4, LiveRequest
    <2>2. \A j \in DOMAIN finished' :
             /\ Sealed(finished[j].request)'
             /\ finished'[j].records = captured[finished'[j].request]
      <3> SUFFICES ASSUME NEW j \in DOMAIN finished'
                   PROVE  /\ Sealed(finished[j].request)'
                          /\ finished'[j].records = captured[finished'[j].request]
        OBVIOUS
      <3>1. CASE finished'[j] = [request |-> r, records |-> live[r]]
        <4>1. finished'[j].request = r /\ finished'[j].records = live[r] /\ live[r] = captured[r]
          BY <1>4, <3>1, LiveRequest
        <4> QED
          BY <1>8, <4>1 DEF Sealed
      <3>2. CASE \E i \in DOMAIN finished : finished'[j] = finished[i]
        <4>1. PICK i \in DOMAIN finished : finished'[j] = finished[i]
          BY <3>2
        <4>2. /\ finished[i].request \in Requests /\ Sealed(finished[i].request)
              /\ finished[i].records = captured[finished[i].request]
          BY RetainedRequest
        <4> QED
          BY <1>7, <4>1, <4>2 DEF Sealed
      <3> QED
        BY <1>5, <3>1, <3>2
    <2> QED
      BY <1>4, <2>1, <2>2 DEF ServedInv, Sealed
  <1>11. AttemptMove
    BY <1>1, <1>2, <1>3, <1>4, <1>5, <1>7, <1>9, <1>10, AskFacts DEF AttemptMove
  <1> QED
    BY <1>11, AttemptMoves

LEMMA ReportOutcomeStep ==
    ASSUME AskInv, NEW r \in Requests, NEW outcome \in Verdicts, ReportOutcome(r, outcome)
    PROVE  AskInv'
  <1> DEFINE p == FinishEdge(phase[r], outcome).to
  <1>1. /\ task[r] = "captured" /\ phase' = [phase EXCEPT ![r] = p]
        /\ task' = [task EXCEPT ![r] = "none"]
        /\ UNCHANGED transcriptVars /\ UNCHANGED clientVars
    BY DEF ReportOutcome
  <1>2. phase[r] \in {"running", "cancel_requested"} /\ p \in TerminalPhases
    BY <1>1, AskFacts, Edges, AskAssumption DEF AtWork
  <1> HIDE DEF p
  <1>3. p \in DispatchPhases /\ p # "admitted" /\ "none" \in Tasks \ AtWork
    BY <1>2 DEF DispatchPhases, TerminalPhases, Tasks, AtWork
  <1> QED
    BY <1>1, <1>2, <1>3, WriterCallMoves

LEMMA ReportLostStep ==
    ASSUME AskInv, NEW r \in Requests, ReportLost(r)
    PROVE  AskInv'
  <1>1. /\ task[r] = "captured" /\ phase' = phase
        /\ task' = [task EXCEPT ![r] = "report_lost"]
        /\ UNCHANGED transcriptVars /\ UNCHANGED clientVars
    BY DEF ReportLost
  <1>2. phase[r] \in {"running", "cancel_requested"}
    BY <1>1, AskFacts DEF AtWork
  <1>3. phase' = [phase EXCEPT ![r] = phase[r]] /\ phase[r] \in DispatchPhases
    BY <1>1, <1>2 DEF AskInv, AskTypes, DispatchPhases, ActivePhases
  <1>4. "report_lost" \in Tasks \ AtWork
    BY DEF Tasks, AtWork
  <1> QED
    BY <1>1, <1>2, <1>3, <1>4, WriterCallMoves

LEMMA LateReportStep ==
    ASSUME AskInv, NEW r \in Requests, NEW outcome \in Verdicts, LateReport(r, outcome)
    PROVE  AskInv'
  <1> DEFINE p == FinishEdge(phase[r], outcome).to
  <1>1. /\ task[r] = "report_lost" /\ phase[r] \in {"running", "cancel_requested"}
        /\ phase' = [phase EXCEPT ![r] = p] /\ task' = task
        /\ UNCHANGED transcriptVars /\ UNCHANGED clientVars
    BY DEF LateReport
  <1>2. p \in TerminalPhases
    BY <1>1, Edges, AskAssumption
  <1> HIDE DEF p
  <1>3. task' = [task EXCEPT ![r] = "report_lost"]
    BY <1>1 DEF AskInv, AskTypes
  <1>4. p \in DispatchPhases /\ p # "admitted" /\ "report_lost" \in Tasks \ AtWork
    BY <1>2 DEF DispatchPhases, TerminalPhases, Tasks, AtWork
  <1> QED
    BY <1>1, <1>2, <1>3, <1>4, WriterCallMoves

LEMMA RestartStep ==
    ASSUME AskInv, Restart
    PROVE  AskInv'
  <1> DEFINE after(r) == IF RecoverEdge(phase[r]).kind = "changed"
                         THEN RecoverEdge(phase[r]).to ELSE phase[r]
  <1>1. /\ phase' = [r \in Requests |-> after(r)]
        /\ task' = [r \in Requests |-> "none"]
        /\ LoseTranscripts /\ UNCHANGED clientVars
    BY DEF Restart
  <1>2. live' = << >> /\ finished' = << >> /\ captured' = captured
    BY <1>1 DEF LoseTranscripts
  <1>3. /\ phase \in [Requests -> DispatchPhases \cup {"absent"}]
        /\ captured \in [Requests -> Seq(Sizes)]
    BY DEF AskInv, AskTypes
  <1>4. \A q \in Requests :
           /\ after(q) \in DispatchPhases \cup {"absent"}
           /\ after(q) = "absent" <=> phase[q] = "absent"
           /\ after(q) # "admitted"
    BY <1>3, Edges
  <1> HIDE DEF after
  <1>5. /\ phase' \in [Requests -> DispatchPhases \cup {"absent"}]
        /\ \A q \in Requests : /\ phase'[q] = "absent" <=> phase[q] = "absent"
                               /\ phase'[q] # "admitted"
    BY <1>1, <1>4
  <1>6. task' \in [Requests -> Tasks] /\ \A q \in Requests : task'[q] = "none"
    BY <1>1 DEF Tasks
  <1>7. \A q \in Requests : Sealed(q) => Sealed(q)'
    BY <1>5, <1>6 DEF Sealed
  <1>8. StoreInv'
    BY <1>1, LoseStore DEF AskInv
  <1>9. TaskInv'
    BY <1>2, <1>5, <1>6, AskFacts DEF TaskInv, AtWork
  <1>10. ServedInv'
    <2>1. DOMAIN live' = {} /\ DOMAIN finished' = {}
      BY <1>2
    <2> QED
      BY <2>1 DEF ServedInv
  <1>11. AttemptMove
    BY <1>1, <1>2, <1>3, <1>5, <1>6, <1>7, <1>8, <1>9, <1>10, AskFacts DEF AttemptMove
  <1> QED
    BY <1>11, AttemptMoves

----------------------------------------------------------------------------
LEMMA StepAsk == AskInv /\ [AskNext]_askVars => AskInv'
  <1> SUFFICES ASSUME AskInv, [AskNext]_askVars PROVE AskInv'
    OBVIOUS
  <1>1. ASSUME NEW r \in Requests, AttemptStep(r) PROVE AskInv'
    BY <1>1, ClaimStep, ClaimLostStep, BeginCaptureStep, EndCaptureStep, ReportOutcomeStep,
       ReportLostStep DEF AttemptStep
  <1>2. ASSUME NEW r \in Requests, NEW size \in Sizes, Capture(r, size) PROVE AskInv'
    BY <1>2, CaptureStep
  <1>3. ASSUME NEW r \in Requests,
               \/ Submit(r) \/ LateClaim(r) \/ \E outcome \in Verdicts : LateReport(r, outcome)
        PROVE  AskInv'
    BY <1>3, SubmitStep, LateClaimStep, LateReportStep
  <1>4. ASSUME NEW r \in Askers, DriverStep(r) \/ Refuse(r) \/ GiveUp(r) PROVE AskInv'
    <2>1. r \in Requests
      BY AskAssumption
    <2>2. CASE DriverStep(r)
      BY <2>1, <2>2, SendCancelStep, NoCancelStep, ReadPageStep, ReadMissingStep, ReadStatusStep
         DEF DriverStep
    <2>3. CASE Refuse(r)
      BY <2>1, <2>3, RefuseStep
    <2>4. CASE GiveUp(r)
      BY <2>1, <2>4, GiveUpStep
    <2> QED
      BY <1>4, <2>2, <2>3, <2>4
  <1>5. CASE Restart
    BY <1>5, RestartStep
  <1>6. CASE UNCHANGED askVars
    <2>1. /\ UNCHANGED transcriptVars /\ UNCHANGED clientVars
          /\ phase' = phase /\ task' = task
          /\ live' = live /\ finished' = finished /\ captured' = captured
      BY <1>6 DEF askVars, daemonVars, transcriptVars
    <2>2. StoreInv'
      BY <2>1, StoreStutters DEF AskInv
    <2>3. TaskInv' /\ ServedInv'
      BY <2>1 DEF AskInv, TaskInv, ServedInv, Sealed
    <2>4. AttemptMove
      BY <2>1, <2>2, <2>3, AskFacts DEF AttemptMove, Sealed, AskInv, AskTypes
    <2> QED
      BY <2>4, AttemptMoves
  <1> QED
    BY <1>1, <1>2, <1>3, <1>4, <1>5, <1>6 DEF AskNext

\* The store, the attempts and the drivers agree in every reachable state:
\* what is served is what was captured, and what a reader holds is what that
\* begins with.
THEOREM AskInvariant == AskSpec => []AskInv
  <1>1. AskInit => AskInv
    BY InitAsk
  <1>2. AskInv /\ [AskNext]_askVars => AskInv'
    BY StepAsk
  <1> QED
    BY <1>1, <1>2, PTL DEF AskSpec

\* transcript_store.rs, begin, finish and the eviction: the size of what is
\* retained is counted exactly and within both bounds, so the subtraction of
\* an evicted size never wraps.
THEOREM RetentionExactAlways == AskSpec => []RetentionExact
  <1>1. AskInv => RetentionExact
    BY DEF AskInv, StoreInv
  <1> QED
    BY <1>1, AskInvariant, PTL

\* OutputReassembler::accept: wherever pages are cut and whatever happens
\* between two reads, every page is accepted and the reader holds a prefix
\* of what was captured.
THEOREM ReaderFollowsAlways == AskSpec => []ReaderFollows
  <1>1. AskInv => ReaderFollows
    <2> SUFFICES ASSUME AskInv, NEW r \in Askers
                 PROVE  /\ ended[r] # "inconsistent"
                        /\ IsPrefix(reader[r].records, captured[r])
                        /\ reader[r].part > 0 =>
                              /\ Len(reader[r].records) < Len(captured[r])
                              /\ reader[r].part < captured[r][Len(reader[r].records) + 1]
      BY DEF ReaderFollows
    <2>1. r \in Requests
      BY AskAssumption
    <2> DEFINE rd == reader[r]
               R == captured[r]
    <2>2. /\ ended[r] # "inconsistent" /\ ReaderAt(rd, R)
          /\ rd \in Readers /\ R \in Seq(Sizes)
      BY <2>1, AskFacts
    <2> HIDE DEF rd, R
    <2>3. /\ rd.after \in Nat /\ rd.after <= Len(R) /\ rd.records = SubSeq(R, 1, rd.after)
          /\ rd.records \in Seq(Sizes)
          /\ rd.part > 0 => rd.after < Len(R) /\ rd.total = R[rd.after + 1] /\ rd.part < rd.total
      BY <2>2 DEF Readers, ReaderAt
    <2>4. Len(rd.records) = rd.after
      BY <2>2, <2>3
    <2>5. SubSeq(rd.records, 1, Len(rd.records)) = rd.records
      BY <2>3, SubSeqFull
    <2>6. IsPrefix(rd.records, R)
      BY <2>3, <2>4, <2>5 DEF IsPrefix
    <2>7. rd.part > 0 => Len(rd.records) < Len(R) /\ rd.part < R[Len(rd.records) + 1]
      BY <2>3, <2>4
    <2> QED
      BY <2>2, <2>6, <2>7 DEF rd, R
  <1> QED
    BY <1>1, AskInvariant, PTL

\* ask/session.rs: an Ask that ends with a reply shows all of it.
THEOREM ReplyIsWholeAlways == AskSpec => []ReplyIsWhole
  <1>1. AskInv => ReplyIsWhole
    BY AskFacts, AskAssumption DEF ReplyIsWhole, Whole
  <1> QED
    BY <1>1, AskInvariant, PTL

\* The driver reads on: each page it accepts takes it further, and nothing it
\* has shown is taken back.
THEOREM ReaderAdvancesAlways == AskSpec => ReaderAdvances
  <1>1. AskInv /\ [AskNext]_askVars => [\A r \in Askers : ReadsOn(r)]_askVars
    <2> SUFFICES ASSUME AskInv, [AskNext]_askVars
                 PROVE  \A r \in Askers : ReadsOn(r)
      OBVIOUS
    <2>1. CASE \E r \in Askers : ReadPage(r)
      <3>1. PICK r \in Askers : ReadPage(r)
        BY <2>1
      <3>2. \A q \in Requests : reader'[q] = reader[q] \/ Advances(reader[q], reader'[q])
        BY <3>1, ReadPageStep, AskAssumption
      <3> QED
        BY <3>2, AskAssumption DEF Advances, ReadsOn
    <2>2. CASE ~\E r \in Askers : ReadPage(r)
      <3>1. reader' = reader
        BY <2>2 DEF AskNext, AttemptStep, DriverStep, Claim, ClaimLost, LateClaim, BeginCapture,
                    Capture, EndCapture, ReportOutcome, ReportLost, LateReport, Restart, Submit,
                    Refuse, SendCancel, NoCancel, ReadMissing, ReadStatus, GiveUp, askVars,
                    clientVars
      <3> QED
        BY <3>1 DEF ReadsOn
    <2> QED
      BY <2>1, <2>2
  <1> QED
    BY <1>1, AskInvariant, PTL DEF AskSpec, ReaderAdvances
=============================================================================
