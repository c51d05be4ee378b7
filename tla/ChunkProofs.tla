--------------------------- MODULE ChunkProofs ----------------------------
(*************************************************************************)
(* Proofs about RtmpPush, the first part: what a chunk reader makes of the *)
(* bytes that reach it, and what is left of the write queue, whatever the *)
(* messages and wherever a read or a write cuts them.  Sequences and the *)
(* folds of the specification come first: a fold is a run of turns, and what *)
(* holds of it is shown by induction over the turns.                     *)
(*************************************************************************)
EXTENDS RtmpPush, SequenceTheorems, WellFoundedInduction, TLAPS

----------------------------------------------------------------------------
\* Every set of natural numbers that is not empty has a least element: what the
\* proofs by induction below start from.
LEMMA Least ==
    ASSUME NEW T \in SUBSET Nat, T # {}
    PROVE  \E n \in T : \A m \in T : n <= m
<1> DEFINE R == OpToRel(<, Nat)
<1>1. IsWellFoundedOn(R, Nat)
  BY NatLessThanWellFounded
<1>2. \A x, y \in Nat : x < y => <<x, y>> \in R
  BY DEF OpToRel
<1> HIDE DEF R
<1>3. PICK x \in T : \A y \in T : ~ (<<y, x>> \in R)
  BY <1>1, WFMin
<1>4. \A y \in T : ~ (y < x)
  BY <1>2, <1>3
<1>5. QED
  BY <1>4

\* Induction: a set T of numbers that has 0, and with each number below n the next.
LEMMA Steps ==
    ASSUME NEW n \in Nat, NEW T, 0 \in T, \A k \in 1 .. n : k - 1 \in T => k \in T
    PROVE  \A k \in 0 .. n : k \in T
<1> DEFINE Out == {k \in 0 .. n : k \notin T}
<1> SUFFICES ASSUME Out # {} PROVE FALSE
  OBVIOUS
<1>1. Out \in SUBSET Nat
  OBVIOUS
<1>2. PICK k \in Out : \A m \in Out : k <= m
  BY <1>1, Least
<1>3. k \in 1 .. n /\ k - 1 \in 0 .. n /\ k \notin T
  BY <1>2
<1>4. k - 1 \notin Out
  BY <1>2, <1>3
<1>5. QED
  BY <1>3, <1>4
----------------------------------------------------------------------------
\* Sequences one after the other, for sequences of elements of any set U.

\* What joins three sequences does not depend on which two it joins first.
LEMMA Associates ==
    ASSUME NEW S
    PROVE  \A x, y, z \in Seq(S) : (x \o y) \o z = x \o (y \o z)
<1> TAKE x, y, z \in Seq(S)
<1> QED
  BY ConcatAssociative

\* FlattenSeq adds one sequence after the other.
LEMMA Flattens ==
    ASSUME NEW U, NEW s \in Seq(Seq(U)), s # <<>>
    PROVE  \E f \in [1 .. Len(s) -> Seq(U)] :
             /\ f[1] = s[1]
             /\ \A i \in 2 .. Len(s) : f[i] = f[i - 1] \o s[i]
             /\ FlattenSeq(s) = f[Len(s)]
<1> DEFINE Runs(f, k) == /\ f \in [1 .. k -> Seq(U)]
                         /\ 1 <= k => f[1] = s[1]
                         /\ \A i \in 2 .. k : f[i] = f[i - 1] \o s[i]
           T == {k \in 0 .. Len(s) : \E f : Runs(f, k)}
           Flat(f) == f = [i \in 1 .. Len(s) |-> IF i = 1 THEN s[i] ELSE f[i - 1] \o s[i]]
           flat == CHOOSE f : Flat(f)
<1>1. Len(s) \in Nat /\ Len(s) # 0 /\ \A i \in 1 .. Len(s) : s[i] \in Seq(U)
  OBVIOUS
<1>2. 0 \in T
  <2> DEFINE e == [i \in 1 .. 0 |-> s[1]]
  <2>1. e \in [1 .. 0 -> Seq(U)]
    OBVIOUS
  <2>2. Runs(e, 0)
    BY <2>1
  <2> HIDE DEF Runs
  <2>3. QED
    BY <1>1, <2>2
<1>3. ASSUME NEW k \in 1 .. Len(s), k - 1 \in T PROVE k \in T
  <2>1. PICK f : Runs(f, k - 1)
    BY <1>3
  <2>2. CASE k = 1
    <3> DEFINE g == [i \in 1 .. 1 |-> s[1]]
    <3>1. g \in [1 .. 1 -> Seq(U)] /\ g[1] = s[1]
      BY <1>1
    <3>2. Runs(g, 1)
      BY <3>1
    <3> HIDE DEF Runs, g
    <3>3. QED
      BY <1>1, <2>2, <3>2
  <2>3. CASE k # 1
    <3> DEFINE last == f[k - 1] \o s[k]
    <3>1. k - 1 \in 1 .. k - 1 /\ k \in Nat
      BY <2>3
    <3>2. f[k - 1] \in Seq(U) /\ s[k] \in Seq(U)
      BY <1>1, <2>1, <3>1
    <3>3. last \in Seq(U)
      BY <3>2
    <3>4. last = f[k - 1] \o s[k]
      OBVIOUS
    <3> HIDE DEF last
    <3> DEFINE g == [i \in 1 .. k |-> IF i = k THEN last ELSE f[i]]
    <3>5. g \in [1 .. k -> Seq(U)]
      BY <2>1, <3>1, <3>3
    <3>6. g[1] = s[1]
      BY <2>1, <2>3, <3>1
    <3>7. ASSUME NEW i \in 2 .. k PROVE g[i] = g[i - 1] \o s[i]
      <4>1. g[i - 1] = f[i - 1]
        BY <3>1
      <4>2. CASE i = k
        <5>1. g[i] = last
          BY <4>2
        <5>2. QED
          BY <4>1, <4>2, <5>1, <3>4, Zenon
      <4>3. CASE i # k
        <5>1. i \in 2 .. k - 1 /\ g[i] = f[i]
          BY <4>3
        <5>2. f[i] = f[i - 1] \o s[i]
          BY <2>1, <5>1
        <5>3. QED
          BY <4>1, <5>1, <5>2, Zenon
      <4>4. QED
        BY <4>2, <4>3
    <3> HIDE DEF g
    <3>8. Runs(g, k)
      BY <3>5, <3>6, <3>7, Zenon
    <3> HIDE DEF Runs
    <3>9. QED
      BY <1>1, <3>8
  <2>4. QED
    BY <2>2, <2>3
<1>4. Len(s) \in T
  <2> HIDE DEF T
  <2>1. \A k \in 0 .. Len(s) : k \in T
    BY <1>1, <1>2, <1>3, Steps
  <2>2. QED
    BY <1>1, <2>1
<1>5. PICK f : Runs(f, Len(s))
  BY <1>4
<1>6. Flat(f)
  <2>1. f = [i \in 1 .. Len(s) |-> f[i]]
    BY <1>5
  <2>2. \A i \in 1 .. Len(s) : i # 1 => i \in 2 .. Len(s)
    BY <1>1
  <2>4. 1 <= Len(s)
    BY <1>1
  <2>5. \A i \in 1 .. Len(s) : f[i] = IF i = 1 THEN s[i] ELSE f[i - 1] \o s[i]
    BY <2>2, <2>4, <1>5, Zenon
  <2>3. QED
    BY <2>1, <2>5, Zenon
<1>7. Flat(flat)
  BY <1>6
<1>8. FlattenSeq(s) = flat[Len(s)]
  BY <1>1 DEF FlattenSeq
<1> HIDE DEF flat
<1>9. \A i \in 1 .. Len(s) : flat[i] = IF i = 1 THEN s[i] ELSE flat[i - 1] \o s[i]
  BY <1>7, Zenon
<1> DEFINE V == {k \in 0 .. Len(s) : k = 0 \/ flat[k] = f[k]}
<1>10. flat[Len(s)] = f[Len(s)]
  <2>1. 0 \in V
    BY <1>1
  <2>2. ASSUME NEW k \in 1 .. Len(s), k - 1 \in V PROVE k \in V
    <3>1. CASE k = 1
      <4>1. flat[1] = s[1] /\ f[1] = s[1]
        BY <1>1, <1>5, <1>9
      <4>2. QED
        BY <3>1, <4>1
    <3>2. CASE k # 1
      <4>1. flat[k - 1] = f[k - 1]
        BY <2>2, <3>2
      <4>2. flat[k] = flat[k - 1] \o s[k]
        BY <1>9, <3>2, Zenon
      <4>3. k \in 2 .. Len(s)
        BY <3>2
      <4>4. f[k] = f[k - 1] \o s[k]
        BY <1>5, <4>3, Zenon
      <4>5. flat[k] = f[k]
        BY <4>1, <4>2, <4>4, Zenon
      <4>6. QED
        BY <4>5
    <3>3. QED
      BY <3>1, <3>2
  <2> HIDE DEF V
  <2>3. \A k \in 0 .. Len(s) : k \in V
    BY <1>1, <2>1, <2>2, Steps
  <2>4. Len(s) \in V
    BY <1>1, <2>3
  <2>5. QED
    BY <1>1, <2>4 DEF V
<1>11. 1 <= Len(s)
  BY <1>1
<1>12. QED
  BY <1>11, <1>5, <1>8, <1>10, Zenon

\* No sequences make the empty one.
LEMMA FlatEmpty == FlattenSeq(<<>>) = <<>>
BY DEF FlattenSeq

\* Adding a sequence at the end.
LEMMA FlatAppend ==
    ASSUME NEW U, NEW s \in Seq(Seq(U)), NEW p \in Seq(U)
    PROVE  /\ FlattenSeq(s) \in Seq(U)
           /\ FlattenSeq(Append(s, p)) = FlattenSeq(s) \o p
<1> DEFINE t == Append(s, p)
<1>1. /\ t \in Seq(Seq(U)) /\ t # <<>> /\ Len(t) = Len(s) + 1
      /\ \A i \in 1 .. Len(s) : t[i] = s[i]
      /\ t[Len(s) + 1] = p
  BY AppendProperties
<1>2. Len(s) \in Nat
  OBVIOUS
<1> HIDE DEF t
<1>3. PICK g \in [1 .. Len(t) -> Seq(U)] :
        /\ g[1] = t[1]
        /\ \A i \in 2 .. Len(t) : g[i] = g[i - 1] \o t[i]
        /\ FlattenSeq(t) = g[Len(t)]
  BY <1>1, Flattens
<1>4. CASE s = <<>>
  <2>1. Len(t) = 1 /\ t[1] = p
    BY <1>1, <1>4
  <2>2. FlattenSeq(t) = p /\ FlattenSeq(s) = <<>>
    BY <1>3, <1>4, <2>1, FlatEmpty, Zenon
  <2>3. <<>> \o p = p /\ <<>> \in Seq(U)
    BY ConcatEmptySeq, EmptySeq
  <2>4. QED
    BY <2>2, <2>3 DEF t
<1>5. CASE s # <<>>
  <2>1. PICK f \in [1 .. Len(s) -> Seq(U)] :
          /\ f[1] = s[1]
          /\ \A i \in 2 .. Len(s) : f[i] = f[i - 1] \o s[i]
          /\ FlattenSeq(s) = f[Len(s)]
    BY <1>5, Flattens
  <2> DEFINE T == {k \in 0 .. Len(s) : k = 0 \/ f[k] = g[k]}
  <2>2. 0 \in T
    BY <1>2
  <2>3. ASSUME NEW k \in 1 .. Len(s), k - 1 \in T PROVE k \in T
    <3>1. CASE k = 1
      <4>1. f[1] = s[1] /\ g[1] = t[1] /\ t[1] = s[1]
        BY <1>1, <1>3, <2>1, <3>1
      <4>2. QED
        BY <3>1, <4>1
    <3>2. CASE k # 1
      <4>1. k \in 2 .. Len(s) /\ k \in 2 .. Len(t) /\ f[k - 1] = g[k - 1]
        BY <1>1, <1>2, <2>3, <3>2
      <4>2. f[k] = f[k - 1] \o s[k]
        BY <2>1, <4>1, Zenon
      <4>3. g[k] = g[k - 1] \o t[k]
        BY <1>3, <4>1, Zenon
      <4>4. f[k] = g[k]
        BY <1>1, <4>1, <4>2, <4>3, Zenon
      <4>5. QED
        BY <4>4
    <3>3. QED
      BY <3>1, <3>2
  <2> HIDE DEF T
  <2>4. \A k \in 0 .. Len(s) : k \in T
    BY <1>2, <2>2, <2>3, Steps
  <2>5. Len(s) \in 1 .. Len(s) /\ Len(t) \in 2 .. Len(t) /\ Len(t) - 1 = Len(s)
    BY <1>1, <1>2, <1>5
  <2>6. f[Len(s)] = g[Len(s)]
    BY <2>4, <2>5 DEF T
  <2>7. g[Len(t)] = g[Len(s)] \o t[Len(t)]
    BY <1>3, <2>5, Zenon
  <2>8. t[Len(t)] = p
    BY <1>1
  <2>9. FlattenSeq(t) = FlattenSeq(s) \o p
    BY <1>3, <2>1, <2>6, <2>7, <2>8, Zenon
  <2>10. FlattenSeq(s) \in Seq(U)
    BY <2>1, <2>5
  <2>11. QED
    BY <2>9, <2>10 DEF t
<1>6. QED
  BY <1>4, <1>5

\* Taking the first one away.
LEMMA FlatHead ==
    ASSUME NEW U, NEW s \in Seq(Seq(U)), s # <<>>
    PROVE  FlattenSeq(s) = Head(s) \o FlattenSeq(Tail(s))
<1>0. \A x, y, z \in Seq(U) : (x \o y) \o z = x \o (y \o z)
  BY Associates
<1> DEFINE t == Tail(s)
           h == Head(s)
<1>1. /\ t \in Seq(Seq(U)) /\ Len(t) = Len(s) - 1 /\ h \in Seq(U)
      /\ \A i \in 1 .. Len(t) : t[i] = s[i + 1]
  BY HeadTailProperties
<1>2. Len(s) \in Nat \ {0} /\ Len(t) \in Nat /\ s[1] = h
      /\ (\A i \in 1 .. Len(s) : s[i] \in Seq(U)) /\ \A i \in 1 .. Len(t) : t[i] \in Seq(U)
  BY <1>1
<1> HIDE DEF t, h
<1>3. PICK f \in [1 .. Len(s) -> Seq(U)] :
        /\ f[1] = s[1]
        /\ \A i \in 2 .. Len(s) : f[i] = f[i - 1] \o s[i]
        /\ FlattenSeq(s) = f[Len(s)]
  BY Flattens
<1>4. CASE t = <<>>
  <2>1. Len(s) = 1
    BY <1>1, <1>2, <1>4
  <2>2. FlattenSeq(s) = h /\ FlattenSeq(t) = <<>>
    BY <1>2, <1>3, <1>4, <2>1, FlatEmpty, Zenon
  <2>3. h \o <<>> = h
    BY <1>1, ConcatEmptySeq
  <2>4. QED
    BY <2>2, <2>3 DEF t, h
<1>5. CASE t # <<>>
  <2>1. PICK g \in [1 .. Len(t) -> Seq(U)] :
          /\ g[1] = t[1]
          /\ \A i \in 2 .. Len(t) : g[i] = g[i - 1] \o t[i]
          /\ FlattenSeq(t) = g[Len(t)]
    BY <1>1, <1>5, Flattens
  <2> DEFINE T == {k \in 0 .. Len(t) : k = 0 \/ f[k + 1] = h \o g[k]}
  <2>2. 0 \in T
    BY <1>2
  <2>3. ASSUME NEW k \in 1 .. Len(t), k - 1 \in T PROVE k \in T
    <3>1. k + 1 \in 2 .. Len(s) /\ (k + 1) - 1 = k /\ t[k] = s[k + 1]
      BY <1>1, <1>2
    <3>2. f[k + 1] = f[k] \o s[k + 1]
      <4>1. f[k + 1] = f[(k + 1) - 1] \o s[k + 1]
        BY <1>3, <3>1, Zenon
      <4>2. QED
        BY <3>1, <4>1, Zenon
    <3>3. CASE k = 1
      <4>1. f[k] = h /\ g[k] = t[k]
        BY <1>2, <1>3, <2>1, <3>3
      <4>2. f[k + 1] = h \o g[k]
        BY <3>1, <3>2, <4>1, Zenon
      <4>3. QED
        BY <4>2
    <3>4. CASE k # 1
      <4>1. k \in 2 .. Len(t) /\ k - 1 \in 1 .. Len(t) /\ (k - 1) + 1 = k /\ k - 1 # 0
        BY <3>4
      <4>2. g[k] = g[k - 1] \o t[k]
        BY <2>1, <4>1, Zenon
      <4>3. f[(k - 1) + 1] = h \o g[k - 1]
        BY <2>3, <4>1, Zenon
      <4>4. f[k] = h \o g[k - 1]
        BY <4>1, <4>3, Zenon
      <4>5. g[k - 1] \in Seq(U) /\ t[k] \in Seq(U)
        BY <1>2, <4>1
      <4>6. (h \o g[k - 1]) \o t[k] = h \o (g[k - 1] \o t[k])
        <5>2. h \in Seq(U)
          BY <1>1
        <5>3. \A z \in Seq(U) : (h \o g[k - 1]) \o z = h \o (g[k - 1] \o z)
          BY <1>0, <4>5, <5>2, Zenon
        <5>4. QED
          BY <4>5, <5>3, Zenon
      <4>7. f[k + 1] = h \o g[k]
        BY <3>1, <3>2, <4>2, <4>4, <4>6, Zenon
      <4>8. QED
        BY <4>7
    <3>5. QED
      BY <3>3, <3>4
  <2> HIDE DEF T
  <2>4. \A k \in 0 .. Len(t) : k \in T
    BY <1>2, <2>2, <2>3, Steps
  <2>5. Len(t) \in T /\ Len(t) # 0 /\ Len(t) + 1 = Len(s)
    BY SMTT(30), <1>1, <1>2, <1>5, <2>4
  <2>6. f[Len(t) + 1] = h \o g[Len(t)]
    BY <2>5 DEF T
  <2>7. FlattenSeq(s) = h \o FlattenSeq(t)
    BY <1>3, <2>1, <2>5, <2>6, Zenon
  <2>8. QED
    BY <2>7 DEF t, h
<1>6. QED
  BY <1>4, <1>5

\* Sequences of one, two and three elements.
LEMMA FewOne ==
    ASSUME NEW S, NEW a \in S
    PROVE  <<>> \in Seq(S) /\ <<a>> \in Seq(S) /\ Append(<<>>, a) = <<a>>
OBVIOUS

\* A pair is what its elements make one after the other, ...
LEMMA FewTwo ==
    ASSUME NEW S, NEW a \in S, NEW b \in S
    PROVE  /\ <<a, b>> \in Seq(S)
           /\ Append(<<a>>, b) = <<a, b>>
           /\ <<a>> \o <<b>> = <<a, b>>
<1>1. <<a>> \in Seq(S) /\ <<b>> \in Seq(S) /\ <<a, b>> \in Seq(S)
  OBVIOUS
<1>2. Append(<<a>>, b) = <<a, b>>
  <2> DEFINE t == Append(<<a>>, b)
  <2>1. t \in Seq(S) /\ Len(t) = 2 /\ t[1] = a /\ t[2] = b
    BY <1>1, AppendProperties
  <2> HIDE DEF t
  <2>2. t = <<a, b>>
    BY <2>1
  <2>3. QED
    BY <2>2 DEF t
<1>3. <<a>> \o <<b>> = <<a, b>>
  <2> DEFINE t == <<a>> \o <<b>>
  <2>1. t \in Seq(S) /\ Len(t) = 2 /\ t[1] = a /\ t[2] = b
    BY <1>1, ConcatProperties
  <2> HIDE DEF t
  <2>2. t = <<a, b>>
    BY <2>1
  <2>3. QED
    BY <2>2 DEF t
<1>4. QED
  BY <1>1, <1>2, <1>3

\* ... and so is a triple, ...
LEMMA FewThree ==
    ASSUME NEW S, NEW a \in S, NEW b \in S, NEW c \in S
    PROVE  /\ <<a, b, c>> \in Seq(S)
           /\ Append(<<a, b>>, c) = <<a, b, c>>
<1>1. <<a, b>> \in Seq(S) /\ <<a, b, c>> \in Seq(S)
  OBVIOUS
<1>2. Append(<<a, b>>, c) = <<a, b, c>>
  <2> DEFINE t == Append(<<a, b>>, c)
  <2>1. t \in Seq(S) /\ Len(t) = 3 /\ t[1] = a /\ t[2] = b /\ t[3] = c
    BY <1>1, AppendProperties
  <2> HIDE DEF t
  <2>2. t = <<a, b, c>>
    BY <2>1
  <2>3. QED
    BY <2>2 DEF t
<1>3. QED
  BY <1>1, <1>2

\* ... and two pairs.
LEMMA JoinFour ==
    ASSUME NEW S, NEW a \in S, NEW b \in S, NEW c \in S, NEW d \in S
    PROVE  <<a, b>> \o <<c, d>> = <<a, b, c, d>>
<1>1. <<a, b>> \in Seq(S) /\ <<c, d>> \in Seq(S)
  OBVIOUS
<1> DEFINE t == <<a, b>> \o <<c, d>>
<1>2. t \in Seq(S) /\ Len(t) = 4 /\ t[1] = a /\ t[2] = b /\ t[3] = c /\ t[4] = d
  BY <1>1, ConcatProperties
<1> HIDE DEF t
<1>3. t = <<a, b, c, d>>
  BY <1>2
<1>4. QED
  BY <1>3 DEF t

\* One, two and three sequences.
LEMMA FlatOne ==
    ASSUME NEW U, NEW a \in Seq(U)
    PROVE  FlattenSeq(<<a>>) = a
<1>1. <<>> \in Seq(Seq(U)) /\ Append(<<>>, a) = <<a>>
  BY FewOne
<1>2. <<>> \o a = a
  BY ConcatEmptySeq
<1>3. FlattenSeq(Append(<<>>, a)) = FlattenSeq(<<>>) \o a
  BY <1>1, FlatAppend
<1>4. QED
  BY <1>1, <1>2, <1>3, FlatEmpty, Zenon

\* What FlattenSeq makes of two sequences, ...
LEMMA FlatTwo ==
    ASSUME NEW U, NEW a \in Seq(U), NEW b \in Seq(U)
    PROVE  FlattenSeq(<<a, b>>) = a \o b
<1>1. <<a>> \in Seq(Seq(U)) /\ Append(<<a>>, b) = <<a, b>>
  BY FewOne, FewTwo
<1>2. FlattenSeq(Append(<<a>>, b)) = FlattenSeq(<<a>>) \o b
  BY <1>1, FlatAppend
<1>3. FlattenSeq(<<a>>) = a
  BY FlatOne
<1>4. QED
  BY <1>1, <1>2, <1>3, Zenon

\* ... and of three.
LEMMA FlatThree ==
    ASSUME NEW U, NEW a \in Seq(U), NEW b \in Seq(U), NEW c \in Seq(U),
           NEW s, s = <<a, b, c>>
    PROVE  FlattenSeq(s) = (a \o b) \o c
<1>1. <<a, b>> \in Seq(Seq(U)) /\ Append(<<a, b>>, c) = <<a, b, c>>
  BY FewTwo, FewThree
<1>2. FlattenSeq(Append(<<a, b>>, c)) = FlattenSeq(<<a, b>>) \o c
  BY <1>1, FlatAppend
<1>3. FlattenSeq(<<a, b>>) = a \o b
  BY FlatTwo
<1>4. QED
  BY <1>1, <1>2, <1>3, Zenon

\* a and then b is the same as c and then d.
Begins(U, a, b, c, d) ==
    a \in Seq(U) /\ b \in Seq(U) /\ c \in Seq(U) /\ d \in Seq(U) /\ a \o b = c \o d

\* What follows c, when it is taken from a.
LEMMA Cut ==
    ASSUME NEW U, NEW a, NEW b, NEW c, NEW d, Begins(U, a, b, c, d), Len(c) <= Len(a)
    PROVE  /\ SubSeq(a, 1, Len(c)) = c
           /\ SubSeq(a, Len(c) + 1, Len(a)) \in Seq(U)
           /\ SubSeq(a, Len(c) + 1, Len(a)) \o b = d
<1> DEFINE e == SubSeq(a, Len(c) + 1, Len(a))
           p == SubSeq(a, 1, Len(c))
<1>0. a \in Seq(U) /\ b \in Seq(U) /\ c \in Seq(U) /\ d \in Seq(U) /\ a \o b = c \o d
  BY DEF Begins
<1>1. Len(a) \in Nat /\ Len(b) \in Nat /\ Len(c) \in Nat /\ Len(d) \in Nat
  BY <1>0
<1>2. \A i \in 1 .. Len(a) : a[i] \in U
  BY <1>0
<1>3. /\ Len(a) + Len(b) = Len(c) + Len(d)
      /\ \A i \in 1 .. Len(a) + Len(b) : (a \o b)[i] = IF i <= Len(a) THEN a[i] ELSE b[i - Len(a)]
      /\ \A i \in 1 .. Len(a) + Len(b) : (a \o b)[i] = IF i <= Len(c) THEN c[i] ELSE d[i - Len(c)]
  BY <1>0, ConcatProperties
<1>4. /\ e \in Seq(U) /\ Len(e) = Len(a) - Len(c)
      /\ \A i \in 1 .. Len(e) : e[i] = a[i + Len(c)]
  BY <1>0, <1>1, <1>2, SubSeqProperties
<1>5. /\ p \in Seq(U) /\ Len(p) = Len(c)
      /\ \A i \in 1 .. Len(c) : p[i] = a[i]
  BY <1>0, <1>1, <1>2, SubSeqProperties
<1> HIDE DEF e, p
<1>6. p = c
  <2>1. \A i \in 1 .. Len(c) : p[i] = c[i]
    BY <1>1, <1>3, <1>5
  <2>2. QED
    BY <1>0, <1>5, <2>1, SeqEqual
<1>7. e \o b = d
  <2>1. /\ e \o b \in Seq(U) /\ Len(e \o b) = Len(d)
        /\ \A i \in 1 .. Len(d) : (e \o b)[i] = IF i <= Len(e) THEN e[i] ELSE b[i - Len(e)]
    BY SMTT(30), <1>0, <1>1, <1>3, <1>4, ConcatProperties
  <2>2. ASSUME NEW i \in 1 .. Len(d) PROVE (e \o b)[i] = d[i]
    <3>1. i + Len(c) \in 1 .. Len(a) + Len(b) /\ ~ (i + Len(c) <= Len(c))
          /\ (i + Len(c)) - Len(c) = i
      BY <1>1, <1>3
    <3>2. d[i] = (a \o b)[i + Len(c)]
      BY <1>3, <3>1
    <3>3. CASE i <= Len(e)
      BY <1>1, <1>3, <1>4, <2>1, <3>1, <3>2, <3>3
    <3>4. CASE ~ (i <= Len(e))
      <4>1. (i + Len(c)) - Len(a) = i - Len(e) /\ ~ (i + Len(c) <= Len(a))
        BY <1>1, <1>4, <3>4
      <4>2. QED
        BY <1>3, <2>1, <3>1, <3>2, <3>4, <4>1
    <3>5. QED
      BY <3>3, <3>4
  <2>3. QED
    BY <1>0, <2>1, <2>2, SeqEqual
<1>8. QED
  BY <1>4, <1>6, <1>7 DEF e, p

\* The elements that a and c share.
LEMMA Shares ==
    ASSUME NEW U, NEW a, NEW b, NEW c, NEW d, Begins(U, a, b, c, d),
           NEW i \in 1 .. Len(c), i <= Len(a)
    PROVE  a[i] = c[i]
<1>0. a \in Seq(U) /\ b \in Seq(U) /\ c \in Seq(U) /\ d \in Seq(U) /\ a \o b = c \o d
  BY DEF Begins
<1>1. i \in 1 .. Len(a) + Len(b) /\ i \in 1 .. Len(c) + Len(d)
  BY <1>0
<1>2. (a \o b)[i] = a[i]
  BY <1>0, <1>1, ConcatProperties
<1>3. (c \o d)[i] = c[i]
  BY <1>0, <1>1, ConcatProperties
<1>4. QED
  BY <1>0, <1>2, <1>3, Zenon

\* A sequence over a set is one over a larger set.
LEMMA SeqWider ==
    ASSUME NEW S, NEW T, NEW s \in Seq(S), \A x \in S : x \in T
    PROVE  s \in Seq(T)
<1>1. \A i \in 1 .. Len(s) : s[i] \in T
  OBVIOUS
<1>2. Len(s) \in Nat /\ s = [i \in 1 .. Len(s) |-> s[i]]
  OBVIOUS
<1>3. QED
  BY <1>1, <1>2, IsASeq

\* One turn of each of the loops that the specification folds.
Write(x, packet) ==
    IF x.n >= Len(packet) THEN [x EXCEPT !.n = @ - Len(packet)]
    ELSE [n |-> 0, rest |-> Append(x.rest, SubSeq(packet, x.n + 1, Len(packet)))]

\* ... of Ended's, ...
EndTurn(messages, u) == IF Ends(u) THEN Append(messages, u.of) ELSE messages

\* ... of OnRead's at either end, on the message its reader has made, ...
ServerHandled(x) ==
    IF x.reader.out = None THEN x
    ELSE ServerHandles([x EXCEPT !.reader.out = None], x.reader.out)

ClientHandled(x) ==
    IF x.reader.out = None THEN x
    ELSE ClientHandles([x EXCEPT !.reader.out = None], x.reader.out)

\* ... after one call of Parse, unless an earlier message failed.
ServerTurn(x) == IF x.ok THEN ServerHandled([x EXCEPT !.reader = Parse(@)]) ELSE x
ClientTurn(x) == IF x.ok THEN ClientHandled([x EXCEPT !.reader = Parse(@)]) ELSE x

\* A turn of any of the four.
Turn(kind, x, u) ==
    CASE kind = "write" -> Write(x, u)
      [] kind = "ended" -> EndTurn(x, u)
      [] kind = "server" -> ServerTurn(x)
      [] kind = "client" -> ClientTurn(x)

\* f folds q's first n elements, and on the way those of every set of them.
Folding(kind, f, base, q, n) ==
    f = [s \in SUBSET (1 .. n) |->
           IF s = {} THEN base ELSE Turn(kind, f[s \ {Max(s)}], q[Max(s)])]

\* g is what it has come to after each turn.
Running(kind, g, base, q, n, end) ==
    /\ g[0] = base /\ g[n] = end
    /\ \A k \in 1 .. n : g[k] = Turn(kind, g[k - 1], q[k])

\* The last element of a set of the numbers up to k.
LEMMA MaxLast ==
    ASSUME NEW k \in Nat, NEW s \in SUBSET (1 .. k), k \in s
    PROVE  Max(s) = k
<1>1. \A y \in s : k >= y
  OBVIOUS
<1>2. \A x \in s : (\A y \in s : x >= y) => x = k
  OBVIOUS
<1>3. QED
  BY <1>1, <1>2 DEF Max

\* The function that a fold is defined by exists.
LEMMA FoldExists ==
    ASSUME NEW kind, NEW base, NEW q, NEW n \in Nat
    PROVE  \E f : Folding(kind, f, base, q, n)
<1> DEFINE next(f, s) == IF s = {} THEN base ELSE Turn(kind, f[s \ {Max(s)}], q[Max(s)])
           Runs(f, k) == f = [s \in SUBSET (1 .. k) |-> next(f, s)]
           T == {k \in 0 .. n : \E f : Runs(f, k)}
<1>1. 0 \in T
  <2> DEFINE e == [s \in SUBSET (1 .. 0) |-> base]
  <2>1. \A s \in SUBSET (1 .. 0) : s = {}
    OBVIOUS
  <2>2. Runs(e, 0)
    <3>1. \A s \in SUBSET (1 .. 0) : next(e, s) = base
      BY <2>1
    <3> HIDE DEF next
    <3>2. QED
      BY <3>1, Zenon
  <2> HIDE DEF Runs
  <2>3. QED
    BY <2>2
<1>2. ASSUME NEW k \in 1 .. n, k - 1 \in T PROVE k \in T
  <2> HIDE DEF Runs
  <2>1. PICK f : Runs(f, k - 1)
    BY <1>2
  <2>2. f = [s \in SUBSET (1 .. (k - 1)) |-> next(f, s)]
    BY <2>1 DEF Runs
  <2> DEFINE g == [s \in SUBSET (1 .. k) |->
                     IF k \in s THEN Turn(kind, f[s \ {k}], q[k]) ELSE f[s]]
  <2>3. ASSUME NEW s \in SUBSET (1 .. k), k \notin s PROVE g[s] = next(g, s)
    <3>0. \A x \in s : x \in 1 .. (k - 1)
      BY <2>3
    <3>1. s \in SUBSET (1 .. (k - 1)) /\ s \ {Max(s)} \in SUBSET (1 .. (k - 1))
      BY <3>0, Zenon
    <3>2. s \ {Max(s)} \in SUBSET (1 .. k) /\ k \notin s \ {Max(s)}
      BY <2>3
    <3>3. g[s \ {Max(s)}] = f[s \ {Max(s)}]
      BY <3>2, Zenon
    <3>4. f[s] = next(f, s)
      BY <2>2, <3>1, Zenon
    <3>5. g[s] = f[s]
      BY <2>3, Zenon
    <3>6. next(g, s) = next(f, s)
      BY <3>3, Zenon
    <3>7. QED
      BY <3>4, <3>5, <3>6, Zenon
  <2>4. ASSUME NEW s \in SUBSET (1 .. k), k \in s PROVE g[s] = next(g, s)
    <3>1. Max(s) = k /\ s # {}
      BY <2>4, MaxLast
    <3>2. s \ {k} \in SUBSET (1 .. k) /\ k \notin s \ {k}
      OBVIOUS
    <3>3. g[s \ {k}] = f[s \ {k}]
      BY <3>2, Zenon
    <3>4. next(g, s) = Turn(kind, f[s \ {k}], q[k])
      BY <3>1, <3>3, Zenon
    <3>5. g[s] = Turn(kind, f[s \ {k}], q[k])
      BY <2>4, Zenon
    <3>6. QED
      BY <3>4, <3>5, Zenon
  <2>5. Runs(g, k)
    <3>1. \A s \in SUBSET (1 .. k) : g[s] = next(g, s)
      BY <2>3, <2>4, Zenon
    <3>2. g = [s \in SUBSET (1 .. k) |-> g[s]]
      OBVIOUS
    <3> HIDE DEF g, next
    <3>3. g = [s \in SUBSET (1 .. k) |-> next(g, s)]
      BY <3>1, <3>2, Zenon
    <3>4. QED
      BY <3>3 DEF Runs
  <2> HIDE DEF g
  <2>6. QED
    BY <2>5
<1>3. n \in T
  <2> HIDE DEF T
  <2>1. \A k \in 0 .. n : k \in T
    BY <1>1, <1>2, Steps
  <2>2. QED
    BY <2>1
<1>4. PICK f : Runs(f, n)
  BY <1>3
<1>5. Folding(kind, f, base, q, n)
  BY <1>4, Zenon DEF Folding
<1>6. QED
  BY <1>5

\* Its values turn by turn.
LEMMA FoldRuns ==
    ASSUME NEW kind, NEW base, NEW q, NEW n \in Nat
    PROVE  \A f : Folding(kind, f, base, q, n)
             => \E g : Running(kind, g, base, q, n, f[1 .. n])
<1> DEFINE Runs(f) == f = [s \in SUBSET (1 .. n) |->
               IF s = {} THEN base ELSE Turn(kind, f[s \ {Max(s)}], q[Max(s)])]
<1> SUFFICES ASSUME NEW f, Runs(f)
             PROVE  \E g : Running(kind, g, base, q, n, f[1 .. n])
  BY Zenon DEF Folding
<1>0. \A s \in SUBSET (1 .. n) :
        f[s] = IF s = {} THEN base ELSE Turn(kind, f[s \ {Max(s)}], q[Max(s)])
  BY Zenon
<1> HIDE DEF Runs
<1> DEFINE g == [k \in 0 .. n |-> f[1 .. k]]
<1>1. g[n] = f[1 .. n]
  OBVIOUS
<1>2. g[0] = base
  <2>1. 1 .. 0 = {}
    OBVIOUS
  <2>2. {} \in SUBSET (1 .. n)
    OBVIOUS
  <2>3. f[{}] = base
    BY <1>0, <2>2, Zenon
  <2>4. g[0] = f[1 .. 0]
    OBVIOUS
  <2>5. QED
    BY <2>1, <2>3, <2>4
<1>3. ASSUME NEW k \in 1 .. n PROVE g[k] = Turn(kind, g[k - 1], q[k])
  <2> DEFINE s == 1 .. k
  <2>0. k \in Nat /\ s \in SUBSET (1 .. k) /\ k \in s /\ s \in SUBSET (1 .. n)
    OBVIOUS
  <2>1. s \in SUBSET (1 .. n) /\ s # {} /\ Max(s) = k
    BY <2>0, MaxLast, Zenon
  <2>2. s \ {k} = 1 .. (k - 1)
    OBVIOUS
  <2> HIDE DEF s
  <2>3. f[s] = Turn(kind, f[s \ {k}], q[k])
    BY <1>0, <2>1, Zenon
  <2>4. g[k] = f[s] /\ g[k - 1] = f[1 .. (k - 1)]
    BY DEF s
  <2> HIDE DEF g
  <2>5. QED
    BY <2>2, <2>3, <2>4, Zenon
<1> HIDE DEF g
<1>4. Running(kind, g, base, q, n, f[1 .. n])
  BY <1>1, <1>2, <1>3, Zenon DEF Running
<1>5. QED
  BY <1>4

\* The four folds of the specification.
LEMMA WrittenRuns ==
    ASSUME NEW q, NEW n, NEW m \in Nat, DOMAIN q = 1 .. m
    PROVE  \E g : /\ g[0] = [n |-> n, rest |-> <<>>] /\ g[m].rest = Written(q, n)
                  /\ \A k \in 1 .. m : g[k] = Write(g[k - 1], q[k])
<1> DEFINE base == [n |-> n, rest |-> <<>>]
           h(x, packet) == IF x.n >= Len(packet) THEN [x EXCEPT !.n = @ - Len(packet)]
               ELSE [n |-> 0, rest |-> Append(x.rest, SubSeq(packet, x.n + 1, Len(packet)))]
           fold == CHOOSE f : f = [s \in SUBSET DOMAIN q |->
                     IF s = {} THEN base ELSE h(f[s \ {Max(s)}], q[Max(s)])]
<1>1. Written(q, n) = fold[DOMAIN q].rest
  BY DEF Written, FoldLeft, MapThenFoldSet
<1>2. \A x, u : h(x, u) = Turn("write", x, u) /\ h(x, u) = Write(x, u)
  BY DEF Turn, Write
<1> HIDE DEF h, base
<1>3. PICK f : Folding("write", f, base, q, m)
  BY FoldExists
<1>4. f = [s \in SUBSET DOMAIN q |->
             IF s = {} THEN base ELSE h(f[s \ {Max(s)}], q[Max(s)])]
  BY <1>2, <1>3, Zenon DEF Folding
<1>5. fold = [s \in SUBSET DOMAIN q |->
               IF s = {} THEN base ELSE h(fold[s \ {Max(s)}], q[Max(s)])]
  BY <1>4, Zenon
<1> HIDE DEF fold
<1>6. Folding("write", fold, base, q, m)
  BY <1>2, <1>5, Zenon DEF Folding
<1>7. PICK g : Running("write", g, base, q, m, fold[1 .. m])
  BY <1>6, FoldRuns
<1>8. \A k \in 1 .. m : g[k] = Write(g[k - 1], q[k])
  BY <1>2, <1>7, ZenonT(60) DEF Running
<1>9. g[m].rest = Written(q, n)
  BY <1>1, <1>7, Zenon DEF Running
<1>10. QED
  BY <1>7, <1>8, <1>9, Zenon DEF base, Running

\* The messages of a stretch of the stream: one turn for each unit.
LEMMA EndedRuns ==
    ASSUME NEW q, NEW m \in Nat, DOMAIN q = 1 .. m
    PROVE  \E g : /\ g[0] = <<>> /\ g[m] = Ended(q)
                  /\ \A k \in 1 .. m : g[k] = EndTurn(g[k - 1], q[k])
<1> DEFINE base == <<>>
           h(x, u) == IF Ends(u) THEN Append(x, u.of) ELSE x
           fold == CHOOSE f : f = [s \in SUBSET DOMAIN q |->
                     IF s = {} THEN base ELSE h(f[s \ {Max(s)}], q[Max(s)])]
<1>1. Ended(q) = fold[DOMAIN q]
  BY DEF Ended, FoldLeft, MapThenFoldSet
<1>2. \A x, u : h(x, u) = Turn("ended", x, u) /\ h(x, u) = EndTurn(x, u)
  BY DEF Turn, EndTurn
<1> HIDE DEF h, base
<1>3. PICK f : Folding("ended", f, base, q, m)
  BY FoldExists
<1>4. f = [s \in SUBSET DOMAIN q |->
             IF s = {} THEN base ELSE h(f[s \ {Max(s)}], q[Max(s)])]
  BY <1>2, <1>3, Zenon DEF Folding
<1>5. fold = [s \in SUBSET DOMAIN q |->
               IF s = {} THEN base ELSE h(fold[s \ {Max(s)}], q[Max(s)])]
  BY <1>4, Zenon
<1> HIDE DEF fold
<1>6. Folding("ended", fold, base, q, m)
  BY <1>2, <1>5, Zenon DEF Folding
<1>7. PICK g : Running("ended", g, base, q, m, fold[1 .. m])
  BY <1>6, FoldRuns
<1>8. \A k \in 1 .. m : g[k] = EndTurn(g[k - 1], q[k])
  BY <1>2, <1>7, ZenonT(60) DEF Running
<1>9. g[m] = Ended(q)
  BY <1>1, <1>7, Zenon DEF Running
<1>10. QED
  BY <1>7, <1>8, <1>9, Zenon DEF base, Running

\* HandleChunk on the server: one turn for each unit in the buffer.
LEMMA ServerChunkRuns ==
    ASSUME NEW c, NEW m \in Nat, DOMAIN c.reader.buf = 1 .. m
    PROVE  \E g : /\ g[0] = c /\ g[m] = ServerHandleChunk(c)
                  /\ \A k \in 1 .. m : g[k] = ServerTurn(g[k - 1])
<1> DEFINE q == c.reader.buf
           h(x, u) == Once(x, LAMBDA y : IF y.ok THEN
                 Once([y EXCEPT !.reader = Parse(@)], LAMBDA v :
                      IF v.reader.out = None THEN v
                      ELSE ServerHandles([v EXCEPT !.reader.out = None], v.reader.out))
                 ELSE y)
           fold == CHOOSE f : f = [s \in SUBSET DOMAIN q |->
                     IF s = {} THEN c ELSE h(f[s \ {Max(s)}], q[Max(s)])]
<1>1. ServerHandleChunk(c) = fold[DOMAIN q]
  BY DEF ServerHandleChunk, HandleChunk, FoldLeft, MapThenFoldSet
<1>2. \A x, u : h(x, u) = Turn("server", x, u) /\ h(x, u) = ServerTurn(x)
  <2> SUFFICES ASSUME NEW x, NEW u PROVE h(x, u) = ServerTurn(x) /\ Turn("server", x, u) = ServerTurn(x)
    OBVIOUS
  <2>1. Turn("server", x, u) = ServerTurn(x)
    BY DEF Turn
  <2>2. ASSUME NEW z
        PROVE  ServerHandled(z) = Once(z, LAMBDA v :
                      IF v.reader.out = None THEN v
                      ELSE ServerHandles([v EXCEPT !.reader.out = None], v.reader.out))
    <3> DEFINE S == {IF v.reader.out = None THEN v
                      ELSE ServerHandles([v EXCEPT !.reader.out = None], v.reader.out) : v \in {z}}
    <3>1. S = {ServerHandled(z)}
      BY DEF ServerHandled
    <3> HIDE DEF S
    <3>2. (CHOOSE y \in S : TRUE) = ServerHandled(z)
      BY <3>1
    <3>3. QED
      BY <3>2 DEF S, Once
  <2>3. h(x, u) = ServerTurn(x)
    <3> DEFINE S == {IF y.ok THEN
                 Once([y EXCEPT !.reader = Parse(@)], LAMBDA v :
                      IF v.reader.out = None THEN v
                      ELSE ServerHandles([v EXCEPT !.reader.out = None], v.reader.out))
                 ELSE y : y \in {x}}
    <3>1. S = {ServerTurn(x)}
      BY <2>2 DEF ServerTurn
    <3>2. (CHOOSE y \in S : TRUE) = h(x, u)
      BY DEF Once
    <3> HIDE DEF S
    <3>3. (CHOOSE y \in S : TRUE) = ServerTurn(x)
      BY <3>1
    <3> HIDE DEF h
    <3>4. QED
      BY <3>2, <3>3
  <2> HIDE DEF h
  <2>4. QED
    BY <2>1, <2>3
<1> HIDE DEF h
<1>3. PICK f : Folding("server", f, c, q, m)
  BY FoldExists
<1>4. f = [s \in SUBSET DOMAIN q |->
             IF s = {} THEN c ELSE h(f[s \ {Max(s)}], q[Max(s)])]
  BY <1>2, <1>3, Zenon DEF Folding
<1>5. fold = [s \in SUBSET DOMAIN q |->
               IF s = {} THEN c ELSE h(fold[s \ {Max(s)}], q[Max(s)])]
  BY <1>4, Zenon
<1> HIDE DEF fold
<1>6. Folding("server", fold, c, q, m)
  BY <1>2, <1>5, Zenon DEF Folding
<1>7. PICK g : Running("server", g, c, q, m, fold[1 .. m])
  BY <1>6, FoldRuns
<1>8. \A k \in 1 .. m : g[k] = ServerTurn(g[k - 1])
  BY <1>7 DEF Running, Turn
<1>9. g[m] = ServerHandleChunk(c)
  BY <1>1, <1>7, Zenon DEF Running
<1>10. QED
  BY <1>7, <1>8, <1>9, Zenon DEF Running

\* And on the client.
LEMMA ClientChunkRuns ==
    ASSUME NEW c, NEW m \in Nat, DOMAIN c.reader.buf = 1 .. m
    PROVE  \E g : /\ g[0] = c /\ g[m] = ClientHandleChunk(c)
                  /\ \A k \in 1 .. m : g[k] = ClientTurn(g[k - 1])
<1> DEFINE q == c.reader.buf
           h(x, u) == Once(x, LAMBDA y : IF y.ok THEN
                 Once([y EXCEPT !.reader = Parse(@)], LAMBDA v :
                      IF v.reader.out = None THEN v
                      ELSE ClientHandles([v EXCEPT !.reader.out = None], v.reader.out))
                 ELSE y)
           fold == CHOOSE f : f = [s \in SUBSET DOMAIN q |->
                     IF s = {} THEN c ELSE h(f[s \ {Max(s)}], q[Max(s)])]
<1>1. ClientHandleChunk(c) = fold[DOMAIN q]
  BY DEF ClientHandleChunk, HandleChunk, FoldLeft, MapThenFoldSet
<1>2. \A x, u : h(x, u) = Turn("client", x, u) /\ h(x, u) = ClientTurn(x)
  <2> SUFFICES ASSUME NEW x, NEW u PROVE h(x, u) = ClientTurn(x) /\ Turn("client", x, u) = ClientTurn(x)
    OBVIOUS
  <2>1. Turn("client", x, u) = ClientTurn(x)
    BY DEF Turn
  <2>2. ASSUME NEW z
        PROVE  ClientHandled(z) = Once(z, LAMBDA v :
                      IF v.reader.out = None THEN v
                      ELSE ClientHandles([v EXCEPT !.reader.out = None], v.reader.out))
    <3> DEFINE S == {IF v.reader.out = None THEN v
                      ELSE ClientHandles([v EXCEPT !.reader.out = None], v.reader.out) : v \in {z}}
    <3>1. S = {ClientHandled(z)}
      BY DEF ClientHandled
    <3> HIDE DEF S
    <3>2. (CHOOSE y \in S : TRUE) = ClientHandled(z)
      BY <3>1
    <3>3. QED
      BY <3>2 DEF S, Once
  <2>3. h(x, u) = ClientTurn(x)
    <3> DEFINE S == {IF y.ok THEN
                 Once([y EXCEPT !.reader = Parse(@)], LAMBDA v :
                      IF v.reader.out = None THEN v
                      ELSE ClientHandles([v EXCEPT !.reader.out = None], v.reader.out))
                 ELSE y : y \in {x}}
    <3>1. S = {ClientTurn(x)}
      BY <2>2 DEF ClientTurn
    <3>2. (CHOOSE y \in S : TRUE) = h(x, u)
      BY DEF Once
    <3> HIDE DEF S
    <3>3. (CHOOSE y \in S : TRUE) = ClientTurn(x)
      BY <3>1
    <3> HIDE DEF h
    <3>4. QED
      BY <3>2, <3>3
  <2> HIDE DEF h
  <2>4. QED
    BY <2>1, <2>3
<1> HIDE DEF h
<1>3. PICK f : Folding("client", f, c, q, m)
  BY FoldExists
<1>4. f = [s \in SUBSET DOMAIN q |->
             IF s = {} THEN c ELSE h(f[s \ {Max(s)}], q[Max(s)])]
  BY <1>2, <1>3, Zenon DEF Folding
<1>5. fold = [s \in SUBSET DOMAIN q |->
               IF s = {} THEN c ELSE h(fold[s \ {Max(s)}], q[Max(s)])]
  BY <1>4, Zenon
<1> HIDE DEF fold
<1>6. Folding("client", fold, c, q, m)
  BY <1>2, <1>5, Zenon DEF Folding
<1>7. PICK g : Running("client", g, c, q, m, fold[1 .. m])
  BY <1>6, FoldRuns
<1>8. \A k \in 1 .. m : g[k] = ClientTurn(g[k - 1])
  BY <1>7 DEF Running, Turn
<1>9. g[m] = ClientHandleChunk(c)
  BY <1>1, <1>7, Zenon DEF Running
<1>10. QED
  BY <1>7, <1>8, <1>9, Zenon DEF Running

\* The messages either end sends.
Requests == {SetChunkSize, Connect, CreateStream, Publish}
FromClient == Requests \union Media
FromServer == {Acknowledgement, PeerBandWidth, SetChunkSize, ConnectResult,
               CreateStreamResult, OnStatus("Start"), OnStatus("BadName")}
Messages == FromClient \union FromServer

\* What travels on the wire.
Units == [unit : {"basic"}, fmt : {0, 3}, csid : Csids]
         \union [unit : {"header"}, of : Messages]
         \union [unit : {"piece"}, of : Messages, no : 1 .. 3]
         \union [unit : {"C0C1", "S0S1S2", "C2"}, no : 1 .. 2]

\* Bytes in a buffer or on the wire.
Streams == Seq(Units)

\* A message as SendRtmpChunks sends it, and messages one after the other.
Packet(m) == CreateChunk(m, ChunkSize)
Packets(P) == [i \in DOMAIN P |-> Packet(P[i])]
Chunks(P) == FlattenSeq(Packets(P))

\* rtmp_messages_ between messages, and with what it got of m.
NoSlots == [c \in Csids |-> NoMessage]
Slots(m, got) == [c \in Csids |-> IF c = m.csid THEN [of |-> m, got |-> got] ELSE NoMessage]

\* A reader between messages, ...
Idle(buf, size) ==
    [buf |-> buf, state |-> "header", csid |-> None, size |-> size,
     message |-> NoSlots, out |-> None]

\* ... and one within m.
InChunk(buf, size, m, got, state) ==
    [buf |-> buf, state |-> state, csid |-> m.csid, size |-> size,
     message |-> Slots(m, got), out |-> None]

\* A packet's header and the rest of it.
Lead(m) == <<Basic(0, m.csid), Header(m)>>

Body(m) == CASE m.lenght = 1 -> <<Piece(m, 1)>>
             [] m.lenght = 2 -> <<Piece(m, 1), Piece(m, 2)>>
             [] m.lenght = 3 -> <<Piece(m, 1), Piece(m, 2), Basic(3, m.csid), Piece(m, 3)>>

\* w is what r still has to read of m.
Partial(r, m, w) ==
    \/ r = InChunk(r.buf, r.size, m, <<>>, "body") /\ w = Body(m)
    \/ /\ m.lenght = 3 /\ r.size = 2
       /\ r = InChunk(r.buf, 2, m, <<Piece(m, 1), Piece(m, 2)>>, "header")
       /\ w = <<Basic(3, m.csid), Piece(m, 3)>>
    \/ /\ m.lenght = 3 /\ r.size = 2
       /\ r = InChunk(r.buf, 2, m, <<Piece(m, 1), Piece(m, 2)>>, "body")
       /\ w = <<Piece(m, 3)>>

\* a and after it b, both of units, make s.
Joined(a, b, s) == a \in Streams /\ b \in Streams /\ a \o b = s

\* full is got and after it p.
Grown(got, p, full) == full = got \o p

\* r is within the first of P, and the rest of it and of P is in its buffer or on its way.
Within(r, rest, P) ==
    \E w \in Streams : /\ Partial(r, Head(P), w)
                       /\ Joined(r.buf, rest, w \o Chunks(Tail(P)))

\* What r has in its buffer, and rest on its way to it, are the messages P, of the first
\* of which it may have read a part.
Carries(r, rest, P) ==
    \/ r = Idle(r.buf, r.size) /\ Joined(r.buf, rest, Chunks(P))
    \/ P # <<>> /\ Within(r, rest, P)

\* r reads a message with the wrong chunk size: it takes for a header what is not one.
Doomed(r, rest) ==
    \E m \in Messages : /\ r = InChunk(r.buf, 1, m, <<Piece(m, 1)>>, "header")
                        /\ \E s \in Streams : /\ Joined(r.buf, rest, s)
                                              /\ s # <<>> /\ s[1].unit # "basic"

\* A reader that has taken the share full is made of.
AfterBody(x, e, size, m, full) ==
    /\ Len(full) = m.lenght =>
         x = [Idle(e, size) EXCEPT !.out = IF full = Pieces(m) THEN m ELSE Garbled]
    /\ Len(full) # m.lenght =>
         x = InChunk(e, size, m, full,
                     IF Len(full) >= m.lenght \/ Len(full) % size = 0 THEN "header" ELSE "body")

\* A reader that has made m.
Made(e, size, m) == [Idle(e, size) EXCEPT !.out = m]

\* What one Parse makes of it.
Outcome(x, rest, P, size) ==
    \/ x.size = size /\ x.out = None /\ Carries(x, rest, P)
    \/ /\ P # <<>>
       /\ \E e : /\ Joined(e, rest, Chunks(Tail(P)))
                 /\ x = Made(e, size, Head(P))
    \/ size = 1 /\ P # <<>> /\ Head(P).lenght > 1 /\ Doomed(x, rest)

\* Before every message of Q that takes more than one chunk of the default size, the new
\* chunk size is told, or r has it.
SizesOK(Q, size) == \A i \in DOMAIN Q :
    Q[i].lenght > 1 => size = 2 \/ \E j \in 1 .. i - 1 : Q[j] = SetChunkSize

----------------------------------------------------------------------------
\* What all messages have in common.
LEMMA MessageFacts ==
    ASSUME NEW m \in Messages
    PROVE  /\ m.csid \in Csids /\ m.lenght \in 1 .. 3 /\ m # None /\ m # Garbled
           /\ m.lenght > 1 => m \in {Connect, ConnectResult, Picture(TRUE)}
           /\ None # Garbled
<1>3. m # None /\ None # Garbled
  BY NoneAssumption DEF Messages, FromClient, FromServer, Requests
<1> USE DEF Messages, FromClient, FromServer, Requests, Media, SetChunkSize, Connect,
        CreateStream, Publish, AvcHeader, AacHeader, Picture, Sound, Acknowledgement,
        PeerBandWidth, ConnectResult, CreateStreamResult, OnStatus, Message, Garbled
<1>1. m.csid \in Csids /\ m.lenght \in 1 .. 3
  BY DEF Csids
<1>4. m # Garbled
  OBVIOUS
<1>5. m.lenght > 1 => m \in {Connect, ConnectResult, Picture(TRUE)}
  OBVIOUS
<1>6. QED
  BY <1>1, <1>3, <1>4, <1>5

\* The units of a message.
LEMMA UnitFacts ==
    ASSUME NEW m \in Messages
    PROVE  /\ Basic(0, m.csid) \in Units /\ Basic(3, m.csid) \in Units
           /\ Header(m) \in Units
           /\ \A i \in 1 .. 3 : Piece(m, i) \in Units
<1>1. m.csid \in Csids
  BY MessageFacts
<1>2. QED
  BY <1>1 DEF Units, Basic, Header, Piece

\* A packet is a basic header, a message header, and a body.
LEMMA PacketIs ==
    ASSUME NEW m \in Messages, NEW size \in {1, 2}, m.lenght > 1 => size = 2
    PROVE  /\ CreateChunk(m, size) = Lead(m) \o Body(m)
           /\ Lead(m) \in Seq(Units) /\ Len(Lead(m)) = 2
           /\ Body(m) \in Seq(Units) /\ Len(Body(m)) \in 1 .. 4
<1> DEFINE cut == [i \in 1 .. m.lenght |->
             IF i > 1 /\ (i - 1) % size = 0 THEN <<Basic(3, m.csid), Piece(m, i)>>
             ELSE <<Piece(m, i)>>]
           p1 == Piece(m, 1)
           p2 == Piece(m, 2)
           p3 == Piece(m, 3)
           b3 == Basic(3, m.csid)
<1>1. m.lenght \in 1 .. 3
  BY MessageFacts
<1>2. /\ p1 \in Units /\ p2 \in Units /\ p3 \in Units /\ b3 \in Units
      /\ Basic(0, m.csid) \in Units /\ Header(m) \in Units
  BY UnitFacts
<1> HIDE DEF p1, p2, p3, b3
<1>3. /\ <<p1>> \in Seq(Units) /\ <<p2>> \in Seq(Units) /\ <<b3, p3>> \in Seq(Units)
      /\ <<p1, p2>> \in Seq(Units) /\ <<p1, p2, b3, p3>> \in Seq(Units)
  BY <1>2
<1>8. CreateChunk(m, size) = Lead(m) \o FlattenSeq(cut)
  BY DEF CreateChunk, Lead
<1>9. Lead(m) \in Seq(Units) /\ Len(Lead(m)) = 2
  BY <1>2 DEF Lead
<1> SUFFICES FlattenSeq(cut) = Body(m) /\ Body(m) \in Seq(Units) /\ Len(Body(m)) \in 1 .. 4
  BY <1>8, <1>9
<1>4. CASE m.lenght = 1
  <2>1. cut = << <<p1>> >>
    BY <1>4 DEF p1
  <2> HIDE DEF cut
  <2>2. FlattenSeq(cut) = <<p1>>
    BY <1>3, <2>1, FlatOne
  <2>3. Body(m) = <<p1>>
    BY <1>4 DEF Body, p1
  <2>4. QED
    BY <1>3, <2>2, <2>3
<1>5. CASE m.lenght = 2
  <2>1. cut = << <<p1>>, <<p2>> >>
    BY <1>5 DEF p1, p2
  <2> HIDE DEF cut
  <2>2. FlattenSeq(cut) = <<p1>> \o <<p2>>
    BY <1>3, <2>1, FlatTwo
  <2>3. <<p1>> \o <<p2>> = <<p1, p2>>
    BY <1>2, FewTwo
  <2>4. Body(m) = <<p1, p2>>
    BY <1>5 DEF Body, p1, p2
  <2>5. FlattenSeq(cut) = Body(m)
    BY <2>2, <2>3, <2>4, Zenon
  <2>6. QED
    BY <1>3, <2>4, <2>5
<1>6. CASE m.lenght = 3
  <2>1. cut = << <<p1>>, <<p2>>, <<b3, p3>> >>
    BY <1>6 DEF p1, p2, p3, b3
  <2> HIDE DEF cut
  <2>2. FlattenSeq(cut) = (<<p1>> \o <<p2>>) \o <<b3, p3>>
    <3> DEFINE a == <<p1>>
               b == <<p2>>
               c == <<b3, p3>>
    <3>1. a \in Seq(Units) /\ b \in Seq(Units) /\ c \in Seq(Units)
      BY <1>3
    <3>2. cut = <<a, b, c>>
      BY <2>1
    <3> HIDE DEF a, b, c
    <3> HIDE DEF cut
    <3>3. FlattenSeq(cut) = (a \o b) \o c
      BY <3>1, <3>2, FlatThree
    <3>4. QED
      BY <3>3, Zenon DEF a, b, c
  <2>3. <<p1>> \o <<p2>> = <<p1, p2>>
    BY <1>2, FewTwo
  <2>4. <<p1, p2>> \o <<b3, p3>> = <<p1, p2, b3, p3>>
    BY <1>2, JoinFour
  <2>5. Body(m) = <<p1, p2, b3, p3>>
    BY <1>6 DEF Body, p1, p2, p3, b3
  <2>6. FlattenSeq(cut) = Body(m)
    BY <2>2, <2>3, <2>4, <2>5, Zenon
  <2>7. QED
    BY <1>3, <2>5, <2>6
<1>7. QED
  BY <1>1, <1>4, <1>5, <1>6

\* Sequences of messages, and their packets.
LEMMA PacketsAre ==
    ASSUME NEW P \in Seq(Messages)
    PROVE  /\ Packets(P) \in Seq(Seq(Units)) /\ Len(Packets(P)) = Len(P)
           /\ \A m \in Messages : /\ Packet(m) \in Seq(Units)
                                  /\ Packets(Append(P, m)) = Append(Packets(P), Packet(m))
<1>1. \A m \in Messages : Packet(m) \in Seq(Units)
  <2> TAKE m \in Messages
  <2>1. /\ CreateChunk(m, 2) = Lead(m) \o Body(m)
        /\ Lead(m) \in Seq(Units) /\ Body(m) \in Seq(Units)
    BY PacketIs
  <2>2. \A x, y \in Seq(Units) : x \o y \in Seq(Units)
    BY ConcatProperties
  <2>3. QED
    BY <2>1, <2>2, Zenon DEF Packet, ChunkSize
<1>2. \A i \in 1 .. Len(P) : P[i] \in Messages
  OBVIOUS
<1> HIDE DEF Packet
<1>3. Packets(P) \in Seq(Seq(Units)) /\ Len(Packets(P)) = Len(P)
  <2>1. DOMAIN P = 1 .. Len(P) /\ Len(P) \in Nat
    OBVIOUS
  <2>2. Packets(P) = [i \in 1 .. Len(P) |-> Packet(P[i])]
    BY <2>1, Zenon DEF Packets
  <2>3. \A i \in 1 .. Len(P) : Packet(P[i]) \in Seq(Units)
    BY <1>1, <1>2
  <2>4. [i \in 1 .. Len(P) |-> Packet(P[i])] \in Seq(Seq(Units))
    BY <2>1, <2>3, IsASeq
  <2>5. Len([i \in 1 .. Len(P) |-> Packet(P[i])]) = Len(P)
    BY <2>1
  <2>6. QED
    BY <2>2, <2>4, <2>5, Zenon
<1>4. ASSUME NEW m \in Messages PROVE Packets(Append(P, m)) = Append(Packets(P), Packet(m))
  <2> DEFINE Q == Append(P, m)
  <2>1. /\ Q \in Seq(Messages) /\ Len(Q) = Len(P) + 1 /\ DOMAIN Q = 1 .. Len(P) + 1
        /\ \A i \in 1 .. Len(P) : Q[i] = P[i]
        /\ Q[Len(P) + 1] = m /\ Len(P) \in Nat
    BY AppendProperties
  <2> HIDE DEF Q
  <2>2. Packets(Q) = [i \in 1 .. Len(P) + 1 |-> Packet(Q[i])]
    BY <2>1, Zenon DEF Packets
  <2>3. /\ Append(Packets(P), Packet(m)) \in Seq(Seq(Units))
        /\ Len(Append(Packets(P), Packet(m))) = Len(P) + 1
        /\ \A i \in 1 .. Len(P) : Append(Packets(P), Packet(m))[i] = Packets(P)[i]
        /\ Append(Packets(P), Packet(m))[Len(P) + 1] = Packet(m)
    BY <1>1, <1>3, AppendProperties
  <2>4. \A i \in 1 .. Len(P) : Packets(P)[i] = Packet(P[i])
    BY DEF Packets
  <2> DEFINE s == Append(Packets(P), Packet(m))
  <2> HIDE DEF s
  <2>5. \A i \in 1 .. Len(P) + 1 : s[i] = Packet(Q[i])
    BY <2>1, <2>3, <2>4 DEF s
  <2>6. s \in Seq(Seq(Units)) /\ Len(s) = Len(P) + 1
    BY <2>3 DEF s
  <2>6a. s = [i \in 1 .. Len(s) |-> s[i]]
    BY <2>6
  <2>7. s = [i \in 1 .. Len(P) + 1 |-> Packet(Q[i])]
    BY <2>5, <2>6, <2>6a, Zenon
  <2>8. QED
    BY <2>2, <2>7, Zenon DEF s, Q
<1>5. QED
  BY <1>1, <1>3, <1>4

\* The first packet is that of the first message.
LEMMA PacketsHead ==
    ASSUME NEW P \in Seq(Messages), P # <<>>
    PROVE  /\ Head(P) \in Messages /\ Tail(P) \in Seq(Messages)
           /\ Packets(P) # <<>>
           /\ Head(Packets(P)) = Packet(Head(P)) /\ Tail(Packets(P)) = Packets(Tail(P))
<1>1. /\ Head(P) = P[1] /\ Head(P) \in Messages /\ Tail(P) \in Seq(Messages)
      /\ Len(Tail(P)) = Len(P) - 1 /\ Len(P) \in Nat \ {0}
      /\ \A i \in 1 .. Len(P) - 1 : Tail(P)[i] = P[i + 1]
  BY HeadTailProperties
<1>2. Packets(P) \in Seq(Seq(Units)) /\ Len(Packets(P)) = Len(P)
  BY PacketsAre
<1>3. \A i \in 1 .. Len(P) : Packets(P)[i] = Packet(P[i])
  BY DEF Packets
<1> HIDE DEF Packets, Packet
<1>4. Packets(P) # <<>>
  BY <1>1, <1>2
<1>5. Head(Packets(P)) = Packets(P)[1]
  BY <1>2, <1>4, HeadTailProperties
<1>6. Tail(Packets(P)) = Packets(Tail(P))
  <2> DEFINE s == Packets(P)
             t == Tail(s)
             q == Tail(P)
  <2>1. /\ t \in Seq(Seq(Units)) /\ Len(t) = Len(P) - 1
        /\ \A i \in 1 .. Len(P) - 1 : t[i] = s[i + 1]
    BY <1>2, <1>4, HeadTailProperties
  <2>2. DOMAIN q = 1 .. Len(P) - 1
    BY <1>1
  <2>3. \A i \in 1 .. Len(P) - 1 : s[i + 1] = Packet(P[i + 1])
    BY <1>1, <1>3
  <2>3a. \A i \in 1 .. Len(P) - 1 : q[i] = P[i + 1]
    BY <1>1
  <2> HIDE DEF s, t, q
  <2>4. \A i \in 1 .. Len(P) - 1 : t[i] = Packet(q[i])
    BY <2>1, <2>3, <2>3a, Zenon
  <2>5. t = [i \in 1 .. Len(t) |-> t[i]]
    BY <2>1
  <2>6. t = [i \in 1 .. Len(P) - 1 |-> Packet(q[i])]
    BY <2>1, <2>4, <2>5, Zenon
  <2>7. Packets(q) = [i \in 1 .. Len(P) - 1 |-> Packet(q[i])]
    BY <2>2, Zenon DEF Packets
  <2>8. QED
    BY <2>6, <2>7, Zenon DEF s, t, q
<1>7. QED
  BY <1>1, <1>3, <1>4, <1>5, <1>6

\* The packets of one message more, or less.
LEMMA ChunksAre ==
    ASSUME NEW P \in Seq(Messages)
    PROVE  /\ Chunks(P) \in Seq(Units)
           /\ \A m \in Messages : Chunks(Append(P, m)) = Chunks(P) \o Packet(m)
           /\ P # <<>> => Chunks(P) = Packet(Head(P)) \o Chunks(Tail(P))
<1>1. /\ Packets(P) \in Seq(Seq(Units))
      /\ \A m \in Messages : /\ Packet(m) \in Seq(Units)
                             /\ Packets(Append(P, m)) = Append(Packets(P), Packet(m))
  BY PacketsAre
<1>2. FlattenSeq(Packets(P)) \in Seq(Units)
  <2>1. <<>> \in Seq(Units)
    OBVIOUS
  <2>2. QED
    BY <1>1, <2>1, FlatAppend
<1>3. ASSUME NEW m \in Messages PROVE Chunks(Append(P, m)) = Chunks(P) \o Packet(m)
  <2>1. FlattenSeq(Append(Packets(P), Packet(m))) = FlattenSeq(Packets(P)) \o Packet(m)
    BY <1>1, FlatAppend
  <2>2. QED
    BY <1>1, <2>1, Zenon DEF Chunks
<1>4. ASSUME P # <<>> PROVE Chunks(P) = Packet(Head(P)) \o Chunks(Tail(P))
  <2>1. /\ Packets(P) # <<>>
        /\ Head(Packets(P)) = Packet(Head(P)) /\ Tail(Packets(P)) = Packets(Tail(P))
    BY <1>4, PacketsHead
  <2>2. FlattenSeq(Packets(P)) = Head(Packets(P)) \o FlattenSeq(Tail(Packets(P)))
    BY <1>1, <2>1, FlatHead
  <2>3. QED
    BY <2>1, <2>2, Zenon DEF Chunks
<1>5. QED
  BY <1>2, <1>3, <1>4 DEF Chunks

\* No messages, no bytes.
LEMMA ChunksNone == Packets(<<>>) = <<>> /\ Chunks(<<>>) = <<>>
<1>1. Packets(<<>>) = <<>>
  BY DEF Packets
<1>2. QED
  BY <1>1, FlatEmpty, Zenon DEF Chunks

\* What is used of sequences of units.
LEMMA StreamJoins ==
    /\ <<>> \in Streams /\ Len(<<>>) = 0
    /\ \A x \in Streams : x \o <<>> = x /\ <<>> \o x = x /\ Len(x) \in Nat
    /\ \A x, y \in Streams : x \o y \in Streams /\ Len(x \o y) = Len(x) + Len(y)
<1>1. <<>> \in Streams /\ Len(<<>>) = 0
  BY DEF Streams
<1>2. \A x \in Seq(Units) : x \o <<>> = x /\ <<>> \o x = x /\ Len(x) \in Nat
  BY ConcatEmptySeq
<1>3. \A x, y \in Seq(Units) : x \o y \in Seq(Units) /\ Len(x \o y) = Len(x) + Len(y)
  BY ConcatProperties
<1>4. QED
  BY <1>1, <1>2, <1>3, Zenon DEF Streams

\* Bytes may be joined in any order, ...
LEMMA StreamAssociates == \A x, y, z \in Streams : (x \o y) \o z = x \o (y \o z)
<1>1. \A x, y, z \in Seq(Units) : (x \o y) \o z = x \o (y \o z)
  BY Associates
<1>2. QED
  BY <1>1, Zenon DEF Streams

\* ... and have a first one unless there are none.
LEMMA StreamNone == \A x \in Streams : (x = <<>> <=> Len(x) = 0) /\ (x # <<>> => Head(x) = x[1])
BY DEF Streams

\* A stream of messages begins with a header, and the rest of the first follows.
LEMMA ChunksBegin ==
    ASSUME NEW P \in Seq(Messages), P # <<>>
    PROVE  /\ Chunks(P) = Lead(Head(P)) \o (Body(Head(P)) \o Chunks(Tail(P)))
           /\ Body(Head(P)) \o Chunks(Tail(P)) \in Streams
<1> DEFINE m == Head(P)
           l == Lead(m)
           b == Body(m)
           c == Chunks(Tail(P))
<1>1. m \in Messages /\ Tail(P) \in Seq(Messages)
  BY PacketsHead
<1> HIDE DEF m
<1>2. Packet(m) = l \o b /\ l \in Streams /\ b \in Streams
  <2>1. CreateChunk(m, 2) = l \o b /\ l \in Streams /\ b \in Streams
    BY <1>1, PacketIs DEF Streams
  <2>2. QED
    BY <2>1, Zenon DEF Packet, ChunkSize
<1>3. c \in Streams
  BY <1>1, ChunksAre DEF Streams
<1>4. Chunks(P) = Packet(m) \o c
  BY ChunksAre DEF m
<1> HIDE DEF l, b, c
<1>5. (l \o b) \o c = l \o (b \o c)
  BY <1>2, <1>3, StreamAssociates, Zenon
<1>6. b \o c \in Streams
  BY <1>2, <1>3, StreamJoins, Zenon
<1>7. QED
  BY <1>2, <1>4, <1>5, <1>6, Zenon DEF m, l, b, c

\* The slot of the chunk stream of a message.
LEMMA SlotTaken ==
    ASSUME NEW m \in Messages, NEW got
    PROVE  /\ [NoSlots EXCEPT ![m.csid] = [of |-> m, got |-> got]] = Slots(m, got)
           /\ [Slots(m, got) EXCEPT ![m.csid] = NoMessage] = NoSlots
           /\ Slots(m, got)[m.csid] = [of |-> m, got |-> got]
<1>1. m.csid \in Csids
  BY MessageFacts
<1> HIDE DEF Csids
<1>2. Slots(m, got)[m.csid] = [of |-> m, got |-> got]
  BY <1>1 DEF Slots
<1>3. [NoSlots EXCEPT ![m.csid] = [of |-> m, got |-> got]] = Slots(m, got)
  BY <1>1 DEF Slots, NoSlots
<1>4. [Slots(m, got) EXCEPT ![m.csid] = NoMessage] = NoSlots
  BY <1>1 DEF Slots, NoSlots
<1>5. QED
  BY <1>2, <1>3, <1>4

\* Where the payload of a message is kept when more of it comes.
LEMMA SlotGets ==
    ASSUME NEW m \in Messages, NEW got, NEW more
    PROVE  [Slots(m, got) EXCEPT ![m.csid].got = more] = Slots(m, more)
<1>1. m.csid \in Csids
  BY MessageFacts
<1>2. QED
  BY <1>1 DEF Slots

\* A reader between messages takes a header when all of it is there.
LEMMA ParseIdle ==
    ASSUME NEW buf, NEW rest, NEW size \in {1, 2},
           NEW P \in Seq(Messages), Joined(buf, rest, Chunks(P)), buf # <<>>
    PROVE  LET x == Parse(Idle(buf, size)) m == Head(P) IN
           /\ P # <<>>
           /\ \/ x = Idle(buf, size)
              \/ \E e : /\ x = InChunk(e, size, m, <<>>, "body")
                        /\ Joined(e, rest, Body(m) \o Chunks(Tail(P)))
<1> DEFINE r == Idle(buf, size)
           x == Parse(r)
           m == Head(P)
           l == Lead(m)
           d == Body(m) \o Chunks(Tail(P))
           e == SubSeq(buf, 3, Len(buf))
<1>0. buf \in Streams /\ rest \in Streams /\ buf \o rest = Chunks(P)
  BY DEF Joined
<1>1. P # <<>>
  <2>1. Len(buf) \in Nat \ {0} /\ Len(rest) \in Nat /\ Len(buf \o rest) = Len(buf) + Len(rest)
    BY <1>0, StreamJoins, StreamNone
  <2>2. Len(Chunks(P)) # 0
    BY <1>0, <2>1
  <2>3. QED
    BY <2>2, ChunksNone, StreamJoins
<1>2. m \in Messages
  BY <1>1, PacketsHead
<1>3. buf \o rest = l \o d /\ d \in Streams
  BY <1>0, <1>1, ChunksBegin, Zenon
<1>4. l \in Streams /\ Len(l) = 2
  BY <1>2, PacketIs DEF Streams
<1>5. l[1] = Basic(0, m.csid) /\ l[2] = Header(m)
  BY DEF Lead
<1> HIDE DEF m, l, d
<1>5a. Begins(Units, buf, rest, l, d)
  BY <1>0, <1>3, <1>4, Zenon DEF Begins, Streams
<1>5b. \A i \in 1 .. Len(l) : i <= Len(buf) => buf[i] = l[i]
  BY <1>5a, Shares
<1>5c. Len(l) <= Len(buf) => /\ SubSeq(buf, 1, Len(l)) = l
                             /\ SubSeq(buf, Len(l) + 1, Len(buf)) \in Streams
                             /\ SubSeq(buf, Len(l) + 1, Len(buf)) \o rest = d
  BY <1>5a, Cut, Zenon DEF Streams
<1>6. Head(buf) = Basic(0, m.csid) /\ Len(buf) \in Nat
  BY <1>0, <1>4, <1>5, <1>5b, StreamNone, StreamJoins
<1>7. r.buf = buf /\ r.state = "header" /\ r.size = size /\ r.message = NoSlots /\ r.out = None
      /\ r = [buf |-> buf, state |-> "header", csid |-> None, size |-> size,
              message |-> NoSlots, out |-> None]
  BY DEF Idle
<1>8. x = ParseChunkHeader(r)
  BY <1>7 DEF Parse
<1>9. Head(buf).unit = "basic" /\ Head(buf).fmt = 0 /\ Head(buf).csid = m.csid
  BY <1>6 DEF Basic
<1>10. CASE Len(buf) < 2
  <2>1. x = r
    BY <1>7, <1>8, <1>9, <1>10 DEF ParseChunkHeader
  <2>2. QED
    BY <1>1, <2>1
<1>11. CASE ~ (Len(buf) < 2)
  <2>1. SubSeq(buf, 1, 2) = l /\ e \in Streams /\ e \o rest = d
    BY <1>4, <1>5c, <1>6, <1>11
  <2>2. buf[2] = l[2]
    BY <1>4, <1>5b, <1>5c, <1>6, <1>11
  <2>3. buf[2].of = m
    BY <1>5, <2>2 DEF Header
  <2> HIDE DEF e
  <2>4. Used(r, 2) = [r EXCEPT !.buf = e]
    BY <1>7 DEF Used, e
  <2>5. x = [Used(r, 2) EXCEPT !.csid = m.csid, !.state = "body",
                !.message[m.csid] = [of |-> m, got |-> <<>>]]
    BY ZenonT(60), <1>7, <1>8, <1>9, <1>11, <2>3 DEF ParseChunkHeader
  <2>6. x = [buf |-> e, state |-> "body", csid |-> m.csid, size |-> size,
             message |-> [NoSlots EXCEPT ![m.csid] = [of |-> m, got |-> <<>>]], out |-> None]
    BY ZenonT(60), <1>7, <2>4, <2>5
  <2>7. x = InChunk(e, size, m, <<>>, "body")
    BY <1>2, <2>6, SlotTaken DEF InChunk
  <2>8. Joined(e, rest, d)
    BY <1>0, <2>1, Zenon DEF Joined
  <2>9. QED
    BY <1>1, <2>7, <2>8 DEF m, d
<1>12. QED
  BY <1>10, <1>11

\* A reader within a chunk takes that chunk's share when all of it is there.
LEMMA ParseBody ==
    ASSUME NEW buf, NEW rest, NEW size \in {1, 2}, NEW m \in Messages, NEW got, NEW full,
           NEW p, NEW d, Begins(Units, buf, rest, p, d), Grown(got, p, full),
           Len(p) = BodySize(InChunk(buf, size, m, got, "body")), buf # <<>>
    PROVE  \/ Parse(InChunk(buf, size, m, got, "body")) = InChunk(buf, size, m, got, "body")
           \/ \E e : /\ Joined(e, rest, d)
                     /\ AfterBody(Parse(InChunk(buf, size, m, got, "body")), e, size, m, full)
<1> DEFINE r == InChunk(buf, size, m, got, "body")
           x == Parse(r)
           n == Len(p)
           state == IF Len(full) >= m.lenght \/ Len(full) % size = 0 THEN "header" ELSE "body"
           e == SubSeq(buf, n + 1, Len(buf))
<1>1. buf \in Streams /\ rest \in Streams /\ p \in Streams /\ d \in Streams
  BY DEF Begins, Streams
<1>2. /\ r.buf = buf /\ r.size = size /\ r.state = "body" /\ r.csid = m.csid
      /\ r.message = Slots(m, got)
      /\ r = [buf |-> buf, state |-> "body", csid |-> m.csid, size |-> size,
              message |-> Slots(m, got), out |-> None]
  BY DEF InChunk
<1>3. r.message[r.csid] = [of |-> m, got |-> got]
  BY <1>2, SlotTaken
<1>4. r.message[r.csid].of = m /\ r.message[r.csid].got = got
  BY <1>3
<1>5. BodySize(r) = n
  OBVIOUS
<1>6. Parse(r) = ParseChunkBody(r)
  BY <1>2 DEF Parse
<1>7. Len(p) <= Len(buf) => SubSeq(buf, 1, n) = p /\ Joined(e, rest, d)
  <2> SUFFICES ASSUME Len(p) <= Len(buf) PROVE SubSeq(buf, 1, n) = p /\ Joined(e, rest, d)
    OBVIOUS
  <2>1. /\ SubSeq(buf, 1, Len(p)) = p
        /\ SubSeq(buf, Len(p) + 1, Len(buf)) \in Seq(Units)
        /\ SubSeq(buf, Len(p) + 1, Len(buf)) \o rest = d
    BY Cut, Zenon
  <2>2. QED
    BY <1>1, <2>1, Zenon DEF Streams, Joined
<1>8. n \in Nat /\ Len(buf) \in Nat
  BY <1>1, StreamJoins
<1> HIDE DEF n, r
<1>9. CASE Len(buf) < n
  <2>1. x = r
    BY <1>2, <1>5, <1>6, <1>9 DEF ParseChunkBody
  <2>2. QED
    BY <2>1 DEF r
<1>10. CASE ~ (Len(buf) < n)
  <2>1. SubSeq(r.buf, 1, n) = p /\ Joined(e, rest, d)
    BY <1>2, <1>7, <1>8, <1>10 DEF n
  <2>2. r.message[r.csid].got \o SubSeq(r.buf, 1, n) = full
    BY <1>4, <2>1, Zenon DEF Grown
  <2> HIDE DEF e
  <2>3. Used(r, n) = [r EXCEPT !.buf = e]
    BY <1>2 DEF Used, e
  <2>4. CASE Len(full) = m.lenght
    <3> DEFINE o == IF full = Pieces(m) THEN m ELSE Garbled
    <3>1. x = [Used(r, n) EXCEPT !.state = "header", !.csid = None,
                  !.message[r.csid] = NoMessage, !.out = o]
      BY <1>2, <1>4, <1>5, <1>6, <1>10, <2>2, <2>4, Zenon DEF ParseChunkBody
    <3> HIDE DEF o, x
    <3>2. x = [buf |-> e, state |-> "header", csid |-> None, size |-> size,
               message |-> [Slots(m, got) EXCEPT ![m.csid] = NoMessage], out |-> o]
      BY <1>2, <2>3, <3>1
    <3>2a. x = [buf |-> e, state |-> "header", csid |-> None, size |-> size,
                message |-> NoSlots, out |-> o]
      BY <3>2, SlotTaken
    <3>3. x = [Idle(e, size) EXCEPT !.out = o]
      BY <3>2a DEF Idle
    <3>4. QED
      BY <2>1, <2>4, <3>3 DEF o, r, x, AfterBody
  <2>5. CASE Len(full) # m.lenght
    <3>1. x = [Used(r, n) EXCEPT !.message[r.csid].got = full,
                !.state = IF ChunkDone(r, full, m.lenght) THEN "header" ELSE "body"]
      BY <1>2, <1>4, <1>5, <1>6, <1>10, <2>2, <2>5, Zenon DEF ParseChunkBody
    <3>2. ChunkDone(r, full, m.lenght) <=> Len(full) >= m.lenght \/ Len(full) % size = 0
      BY <1>2 DEF ChunkDone
    <3>3. x = [Used(r, n) EXCEPT !.message[r.csid].got = full, !.state = state]
      BY <3>1, <3>2, Zenon
    <3> HIDE DEF state, x
    <3> DEFINE y == Used(r, n)
               q == [Slots(m, got) EXCEPT ![m.csid].got = full]
    <3>3a. y = [buf |-> e, state |-> "body", csid |-> m.csid, size |-> size,
                message |-> Slots(m, got), out |-> None]
      BY <1>2, <2>3
    <3>3b. x = [y EXCEPT !.message[m.csid].got = full, !.state = state]
      BY <1>2, <3>3, Zenon
    <3> HIDE DEF y
    <3>3c. x = [buf |-> e, state |-> state, csid |-> m.csid, size |-> size,
                message |-> q, out |-> None]
      BY <3>3a, <3>3b
    <3> HIDE DEF q
    <3>4. q = Slots(m, full)
      BY SlotGets, Zenon DEF q
    <3>5. x = InChunk(e, size, m, full, state)
      BY <3>3c, <3>4 DEF InChunk
    <3>6. QED
      BY <2>1, <2>5, <3>5 DEF state, r, x, AfterBody
  <2>6. QED
    BY <2>4, <2>5
<1>11. QED
  BY <1>9, <1>10

\* A message's third piece has a chunk of its own, and its header comes first.
LEMMA ParseThird ==
    ASSUME NEW buf, NEW rest, NEW m \in Messages, NEW got, NEW d,
           Begins(Units, buf, rest, <<Basic(3, m.csid)>>, d), buf # <<>>
    PROVE  \E e : /\ Joined(e, rest, d)
                  /\ Parse(InChunk(buf, 2, m, got, "header")) = InChunk(e, 2, m, got, "body")
<1> DEFINE r == InChunk(buf, 2, m, got, "header")
           b == Basic(3, m.csid)
           p == <<b>>
           e == SubSeq(buf, 2, Len(buf))
<1>1. buf \in Streams /\ rest \in Streams
  BY DEF Begins, Streams
<1>2. r.buf = buf /\ r.state = "header"
      /\ r = [buf |-> buf, state |-> "header", csid |-> m.csid, size |-> 2,
              message |-> Slots(m, got), out |-> None]
  BY DEF InChunk
<1>3. p[1] = b /\ Len(p) = 1 /\ b.unit = "basic" /\ b.fmt = 3 /\ b.csid = m.csid
  BY DEF Basic
<1>4. Len(buf) \in Nat /\ Len(buf) # 0 /\ Head(buf) = buf[1]
  BY <1>1, StreamJoins, StreamNone
<1> HIDE DEF b
<1>5. buf[1] = b
  <2>1. 1 \in 1 .. Len(p) /\ 1 <= Len(buf)
    BY <1>3, <1>4
  <2> HIDE DEF p
  <2>2. buf[1] = p[1]
    BY <2>1, Shares DEF p, b
  <2>3. QED
    BY <1>3, <2>2
<1>6. Joined(e, rest, d)
  <2>1. Len(p) <= Len(buf) /\ Len(p) + 1 = 2
    BY <1>3, <1>4
  <2> HIDE DEF p
  <2>2. Begins(Units, buf, rest, p, d)
    BY DEF p, b
  <2>3. /\ SubSeq(buf, Len(p) + 1, Len(buf)) \in Seq(Units)
        /\ SubSeq(buf, Len(p) + 1, Len(buf)) \o rest = d
    BY <2>1, <2>2, Cut, Zenon
  <2>4. QED
    BY <1>1, <2>1, <2>3, Zenon DEF Streams, Joined
<1> HIDE DEF r, p, e
<1>7. Parse(r) = [Used(r, 1) EXCEPT !.csid = m.csid, !.state = "body"]
  <2>1. Parse(r) = ParseChunkHeader(r)
    BY <1>2 DEF Parse
  <2>2. /\ Head(r.buf).unit = "basic" /\ Head(r.buf).fmt # 0
        /\ Head(r.buf).csid = m.csid
    BY <1>2, <1>3, <1>4, <1>5
  <2>3. ParseChunkHeader(r) = [Used(r, 1) EXCEPT !.csid = Head(r.buf).csid, !.state = "body"]
    BY <2>2, Zenon DEF ParseChunkHeader
  <2>4. QED
    BY <2>1, <2>2, <2>3, Zenon
<1>8. Used(r, 1) = [r EXCEPT !.buf = e]
  BY <1>2 DEF Used, e
<1>9. Parse(r) = InChunk(e, 2, m, got, "body")
  <2> DEFINE y == Used(r, 1)
             x == Parse(r)
  <2>1. y = [buf |-> e, state |-> "header", csid |-> m.csid, size |-> 2,
             message |-> Slots(m, got), out |-> None]
    BY <1>2, <1>8
  <2>2. x = [y EXCEPT !.csid = m.csid, !.state = "body"]
    BY <1>7, Zenon
  <2> HIDE DEF y, x
  <2>3. x = [buf |-> e, state |-> "body", csid |-> m.csid, size |-> 2,
             message |-> Slots(m, got), out |-> None]
    BY <2>1, <2>2
  <2>4. QED
    BY <2>3, Zenon DEF InChunk, x
<1>10. QED
  BY <1>6, <1>9 DEF r

\* A reader that is out of step takes what comes for a message.
LEMMA ParseDoomed ==
    ASSUME NEW r, NEW rest, Doomed(r, rest)
    PROVE  LET x == Parse(r) IN
           x = r \/ \E e, m, got : x = [InChunk(e, 1, m, got, "header") EXCEPT !.out = Garbled]
<1>1. PICK m \in Messages, s \in Streams :
         /\ r = InChunk(r.buf, 1, m, <<Piece(m, 1)>>, "header")
         /\ Joined(r.buf, rest, s) /\ s # <<>> /\ s[1].unit # "basic"
  BY DEF Doomed
<1> DEFINE buf == r.buf
           got == <<Piece(m, 1)>>
<1>2. CASE buf = <<>>
  BY <1>2 DEF Parse
<1>3. CASE buf # <<>>
  <2> DEFINE e == SubSeq(buf, 2, Len(buf))
  <2> HIDE DEF got
  <2>1. r = [buf |-> buf, state |-> "header", csid |-> m.csid, size |-> 1,
             message |-> Slots(m, got), out |-> None]
    BY <1>1 DEF InChunk, got
  <2>2. r.state = "header"
    BY <2>1
  <2>3. buf \in Streams /\ rest \in Streams /\ buf \o rest = s
    BY <1>1, Zenon DEF Joined
  <2>4. Begins(Units, buf, rest, buf, rest)
    BY <2>3, Zenon DEF Begins, Streams
  <2>5. Begins(Units, s, <<>>, buf, rest)
    <3>1. s \o <<>> = s /\ <<>> \in Streams
      BY StreamJoins, Zenon
    <3>2. QED
      BY <2>3, <3>1, Zenon DEF Begins, Streams
  <2>6. Len(buf) \in Nat /\ Len(buf) # 0 /\ Head(buf) = buf[1] /\ Len(s) \in Nat /\ Len(s) # 0
    BY <1>1, <1>3, <2>3, StreamJoins, StreamNone
  <2>7. s[1] = buf[1]
    <3>1. 1 \in 1 .. Len(buf) /\ 1 <= Len(s)
      BY <2>6
    <3>2. QED
      BY <2>5, <3>1, Shares
  <2>8. Head(buf).unit # "basic"
    BY <1>1, <2>6, <2>7
  <2> HIDE DEF buf, e
  <2>9. Parse(r) = [Used(r, 1) EXCEPT !.out = Garbled]
    BY <1>3, <2>2, <2>8 DEF Parse, ParseChunkHeader, buf
  <2>10. Used(r, 1) = [r EXCEPT !.buf = e]
    BY DEF Used, e, buf
  <2>11. Parse(r) = [InChunk(e, 1, m, got, "header") EXCEPT !.out = Garbled]
    BY <2>1, <2>9, <2>10 DEF InChunk
  <2>12. QED
    BY <2>11
<1>4. QED
  BY <1>2, <1>3

\* What Parse reads of a reader within a message: the smaller of the chunk size and of what is
\* missing.
LEMMA ShareOf ==
    ASSUME NEW buf, NEW size, NEW m \in Messages, NEW got, NEW state
    PROVE  /\ BodySize(InChunk(buf, size, m, got, state)) =
                IF m.lenght - Len(got) > size THEN size ELSE m.lenght - Len(got)
           /\ InChunk(buf, size, m, got, state).out = None
           /\ InChunk(buf, size, m, got, state).size = size
           /\ InChunk(buf, size, m, got, state).buf = buf
           /\ InChunk(buf, size, m, got, state).state = state
<1> DEFINE r == InChunk(buf, size, m, got, state)
<1>1. r.message = Slots(m, got) /\ r.csid = m.csid /\ r.size = size
  BY DEF InChunk
<1>2. r.message[r.csid] = [of |-> m, got |-> got]
  BY <1>1, SlotTaken
<1>3. r.message[r.csid].of = m /\ r.message[r.csid].got = got
  BY <1>2
<1> HIDE DEF r
<1>4. BodySize(r) = IF m.lenght - Len(got) > size THEN size ELSE m.lenght - Len(got)
  BY <1>1, <1>3 DEF BodySize
<1>5. r.out = None /\ r.size = size /\ r.buf = buf /\ r.state = state
  BY DEF InChunk, r
<1>6. QED
  BY <1>4, <1>5 DEF r

\* The fields of a reader between messages.
LEMMA IdleIs ==
    ASSUME NEW buf, NEW size
    PROVE  /\ Idle(buf, size).out = None /\ Idle(buf, size).size = size
           /\ Idle(buf, size).buf = buf /\ Idle(buf, size).state = "header"
BY DEF Idle

\* The first chunk of a message.
LEMMA ParseFirst ==
    ASSUME NEW buf, NEW rest, NEW size \in {1, 2}, NEW m \in Messages, NEW T \in Streams,
           m.lenght = 1 \/ (m.lenght = 2 /\ size = 2),
           Joined(buf, rest, Body(m) \o T), buf # <<>>
    PROVE  LET r == InChunk(buf, size, m, <<>>, "body") IN
           \/ Parse(r) = r
           \/ \E e : Joined(e, rest, T) /\ Parse(r) = Made(e, size, m)
<1> DEFINE r == InChunk(buf, size, m, <<>>, "body")
           p1 == Piece(m, 1)
           p2 == Piece(m, 2)
           p == Body(m)
<1>3. p \in Streams
  BY PacketIs DEF Streams
<1>4. Begins(Units, buf, rest, p, T)
  BY <1>3, Zenon DEF Joined, Begins, Streams
<1>5. p = Pieces(m) /\ Len(p) = m.lenght
  <2>1. CASE m.lenght = 1
    <3>1. p = <<p1>> /\ Pieces(m) = <<p1>>
      BY <2>1 DEF Body, Pieces
    <3>2. QED
      BY <2>1, <3>1
  <2>2. CASE m.lenght = 2
    <3>1. p = <<p1, p2>> /\ Pieces(m) = <<p1, p2>>
      BY <2>2 DEF Body, Pieces
    <3>2. QED
      BY <2>2, <3>1
  <2>3. QED
    BY <2>1, <2>2
<1>6. Grown(<<>>, p, p)
  BY <1>3, StreamJoins, Zenon DEF Grown
<1>7. Len(p) = BodySize(r)
  BY <1>5, ShareOf
<1> HIDE DEF p
<1>9. \/ Parse(r) = r
      \/ \E e : Joined(e, rest, T) /\ AfterBody(Parse(r), e, size, m, p)
  BY <1>4, <1>6, <1>7, ParseBody
<1> HIDE DEF r
<1>10. QED
  BY <1>5, <1>9, Zenon DEF r, AfterBody, Made

\* Streams of a few units.
LEMMA FewUnits ==
    ASSUME NEW a \in Units, NEW b \in Units
    PROVE  /\ <<a>> \in Streams /\ <<a, b>> \in Streams
           /\ <<a>> \o <<b>> = <<a, b>>
<1>1. <<a>> \in Seq(Units) /\ <<a, b>> \in Seq(Units)
  OBVIOUS
<1>2. <<a>> \o <<b>> = <<a, b>>
  BY FewTwo
<1>3. QED
  BY <1>1, <1>2 DEF Streams

\* Three units, ...
LEMMA MoreUnits ==
    ASSUME NEW a \in Units, NEW b \in Units, NEW c \in Units
    PROVE  /\ <<b, c>> \in Streams /\ <<a, b, c>> \in Streams
           /\ <<a, b>> \o <<c>> = <<a, b, c>>
<1>1. <<a, b, c>> \in Seq(Units) /\ <<c>> \in Seq(Units) /\ <<a, b>> \in Seq(Units)
      /\ <<b, c>> \in Seq(Units)
  OBVIOUS
<1> DEFINE t == <<a, b>> \o <<c>>
<1>2. t \in Seq(Units) /\ Len(t) = 3 /\ t[1] = a /\ t[2] = b /\ t[3] = c
  BY <1>1, ConcatProperties
<1> HIDE DEF t
<1>3. t = <<a, b, c>>
  BY <1>2
<1>4. QED
  BY <1>1, <1>3 DEF Streams, t

\* ... and four.
LEMMA FourUnits ==
    ASSUME NEW a \in Units, NEW b \in Units, NEW c \in Units, NEW d \in Units
    PROVE  <<a>> \o <<b, c, d>> = <<a, b, c, d>>
<1>1. <<a>> \in Seq(Units) /\ <<b, c, d>> \in Seq(Units)
  OBVIOUS
<1> DEFINE t == <<a>> \o <<b, c, d>>
<1>2. t \in Seq(Units) /\ Len(t) = 4 /\ t[1] = a /\ t[2] = b /\ t[3] = c /\ t[4] = d
  BY <1>1, ConcatProperties
<1> HIDE DEF t
<1>3. t = <<a, b, c, d>>
  BY <1>2
<1>4. QED
  BY <1>3 DEF t

\* A stream w, T is taken apart where w is.
LEMMA Splits ==
    ASSUME NEW buf, NEW rest, NEW w, NEW p \in Streams, NEW q \in Streams, NEW T \in Streams,
           w = p \o q, Joined(buf, rest, w \o T)
    PROVE  Begins(Units, buf, rest, p, q \o T) /\ q \o T \in Streams
<1>1. (p \o q) \o T = p \o (q \o T)
  BY StreamAssociates, Zenon
<1>2. q \o T \in Streams
  BY StreamJoins, Zenon
<1>3. buf \in Streams /\ rest \in Streams /\ buf \o rest = w \o T
  BY Zenon DEF Joined
<1>4. buf \o rest = p \o (q \o T)
  BY <1>1, <1>3, Zenon
<1>5. QED
  BY <1>2, <1>3, <1>4, Zenon DEF Begins, Streams

\* The first two pieces of three.
LEMMA ParsePart ==
    ASSUME NEW buf, NEW rest, NEW m \in Messages, NEW T \in Streams, m.lenght = 3,
           Joined(buf, rest, Body(m) \o T), buf # <<>>
    PROVE  LET r == InChunk(buf, 2, m, <<>>, "body") IN
           \/ Parse(r) = r
           \/ \E e : /\ Joined(e, rest, <<Basic(3, m.csid), Piece(m, 3)>> \o T)
                     /\ Parse(r) = InChunk(e, 2, m, <<Piece(m, 1), Piece(m, 2)>>, "header")
<1> DEFINE p1 == Piece(m, 1)
           p2 == Piece(m, 2)
           p3 == Piece(m, 3)
           b3 == Basic(3, m.csid)
           p == <<p1, p2>>
           q == <<b3, p3>>
           r == InChunk(buf, 2, m, <<>>, "body")
<1>1. p1 \in Units /\ p2 \in Units /\ p3 \in Units /\ b3 \in Units
  BY UnitFacts
<1>2. Body(m) = <<p1, p2, b3, p3>>
  BY DEF Body
<1> HIDE DEF p1, p2, p3, b3
<1>3. p \in Streams /\ q \in Streams
  BY <1>1, FewUnits
<1>4. Body(m) = p \o q
  <2>1. p \o q = <<p1, p2, b3, p3>>
    BY <1>1, JoinFour
  <2>2. QED
    BY <1>2, <2>1, Zenon
<1>5. Len(p) = 2
  OBVIOUS
<1> HIDE DEF p, q
<1>6. Begins(Units, buf, rest, p, q \o T)
  BY <1>3, <1>4, Splits
<1>7. Grown(<<>>, p, p)
  BY <1>3, StreamJoins, Zenon DEF Grown
<1>8. Len(p) = BodySize(r)
  BY <1>5, ShareOf
<1>9. \/ Parse(r) = r
      \/ \E e : Joined(e, rest, q \o T) /\ AfterBody(Parse(r), e, 2, m, p)
  BY <1>6, <1>7, <1>8, ParseBody
<1>10. ASSUME NEW e, AfterBody(Parse(r), e, 2, m, p)
       PROVE  Parse(r) = InChunk(e, 2, m, p, "header")
  BY <1>5, <1>10 DEF AfterBody
<1> HIDE DEF r
<1>11. \/ Parse(r) = r
       \/ \E e : Joined(e, rest, q \o T) /\ Parse(r) = InChunk(e, 2, m, p, "header")
  BY <1>9, <1>10, Zenon
<1>12. QED
  BY <1>11, Zenon DEF r, p, q, p1, p2, p3, b3

\* The last of three.
LEMMA ParseLast ==
    ASSUME NEW buf, NEW rest, NEW m \in Messages, NEW T \in Streams, m.lenght = 3,
           Joined(buf, rest, <<Piece(m, 3)>> \o T), buf # <<>>
    PROVE  LET r == InChunk(buf, 2, m, <<Piece(m, 1), Piece(m, 2)>>, "body") IN
           \/ Parse(r) = r
           \/ \E e : Joined(e, rest, T) /\ Parse(r) = Made(e, 2, m)
<1> DEFINE p1 == Piece(m, 1)
           p2 == Piece(m, 2)
           p3 == Piece(m, 3)
           got == <<p1, p2>>
           p == <<p3>>
           full == <<p1, p2, p3>>
           r == InChunk(buf, 2, m, got, "body")
<1>1. p1 \in Units /\ p2 \in Units /\ p3 \in Units
  BY UnitFacts
<1>2. full = Pieces(m)
  BY DEF Pieces
<1> HIDE DEF p1, p2, p3
<1>3. p \in Streams
  BY <1>1, FewUnits
<1>4. Grown(got, p, full)
  BY <1>1, MoreUnits DEF Grown
<1>5. Len(p) = 1 /\ Len(got) = 2 /\ Len(full) = 3
  OBVIOUS
<1> HIDE DEF p, got, full
<1>6. Begins(Units, buf, rest, p, T)
  BY <1>3, Zenon DEF Joined, Begins, Streams, p, p3
<1>8. Len(p) = BodySize(r)
  <2>1. BodySize(r) = IF m.lenght - Len(got) > 2 THEN 2 ELSE m.lenght - Len(got)
    BY ShareOf
  <2> HIDE DEF r
  <2>2. QED
    BY <1>5, <2>1
<1>9. \/ Parse(r) = r
      \/ \E e : Joined(e, rest, T) /\ AfterBody(Parse(r), e, 2, m, full)
  BY <1>4, <1>6, <1>8, ParseBody
<1>10. ASSUME NEW e, AfterBody(Parse(r), e, 2, m, full)
       PROVE  Parse(r) = Made(e, 2, m)
  BY <1>2, <1>5, <1>10 DEF AfterBody, Made
<1> HIDE DEF r
<1>11. \/ Parse(r) = r
       \/ \E e : Joined(e, rest, T) /\ Parse(r) = Made(e, 2, m)
  BY <1>9, <1>10, Zenon
<1>12. QED
  BY <1>11, Zenon DEF r, got, p1, p2

\* A message of several pieces, read before the chunk size is known.
LEMMA ParseShort ==
    ASSUME NEW buf, NEW rest, NEW m \in Messages, NEW T \in Streams, m.lenght > 1,
           Joined(buf, rest, Body(m) \o T), buf # <<>>
    PROVE  LET r == InChunk(buf, 1, m, <<>>, "body") IN
           Parse(r) = r \/ Doomed(Parse(r), rest)
<1> DEFINE p1 == Piece(m, 1)
           p2 == Piece(m, 2)
           p3 == Piece(m, 3)
           b3 == Basic(3, m.csid)
           p == <<p1>>
           r == InChunk(buf, 1, m, <<>>, "body")
<1>1. p1 \in Units /\ p2 \in Units /\ p3 \in Units /\ b3 \in Units /\ p2.unit = "piece"
  BY UnitFacts DEF Piece
<1>2. /\ m.lenght = 2 => Body(m) = <<p1, p2>>
      /\ m.lenght # 2 => Body(m) = <<p1, p2, b3, p3>>
  <2>1. m.lenght \in 1 .. 3
    BY MessageFacts
  <2>2. m.lenght = 2 => Body(m) = <<p1, p2>>
    BY DEF Body
  <2>3. m.lenght = 3 => Body(m) = <<p1, p2, b3, p3>>
    BY DEF Body
  <2>4. QED
    BY <2>1, <2>2, <2>3
<1> HIDE DEF p1, p2, p3, b3
<1>3. PICK q \in Streams : Body(m) = p \o q /\ q[1] = p2 /\ q # <<>>
  <2>1. CASE m.lenght = 2
    <3>1. <<p2>> \in Streams /\ p \o <<p2>> = <<p1, p2>>
      BY <1>1, FewUnits
    <3>2. <<p2>>[1] = p2 /\ <<p2>> # <<>>
      OBVIOUS
    <3>3. QED
      BY <1>2, <2>1, <3>1, <3>2, Zenon
  <2>2. CASE m.lenght # 2
    <3>1. <<p2, b3, p3>> \in Streams
      BY <1>1, MoreUnits
    <3>2. p \o <<p2, b3, p3>> = <<p1, p2, b3, p3>>
      BY <1>1, FourUnits
    <3>3. <<p2, b3, p3>>[1] = p2 /\ <<p2, b3, p3>> # <<>>
      OBVIOUS
    <3>4. QED
      BY <1>2, <2>2, <3>1, <3>2, <3>3, Zenon
  <2>3. QED
    BY <2>1, <2>2
<1>4. p \in Streams /\ Len(p) = 1
  BY <1>1, FewUnits
<1> HIDE DEF p
<1>5. Begins(Units, buf, rest, p, q \o T) /\ q \o T \in Streams
  BY <1>3, <1>4, Splits
<1>6. (q \o T)[1] = p2 /\ q \o T # <<>>
  <2>1. Len(q) \in Nat /\ Len(q) # 0 /\ Len(T) \in Nat
    BY <1>3, StreamJoins, StreamNone
  <2>2. (q \o T)[1] = q[1] /\ Len(q \o T) = Len(q) + Len(T)
    BY <2>1, ConcatProperties DEF Streams
  <2>3. Len(q \o T) # 0
    BY <2>1, <2>2
  <2>4. QED
    BY <1>3, <1>5, <2>2, <2>3, StreamNone, Zenon
<1>7. Grown(<<>>, p, p)
  BY <1>4, StreamJoins, Zenon DEF Grown
<1>8. Len(p) = BodySize(r)
  <2>1. BodySize(r) = IF m.lenght - Len(<<>>) > 1 THEN 1 ELSE m.lenght - Len(<<>>)
    BY ShareOf
  <2>2. m.lenght \in 1 .. 3 /\ Len(<<>>) = 0
    BY MessageFacts, StreamJoins
  <2> HIDE DEF r
  <2>3. QED
    BY <1>4, <2>1, <2>2
<1>9. \/ Parse(r) = r
      \/ \E e : Joined(e, rest, q \o T) /\ AfterBody(Parse(r), e, 1, m, p)
  BY <1>5, <1>7, <1>8, ParseBody
<1>10. ASSUME NEW e, AfterBody(Parse(r), e, 1, m, p)
       PROVE  Parse(r) = InChunk(e, 1, m, p, "header")
  BY <1>4, <1>10, MessageFacts DEF AfterBody
<1> HIDE DEF r
<1>11. ASSUME NEW e, Joined(e, rest, q \o T), AfterBody(Parse(r), e, 1, m, p)
       PROVE  Doomed(Parse(r), rest)
  <2>1. Parse(r) = InChunk(e, 1, m, p, "header")
    BY <1>10, <1>11
  <2>2. Parse(r).buf = e
    BY <2>1, ShareOf
  <2>3. (q \o T)[1].unit # "basic"
    BY <1>1, <1>6
  <2> DEFINE s == q \o T
  <2> HIDE DEF s
  <2>4. s \in Streams /\ s # <<>> /\ s[1].unit # "basic" /\ Joined(Parse(r).buf, rest, s)
    BY <1>5, <1>6, <1>11, <2>2, <2>3, Zenon DEF s
  <2>5. QED
    BY <2>1, <2>2, <2>4, Zenon DEF Doomed, p, p1
<1>12. QED
  BY <1>9, <1>11, Zenon DEF r

\* A reader that is within a chunk.
LEMMA InChunkCarries ==
    ASSUME NEW e, NEW rest, NEW size \in {1, 2}, NEW P \in Seq(Messages), P # <<>>,
           NEW got, NEW state, NEW w \in Streams,
           Partial(InChunk(e, size, Head(P), got, state), Head(P), w),
           Joined(e, rest, w \o Chunks(Tail(P)))
    PROVE  Outcome(InChunk(e, size, Head(P), got, state), rest, P, size)
<1> DEFINE x == InChunk(e, size, Head(P), got, state)
<1>1. Head(P) \in Messages
  BY PacketsHead
<1>2. x.buf = e /\ x.size = size /\ x.out = None
  BY <1>1, ShareOf
<1> HIDE DEF x
<1>3. Within(x, rest, P)
  BY <1>2, Zenon DEF Within, x
<1>4. QED
  BY <1>2, <1>3, Zenon DEF Carries, Outcome, x

\* One call of Parse on a stream of whole messages goes on with the first of them, or
\* makes that of it; it loses its step only when the size of chunks is not known yet.
LEMMA ParseCarries ==
    ASSUME NEW r, NEW rest, NEW P \in Seq(Messages), r.size \in {1, 2}, Carries(r, rest, P)
    PROVE  Outcome(Parse(r), rest, P, r.size)
<1> DEFINE buf == r.buf
           size == r.size
           m == Head(P)
           T == Chunks(Tail(P))
<1>0. P # <<>> => m \in Messages /\ T \in Streams
  BY PacketsHead, ChunksAre DEF Streams
<1>1. r.out = None
  <2>1. CASE r = Idle(r.buf, r.size)
    BY <2>1, IdleIs
  <2>2. CASE P # <<>> /\ Within(r, rest, P)
    <3>1. PICK w : Partial(r, m, w)
      BY <2>2 DEF Within
    <3>2. QED
      BY <1>0, <2>2, <3>1, ShareOf DEF Partial
  <2>3. QED
    BY <2>1, <2>2 DEF Carries
<1>2. CASE Parse(r) = r
  BY <1>1, <1>2, Zenon DEF Outcome
<1>3. CASE buf = <<>>
  <2>1. Parse(r) = r
    BY <1>3 DEF Parse
  <2>2. QED
    BY <1>2, <2>1
<1>4. CASE buf # <<>> /\ r = Idle(buf, size) /\ Joined(buf, rest, Chunks(P))
  <2> HIDE DEF m, T, buf, size
  <2>0. size \in {1, 2}
    BY DEF size
  <2>1. /\ P # <<>>
        /\ \/ Parse(r) = r
           \/ \E e : /\ Parse(r) = InChunk(e, size, m, <<>>, "body")
                     /\ Joined(e, rest, Body(m) \o T)
    BY <1>4, <2>0, ParseIdle DEF m, T
  <2>2. ASSUME NEW e, Joined(e, rest, Body(m) \o T)
        PROVE  Outcome(InChunk(e, size, m, <<>>, "body"), rest, P, size)
    <3>1. Body(m) \in Streams
      BY <1>0, <2>1, PacketIs DEF Streams
    <3>2. Partial(InChunk(e, size, m, <<>>, "body"), m, Body(m))
      BY <1>0, <2>1, ShareOf DEF Partial
    <3>3. QED
      BY <2>0, <2>1, <2>2, <3>1, <3>2, InChunkCarries DEF m, T
  <2>3. QED
    BY <1>2, <2>1, <2>2, Zenon DEF size
<1>5. CASE buf # <<>> /\ P # <<>> /\ Within(r, rest, P)
  <2> HIDE DEF m, T, buf, size
  <2>0. m \in Messages /\ T \in Streams /\ size \in {1, 2} /\ m.lenght \in 1 .. 3
    BY <1>0, <1>5, MessageFacts DEF size
  <2>1. PICK w \in Streams : Partial(r, m, w) /\ Joined(buf, rest, w \o T)
    BY <1>5 DEF Within, m, T, buf
  <2>2. CASE r = InChunk(buf, size, m, <<>>, "body") /\ w = Body(m)
    <3>0. Joined(buf, rest, Body(m) \o T)
      BY <2>1, <2>2, Zenon
    <3>1. CASE m.lenght = 1 \/ (m.lenght = 2 /\ size = 2)
      <4>1. \/ Parse(r) = r
            \/ \E e : /\ Joined(e, rest, T)
                      /\ Parse(r) = Made(e, size, m)
        <5> DEFINE q == InChunk(buf, size, m, <<>>, "body")
        <5>1. P # <<>> /\ buf # <<>> /\ (m.lenght = 1 \/ (m.lenght = 2 /\ size = 2))
          BY <1>5, <3>1
        <5>2. \/ Parse(q) = q
              \/ \E e : /\ Joined(e, rest, T)
                        /\ Parse(q) = Made(e, size, m)
          BY <2>0, <3>0, <5>1, ParseFirst
        <5>3. r = q
          BY <2>2
        <5> HIDE DEF q
        <5>4. QED
          BY <5>2, <5>3, Zenon
      <4>2. QED
        BY <1>2, <1>5, <4>1, Zenon DEF Outcome, m, T, size
    <3>2. CASE m.lenght > 1 /\ size = 1
      <4>1. Parse(r) = r \/ Doomed(Parse(r), rest)
        BY <1>5, <2>0, <2>2, <3>0, <3>2, ParseShort
      <4>2. QED
        BY <1>2, <1>5, <3>2, <4>1, Zenon DEF Outcome, m, size
    <3>3. CASE m.lenght = 3 /\ size = 2
      <4>1. \/ Parse(r) = r
            \/ \E e : /\ Joined(e, rest, <<Basic(3, m.csid), Piece(m, 3)>> \o T)
                      /\ Parse(r) = InChunk(e, 2, m, <<Piece(m, 1), Piece(m, 2)>>, "header")
        <5> DEFINE q == InChunk(buf, 2, m, <<>>, "body")
        <5>1. \/ Parse(q) = q
              \/ \E e : /\ Joined(e, rest, <<Basic(3, m.csid), Piece(m, 3)>> \o T)
                        /\ Parse(q) = InChunk(e, 2, m, <<Piece(m, 1), Piece(m, 2)>>, "header")
          BY <1>5, <2>0, <3>0, <3>3, ParsePart
        <5>2. r = q
          BY <2>2, <3>3
        <5> HIDE DEF q
        <5>3. QED
          BY <5>1, <5>2, Zenon
      <4>2. ASSUME NEW e, Joined(e, rest, <<Basic(3, m.csid), Piece(m, 3)>> \o T)
            PROVE  Outcome(InChunk(e, 2, m, <<Piece(m, 1), Piece(m, 2)>>, "header"), rest, P, 2)
        <5>1. <<Basic(3, m.csid), Piece(m, 3)>> \in Streams
          <6> DEFINE b3 == Basic(3, m.csid)
                     p3 == Piece(m, 3)
          <6>1. b3 \in Units /\ p3 \in Units
            BY <2>0, UnitFacts
          <6> HIDE DEF b3, p3
          <6>2. <<b3, p3>> \in Streams
            BY <6>1, FewUnits
          <6>3. QED
            BY <6>2 DEF b3, p3
        <5>2. Partial(InChunk(e, 2, m, <<Piece(m, 1), Piece(m, 2)>>, "header"), m,
                      <<Basic(3, m.csid), Piece(m, 3)>>)
          BY <2>0, <3>3, ShareOf DEF Partial
        <5>3. QED
          BY <1>5, <4>2, <5>1, <5>2, InChunkCarries DEF m, T
      <4>3. QED
        BY <1>2, <3>3, <4>1, <4>2, Zenon DEF size
    <3>4. QED
      BY <2>0, <3>1, <3>2, <3>3
  <2>3. CASE /\ m.lenght = 3 /\ size = 2
             /\ r = InChunk(buf, 2, m, <<Piece(m, 1), Piece(m, 2)>>, "header")
             /\ w = <<Basic(3, m.csid), Piece(m, 3)>>
    <3> DEFINE b3 == Basic(3, m.csid)
               p3 == Piece(m, 3)
               got == <<Piece(m, 1), Piece(m, 2)>>
               v == <<b3>>
               z == <<p3>>
    <3>1. b3 \in Units /\ p3 \in Units
      BY <2>0, UnitFacts
    <3> HIDE DEF p3, b3
    <3>2. v \in Streams /\ z \in Streams /\ <<b3, p3>> = v \o z
      BY <3>1, FewUnits
    <3> HIDE DEF v, z
    <3>2a. w = v \o z
      BY <2>3, <3>2, Zenon DEF b3, p3
    <3>3. Begins(Units, buf, rest, v, z \o T)
      BY <2>0, <2>1, <3>2, <3>2a, Splits
    <3> HIDE DEF got
    <3>4. PICK e : Joined(e, rest, z \o T) /\ Parse(r) = InChunk(e, 2, m, got, "body")
      BY <1>5, <2>0, <2>3, <3>3, ParseThird DEF v, b3, got
    <3>5. Partial(InChunk(e, 2, m, got, "body"), m, z)
      BY <2>0, <2>3, ShareOf DEF Partial, z, p3, got
    <3>6. Outcome(InChunk(e, 2, m, got, "body"), rest, P, 2)
      BY <1>5, <3>2, <3>4, <3>5, InChunkCarries DEF m, T
    <3>7. QED
      BY <2>3, <3>4, <3>6, Zenon DEF size
  <2>4. CASE /\ m.lenght = 3 /\ size = 2
             /\ r = InChunk(buf, 2, m, <<Piece(m, 1), Piece(m, 2)>>, "body")
             /\ w = <<Piece(m, 3)>>
    <3>0. Joined(buf, rest, <<Piece(m, 3)>> \o T)
      BY <2>1, <2>4, Zenon
    <3>1. \/ Parse(r) = r
          \/ \E e : Joined(e, rest, T) /\ Parse(r) = Made(e, 2, m)
      BY <1>5, <2>0, <2>4, <3>0, ParseLast
    <3>2. QED
      BY <1>2, <1>5, <2>4, <3>1, Zenon DEF Outcome, m, T, size
  <2>5. QED
    BY <2>1, <2>2, <2>3, <2>4, Zenon DEF Partial, buf, size
<1>6. QED
  BY <1>3, <1>4, <1>5, Zenon DEF Carries

\* A stream grows at its end, and moves from one part to the one before it.
LEMMA JoinedMore ==
    ASSUME NEW a, NEW b, NEW s, NEW c \in Streams, NEW b2, NEW s2,
           Joined(a, b, s), Grown(b, c, b2), Grown(s, c, s2)
    PROVE  Joined(a, b2, s2)
<1>1. a \in Streams /\ b \in Streams /\ a \o b = s
  BY Zenon DEF Joined
<1>2. b2 = b \o c /\ s2 = s \o c
  BY Zenon DEF Grown
<1>3. (a \o b) \o c = a \o (b \o c)
  BY <1>1, StreamAssociates, Zenon
<1>4. b \o c \in Streams
  BY <1>1, StreamJoins, Zenon
<1>5. QED
  BY <1>1, <1>2, <1>3, <1>4, Zenon DEF Joined

\* What moves from the wire to the buffer leaves the stream what it was.
LEMMA JoinedMoves ==
    ASSUME NEW a, NEW s, NEW b \in Streams, NEW c \in Streams, NEW t, NEW a2,
           Joined(a, t, s), Grown(b, c, t), Grown(a, b, a2)
    PROVE  Joined(a2, c, s)
<1>1. a \in Streams /\ a \o t = s
  BY Zenon DEF Joined
<1>2. t = b \o c /\ a2 = a \o b
  BY Zenon DEF Grown
<1>3. (a \o b) \o c = a \o (b \o c)
  BY <1>1, StreamAssociates, Zenon
<1>4. a \o b \in Streams
  BY <1>1, StreamJoins, Zenon
<1>5. QED
  BY <1>1, <1>2, <1>3, <1>4, Zenon DEF Joined

\* So do messages.
LEMMA ChunksMore ==
    ASSUME NEW P \in Seq(Messages), NEW m \in Messages
    PROVE  /\ Packet(m) \in Streams /\ Chunks(P) \in Streams
           /\ Append(P, m) \in Seq(Messages) /\ Append(P, m) # <<>>
           /\ Grown(Chunks(P), Packet(m), Chunks(Append(P, m)))
           /\ P # <<>> => /\ Head(Append(P, m)) = Head(P)
                          /\ Tail(Append(P, m)) = Append(Tail(P), m)
                          /\ Tail(P) \in Seq(Messages)
<1>1. Packet(m) \in Streams /\ Chunks(P) \in Streams
  BY PacketsAre, ChunksAre DEF Streams
<1>2. Chunks(Append(P, m)) = Chunks(P) \o Packet(m)
  BY ChunksAre
<1>3. Append(P, m) \in Seq(Messages) /\ Append(P, m) # <<>>
  BY AppendProperties
<1>4. ASSUME P # <<>>
      PROVE  /\ Head(Append(P, m)) = Head(P) /\ Tail(P) \in Seq(Messages)
             /\ Tail(Append(P, m)) = Append(Tail(P), m)
  BY <1>4
<1>5. QED
  BY <1>1, <1>2, <1>3, <1>4, Zenon DEF Grown

\* A reader's stream with one more message sent to it.
LEMMA CarriesMore ==
    ASSUME NEW r, NEW rest, NEW P \in Seq(Messages), NEW m \in Messages, NEW rest2,
           Carries(r, rest, P), Grown(rest, Packet(m), rest2)
    PROVE  Carries(r, rest2, Append(P, m))
<1> DEFINE Q == Append(P, m)
<1>1. CASE r = Idle(r.buf, r.size) /\ Joined(r.buf, rest, Chunks(P))
  <2>1. Joined(r.buf, rest2, Chunks(Q))
    BY <1>1, ChunksMore, JoinedMore
  <2>2. QED
    BY <1>1, <2>1, Zenon DEF Carries
<1>2. CASE P # <<>> /\ Within(r, rest, P)
  <2>1. PICK w \in Streams : /\ Partial(r, Head(P), w)
                             /\ Joined(r.buf, rest, w \o Chunks(Tail(P)))
    BY <1>2, Zenon DEF Within
  <2> DEFINE c == Chunks(Tail(P))
             d == Chunks(Append(Tail(P), m))
             k == Packet(m)
  <2>2. /\ c \in Streams /\ k \in Streams /\ Grown(c, k, d)
        /\ Head(Q) = Head(P) /\ Tail(Q) = Append(Tail(P), m) /\ Q # <<>>
    <3>1. /\ Tail(P) \in Seq(Messages) /\ Q # <<>>
          /\ Head(Q) = Head(P) /\ Tail(Q) = Append(Tail(P), m)
      BY <1>2, ChunksMore
    <3>2. c \in Streams /\ k \in Streams /\ Grown(c, k, d)
      BY <3>1, ChunksMore
    <3>3. QED
      BY <3>1, <3>2
  <2> HIDE DEF c, d, k, Q
  <2>3. Grown(w \o c, k, w \o d)
    <3>1. (w \o c) \o k = w \o (c \o k)
      BY <2>2, StreamAssociates, Zenon
    <3>2. QED
      BY <2>2, <3>1, Zenon DEF Grown
  <2>4. Joined(r.buf, rest, w \o c)
    BY <2>1, Zenon DEF c
  <2>5. Joined(r.buf, rest2, w \o d)
    <3> DEFINE s == w \o c
               s2 == w \o d
    <3>1. Joined(r.buf, rest, s) /\ Grown(s, k, s2) /\ Grown(rest, k, rest2)
      BY <2>3, <2>4, Zenon DEF k
    <3> HIDE DEF s, s2
    <3>2. Joined(r.buf, rest2, s2)
      BY <2>2, <3>1, JoinedMore
    <3>3. QED
      BY <3>2, Zenon DEF s2
  <2>6. Within(r, rest2, Q)
    BY <2>1, <2>2, <2>5, Zenon DEF Within, d
  <2>7. QED
    BY <2>2, <2>6, Zenon DEF Carries, Q
<1>3. QED
  BY <1>1, <1>2, Zenon DEF Carries

\* What has come is put to what the reader has not used.
Fed(r, buf) == [r EXCEPT !.buf = buf]

\* The fields of a reader whose buffer is a.
LEMMA FedIs ==
    ASSUME NEW r, NEW a
    PROVE  /\ \A size : r = Idle(r.buf, size) => /\ Fed(r, a) = Idle(a, size)
                                                 /\ Fed(r, a).buf = a
                                                 /\ Fed(r, a).size = size
           /\ \A size, m, got, state :
                r = InChunk(r.buf, size, m, got, state) =>
                  /\ Fed(r, a) = InChunk(a, size, m, got, state)
                  /\ Fed(r, a).buf = a /\ Fed(r, a).size = size
<1> DEFINE z == r.buf
<1> HIDE DEF z
<1>1. ASSUME NEW size, r = Idle(z, size)
      PROVE  Fed(r, a) = Idle(a, size) /\ Fed(r, a).buf = a /\ Fed(r, a).size = size
  BY <1>1 DEF Fed, Idle
<1>2. ASSUME NEW size, NEW m, NEW got, NEW state, r = InChunk(z, size, m, got, state)
      PROVE  /\ Fed(r, a) = InChunk(a, size, m, got, state)
             /\ Fed(r, a).buf = a /\ Fed(r, a).size = size
  BY <1>2 DEF Fed, InChunk
<1>3. QED
  BY <1>1, <1>2, Zenon DEF z

\* A read moves a part of the stream to the buffer: the messages are the same.
LEMMA CarriesMoves ==
    ASSUME NEW r, NEW rest, NEW P \in Seq(Messages), NEW b \in Streams, NEW c \in Streams, NEW a,
           Carries(r, rest, P), Grown(b, c, rest), Grown(r.buf, b, a)
    PROVE  Carries(Fed(r, a), c, P) /\ Fed(r, a).size = r.size /\ Fed(r, a).buf = a
<1> DEFINE x == Fed(r, a)
<1>1. CASE r = Idle(r.buf, r.size) /\ Joined(r.buf, rest, Chunks(P))
  <2>1. x = Idle(a, r.size) /\ x.buf = a /\ x.size = r.size
    BY <1>1, FedIs
  <2>2. Joined(a, c, Chunks(P))
    BY <1>1, JoinedMoves
  <2> HIDE DEF x
  <2>3. Carries(x, c, P)
    BY <2>1, <2>2, Zenon DEF Carries
  <2>4. QED
    BY <2>1, <2>3 DEF x
<1>2. CASE P # <<>> /\ Within(r, rest, P)
  <2> DEFINE m == Head(P)
  <2>1. PICK w \in Streams : Partial(r, m, w) /\ Joined(r.buf, rest, w \o Chunks(Tail(P)))
    BY <1>2, Zenon DEF Within
  <2> DEFINE s == w \o Chunks(Tail(P))
  <2>2. Joined(r.buf, rest, s)
    BY <2>1
  <2> HIDE DEF s
  <2>3. Joined(a, c, s)
    BY <2>2, JoinedMoves
  <2> HIDE DEF m
  <2>4. PICK got, state : r = InChunk(r.buf, r.size, m, got, state)
    BY <2>1 DEF Partial
  <2>5. x = InChunk(a, r.size, m, got, state) /\ x.buf = a /\ x.size = r.size
    BY <2>4, FedIs
  <2>6. Partial(x, m, w)
    <3>1. \A g, t : r = InChunk(r.buf, r.size, m, g, t) => x = InChunk(a, r.size, m, g, t)
      BY FedIs
    <3> HIDE DEF x
    <3>2. QED
      BY <2>1, <2>5, <3>1 DEF Partial
  <2> HIDE DEF x
  <2>7. Within(x, c, P)
    BY <2>3, <2>5, <2>6, Zenon DEF Within, m, s
  <2>8. QED
    BY <1>2, <2>5, <2>7, Zenon DEF Carries, x
<1>3. QED
  BY <1>1, <1>2, Zenon DEF Carries

\* A reader that is out of step remains so.
LEMMA DoomedMore ==
    ASSUME NEW r, NEW rest, NEW c \in Streams, NEW rest2,
           Doomed(r, rest), Grown(rest, c, rest2)
    PROVE  Doomed(r, rest2)
<1>1. PICK m \in Messages, s \in Streams :
         /\ r = InChunk(r.buf, 1, m, <<Piece(m, 1)>>, "header")
         /\ Joined(r.buf, rest, s) /\ s # <<>> /\ s[1].unit # "basic"
  BY DEF Doomed
<1> DEFINE t == s \o c
<1>2. t \in Streams /\ t # <<>> /\ t[1] = s[1]
  <2>1. t \in Streams /\ Len(t) = Len(s) + Len(c) /\ Len(s) \in Nat /\ Len(c) \in Nat
    BY StreamJoins
  <2>2. Len(s) # 0
    BY <1>1, StreamNone
  <2>3. t[1] = s[1]
    BY <2>1, <2>2, ConcatProperties DEF Streams
  <2>4. t # <<>>
    BY <2>1, <2>2, StreamNone
  <2>5. QED
    BY <2>1, <2>3, <2>4
<1>3. Grown(s, c, t)
  BY Zenon DEF Grown
<1> HIDE DEF t
<1>4. Joined(r.buf, rest2, t)
  BY <1>1, <1>3, JoinedMore
<1>5. t[1].unit # "basic"
  BY <1>1, <1>2
<1>6. QED
  BY <1>1, <1>2, <1>4, <1>5, Zenon DEF Doomed

\* And a reader with the wrong chunk size stays one.
LEMMA DoomedMoves ==
    ASSUME NEW r, NEW rest, NEW b \in Streams, NEW c \in Streams, NEW a,
           Doomed(r, rest), Grown(b, c, rest), Grown(r.buf, b, a)
    PROVE  Doomed(Fed(r, a), c) /\ Fed(r, a).size = 1 /\ Fed(r, a).buf = a
<1>1. PICK m \in Messages, s \in Streams :
         /\ r = InChunk(r.buf, 1, m, <<Piece(m, 1)>>, "header")
         /\ Joined(r.buf, rest, s) /\ s # <<>> /\ s[1].unit # "basic"
  BY DEF Doomed
<1>2. Joined(a, c, s)
  BY <1>1, JoinedMoves
<1> DEFINE x == Fed(r, a)
<1>3. x = InChunk(a, 1, m, <<Piece(m, 1)>>, "header") /\ x.buf = a /\ x.size = 1
  BY <1>1, FedIs
<1> HIDE DEF x
<1>4. Doomed(x, c)
  BY <1>1, <1>2, <1>3, Zenon DEF Doomed
<1>5. QED
  BY <1>3, <1>4 DEF x

\* Packets: streams that are not empty.
Wires == {s \in Streams : s # <<>>}

\* What is in the queue is a packet, which is not empty.
LEMMA WiresAre ==
    /\ \A w \in Wires : w \in Streams /\ Len(w) \in Nat \ {0}
    /\ \A q \in Seq(Wires) : q \in Seq(Seq(Units)) /\ q \in Seq(Streams)
<1>1. \A w \in Wires : w \in Streams /\ Len(w) \in Nat \ {0}
  BY StreamJoins, StreamNone DEF Wires
<1>2. \A q \in Seq(Wires) : q \in Seq(Seq(Units)) /\ q \in Seq(Streams)
  <2> TAKE q \in Seq(Wires)
  <2>1. \A i \in 1 .. Len(q) : q[i] \in Streams
    BY <1>1
  <2>2. Len(q) \in Nat /\ q = [i \in 1 .. Len(q) |-> q[i]]
    OBVIOUS
  <2>3. q \in Seq(Streams)
    BY <2>1, <2>2, IsASeq
  <2>4. QED
    BY <2>3 DEF Streams
<1>3. QED
  BY <1>1, <1>2

\* What packets make together.
LEMMA FlatWires ==
    ASSUME NEW q \in Seq(Wires)
    PROVE  /\ FlattenSeq(q) \in Streams
           /\ \A w \in Wires : /\ Append(q, w) \in Seq(Wires)
                               /\ FlattenSeq(Append(q, w)) = FlattenSeq(q) \o w
           /\ FlattenSeq(q) = <<>> => q = <<>>
<1>1. q \in Seq(Seq(Units))
  BY WiresAre
<1>2. \A w \in Wires : w \in Seq(Units)
  BY WiresAre DEF Streams
<1>3. FlattenSeq(q) \in Streams
  <2>1. <<>> \in Seq(Units)
    OBVIOUS
  <2>2. QED
    BY <1>1, <2>1, FlatAppend DEF Streams
<1>4. ASSUME NEW w \in Wires
      PROVE  Append(q, w) \in Seq(Wires) /\ FlattenSeq(Append(q, w)) = FlattenSeq(q) \o w
  <2>1. FlattenSeq(Append(q, w)) = FlattenSeq(q) \o w
    BY <1>1, <1>2, FlatAppend
  <2>2. Append(q, w) \in Seq(Wires)
    BY AppendProperties
  <2>3. QED
    BY <2>1, <2>2
<1>5. ASSUME q # <<>> PROVE FlattenSeq(q) # <<>>
  <2> DEFINE h == Head(q)
             t == Tail(q)
             f == FlattenSeq(t)
  <2>1. h \in Wires /\ t \in Seq(Wires)
    BY <1>5, HeadTailProperties
  <2> HIDE DEF h, t
  <2>2. h \in Streams /\ Len(h) \in Nat \ {0}
    BY <2>1, WiresAre
  <2>3. f \in Streams
    <3>1. t \in Seq(Seq(Units)) /\ <<>> \in Seq(Units)
      BY <2>1, WiresAre
    <3>2. QED
      BY <3>1, FlatAppend DEF Streams
  <2>4. FlattenSeq(q) = h \o f
    BY <1>1, <1>5, FlatHead DEF h, t
  <2> HIDE DEF f
  <2>5. Len(h \o f) = Len(h) + Len(f) /\ Len(f) \in Nat /\ h \o f \in Streams
    BY <2>2, <2>3, StreamJoins
  <2>6. Len(h \o f) # 0
    BY <2>2, <2>5
  <2>7. QED
    BY <2>4, <2>5, <2>6, StreamNone
<1>6. QED
  BY <1>3, <1>4, <1>5

\* The first packets of a queue.
LEMMA FirstPackets2 ==
    ASSUME NEW q \in Seq(Wires)
    PROVE  /\ SubSeq(q, 1, 0) = <<>> /\ SubSeq(q, 1, Len(q)) = q
           /\ \A k \in 1 .. Len(q) : /\ SubSeq(q, 1, k - 1) \in Seq(Wires)
                                     /\ SubSeq(q, 1, k) = Append(SubSeq(q, 1, k - 1), q[k])
<1>1. SubSeq(q, 1, 0) = <<>> /\ SubSeq(q, 1, Len(q)) = q
  BY SubSeqProperties, Z3
<1>2. ASSUME NEW k \in 1 .. Len(q)
      PROVE  /\ SubSeq(q, 1, k - 1) \in Seq(Wires)
             /\ SubSeq(q, 1, k) = Append(SubSeq(q, 1, k - 1), q[k])
  <2>1. SubSeq(q, 1, k - 1) \in Seq(Wires) /\ SubSeq(q, 1, k) \in Seq(Wires)
    OBVIOUS
  <2>2. SubSeq(q, 1, k) = Append(SubSeq(q, 1, k - 1), q[k])
    OBVIOUS
  <2>3. QED
    BY <2>1, <2>2
<1>3. QED
  BY <1>1, <1>2

\* A sequence in two.
LEMMA SplitsAt ==
    ASSUME NEW U, NEW p \in Seq(U), NEW i \in 0 .. Len(p)
    PROVE  /\ SubSeq(p, 1, i) \in Seq(U) /\ Len(SubSeq(p, 1, i)) = i
           /\ SubSeq(p, i + 1, Len(p)) \in Seq(U)
           /\ Len(SubSeq(p, i + 1, Len(p))) = Len(p) - i
           /\ Grown(SubSeq(p, 1, i), SubSeq(p, i + 1, Len(p)), p)
<1> DEFINE a == SubSeq(p, 1, i)
           b == SubSeq(p, i + 1, Len(p))
<1>1. Len(p) \in Nat /\ i \in Nat /\ i <= Len(p)
  OBVIOUS
<1>2. a \in Seq(U) /\ Len(a) = i /\ \A j \in 1 .. i : a[j] = p[j]
  BY <1>1, SubSeqProperties
<1>3. /\ b \in Seq(U) /\ Len(b) = Len(p) - i
      /\ \A j \in 1 .. Len(p) - i : b[j] = p[j + i]
  BY <1>1, SubSeqProperties
<1> HIDE DEF a, b
<1>4. /\ a \o b \in Seq(U) /\ Len(a \o b) = Len(p)
      /\ \A j \in 1 .. Len(p) : (a \o b)[j] = p[j]
  <2>a. a \in Seq(U)
    BY <1>2
  <2>b. b \in Seq(U)
    BY <1>3
  <2>c. Len(a) + Len(b) = Len(p)
    BY <1>1, <1>2, <1>3
  <2>1. a \o b \in Seq(U) /\ Len(a \o b) = Len(a) + Len(b)
    BY <2>a, <2>b, ConcatProperties
  <2>d. \A k \in 1 .. Len(a) + Len(b) :
            (a \o b)[k] = IF k <= Len(a) THEN a[k] ELSE b[k - Len(a)]
    BY <2>a, <2>b, ConcatProperties
  <2>2. ASSUME NEW j \in 1 .. Len(p) PROVE (a \o b)[j] = p[j]
    <3>1. (a \o b)[j] = IF j <= Len(a) THEN a[j] ELSE b[j - Len(a)]
      BY <2>c, <2>d
    <3>2. CASE j <= i
      BY <1>1, <1>2, <3>1, <3>2
    <3>3. CASE ~ (j <= i)
      <4>1. j - i \in 1 .. Len(p) - i /\ (j - i) + i = j
        BY <1>1, <3>3
      <4>2. QED
        BY <1>2, <1>3, <3>1, <3>3, <4>1
    <3>4. QED
      BY <3>2, <3>3
  <2>3. Len(a \o b) = Len(p)
    BY <1>1, <1>2, <1>3, <2>1
  <2>4. QED
    BY <2>1, <2>2, <2>3, Zenon
<1> DEFINE c == a \o b
<1>5. c \in Seq(U) /\ Len(c) = Len(p) /\ \A j \in 1 .. Len(p) : c[j] = p[j]
  BY <1>4
<1> HIDE DEF c
<1>6. c = p
  BY <1>5
<1>7. QED
  BY <1>2, <1>3, <1>6 DEF Grown, a, b, c

\* What is left of a queue when n units of it are written is what follows them.
Leaving(x, n, k, units) ==
    /\ x = [n |-> x.n, rest |-> x.rest]
    /\ x.n \in Nat /\ x.rest \in Seq(Wires) /\ Len(x.rest) <= k
    /\ x.n # 0 => x.rest = <<>>
    /\ \E d \in Streams : Joined(d, FlattenSeq(x.rest), units) /\ Len(d) + x.n = n

\* One turn of BufferWriter's Send: k of the packets, and the units in them.
LEMMA WriteLeaves ==
    ASSUME NEW x, NEW n \in Nat, NEW k \in Nat, NEW units, NEW p \in Wires, NEW more,
           Leaving(x, n, k, units), Grown(units, p, more)
    PROVE  Leaving(Write(x, p), n, k + 1, more)
<1> DEFINE y == Write(x, p)
           s == SubSeq(p, x.n + 1, Len(p))
<1>1. PICK d \in Streams : Joined(d, FlattenSeq(x.rest), units) /\ Len(d) + x.n = n
  BY Zenon DEF Leaving
<1>2. /\ x.n \in Nat /\ x.rest \in Seq(Wires) /\ Len(x.rest) <= k /\ Len(x.rest) \in Nat
      /\ x.n # 0 => x.rest = <<>>
      /\ x = [n |-> x.n, rest |-> x.rest]
  BY DEF Leaving
<1>3. p \in Streams /\ Len(p) \in Nat \ {0} /\ Len(d) \in Nat
  BY WiresAre, StreamJoins
<1>4. x.rest = <<>> => Joined(d, <<>>, units) /\ d = units
  <2> SUFFICES ASSUME x.rest = <<>> PROVE Joined(d, <<>>, units) /\ d = units
    OBVIOUS
  <2>1. Joined(d, <<>>, units)
    BY <1>1, FlatEmpty, Zenon
  <2>2. QED
    BY <2>1, StreamJoins, Zenon DEF Joined
<1>5. <<>> \in Seq(Wires) /\ Len(<<>>) = 0
  OBVIOUS
<1>6. CASE x.n >= Len(p)
  <2>1. x.n # 0 /\ x.n - Len(p) \in Nat
    BY <1>2, <1>3, <1>6
  <2>2. x.rest = <<>>
    BY <1>2, <2>1
  <2>3. y = [n |-> x.n - Len(p), rest |-> <<>>]
    <3>1. y = [x EXCEPT !.n = @ - Len(p)]
      BY <1>6 DEF Write
    <3>2. QED
      BY <1>2, <2>2, <3>1
  <2>4. units \in Streams /\ d = units
    BY <1>4, <2>2, Zenon
  <2>5. more \in Streams /\ Joined(more, <<>>, more) /\ Len(more) = Len(units) + Len(p)
    <3>1. more = units \o p
      BY DEF Grown
    <3>2. more \in Streams /\ Len(more) = Len(units) + Len(p)
      BY <1>3, <2>4, <3>1, StreamJoins
    <3>3. QED
      BY <3>2, StreamJoins, Zenon DEF Joined
  <2>6. Len(more) + (x.n - Len(p)) = n
    BY <1>1, <1>2, <1>3, <2>4, <2>5
  <2>7. Joined(more, FlattenSeq(<<>>), more)
    BY <2>5, FlatEmpty, Zenon
  <2> HIDE DEF y
  <2>8. y.n = x.n - Len(p) /\ y.rest = <<>>
    BY <2>3
  <2>9. QED
    BY <1>5, <2>1, <2>3, <2>5, <2>6, <2>7, <2>8 DEF Leaving, y
<1>7. CASE x.n < Len(p)
  <2>1. y = [n |-> 0, rest |-> Append(x.rest, s)]
    BY <1>2, <1>3, <1>7 DEF Write
  <2>2. SubSeq(p, 1, x.n) \in Streams /\ s \in Wires /\ Len(SubSeq(p, 1, x.n)) = x.n
        /\ p = SubSeq(p, 1, x.n) \o s
    <3> DEFINE a == SubSeq(p, 1, x.n)
               i == x.n
    <3>1. p \in Seq(Units) /\ i \in 0 .. Len(p)
      BY <1>2, <1>3, <1>7 DEF Streams
    <3>2. /\ SubSeq(p, 1, i) \in Seq(Units) /\ Len(SubSeq(p, 1, i)) = i
          /\ SubSeq(p, i + 1, Len(p)) \in Seq(Units)
          /\ Len(SubSeq(p, i + 1, Len(p))) = Len(p) - i
          /\ Grown(SubSeq(p, 1, i), SubSeq(p, i + 1, Len(p)), p)
      <4> HIDE DEF i
      <4>1. QED
        BY <3>1, SplitsAt
    <3>3. a \in Streams /\ s \in Streams /\ Len(a) = x.n /\ Len(s) = Len(p) - x.n
          /\ Grown(a, s, p)
      BY <3>2 DEF Streams
    <3> HIDE DEF a, s, i
    <3>4. s # <<>>
      <4>1. Len(s) # 0
        BY <1>2, <1>3, <1>7, <3>3
      <4>2. QED
        BY <3>3, <4>1, StreamNone
    <3>5. p = a \o s
      BY <3>3, Zenon DEF Grown
    <3>6. QED
      BY <3>3, <3>4, <3>5, Zenon DEF Wires, a
  <2> DEFINE e == Append(x.rest, s)
  <2> HIDE DEF s
  <2>3. e \in Seq(Wires) /\ FlattenSeq(e) = FlattenSeq(x.rest) \o s /\ Len(e) = Len(x.rest) + 1
    <3>1. Len(e) = Len(x.rest) + 1
      BY <1>2, AppendProperties
    <3>2. QED
      BY <1>2, <2>2, <3>1, FlatWires
  <2>4. \E c \in Streams : Joined(c, FlattenSeq(e), more) /\ Len(c) = n
    <3>1. CASE x.n = 0
      <4>1. s = p
        BY <3>1, <1>3, SubSeqProperties DEF s, Streams
      <4>2. Grown(FlattenSeq(x.rest), p, FlattenSeq(e))
        BY <2>3, <4>1, Zenon DEF Grown
      <4> HIDE DEF e
      <4>3. Joined(d, FlattenSeq(e), more)
        BY <1>1, <1>3, <4>2, JoinedMore
      <4>4. QED
        BY <1>1, <1>3, <3>1, <4>3
    <3>2. CASE x.n # 0
      <4> DEFINE a == SubSeq(p, 1, x.n)
                 c == units \o a
      <4>1. x.rest = <<>> /\ d = units /\ units \in Streams
        BY <1>2, <1>4, <3>2, Zenon
      <4>2. FlattenSeq(e) = s
        <5>1. s \in Streams
          BY <2>2, WiresAre
        <5>2. QED
          BY <2>3, <4>1, <5>1, FlatEmpty, StreamJoins, Zenon
      <4>3. p = a \o s /\ a \in Streams /\ Len(a) = x.n /\ s \in Streams
        BY <2>2, WiresAre
      <4> HIDE DEF a
      <4>4. c \in Streams /\ Len(c) = n
        <5>1. c \in Streams /\ Len(c) = Len(units) + Len(a)
          BY <4>1, <4>3, StreamJoins
        <5>2. QED
          BY <1>1, <1>2, <1>3, <4>1, <4>3, <5>1
      <4>5. (units \o a) \o s = units \o (a \o s)
        BY <4>1, <4>3, StreamAssociates, Zenon
      <4>6. Joined(c, s, more)
        BY <4>3, <4>4, <4>5, Zenon DEF Joined, Grown
      <4>7. QED
        BY <4>2, <4>4, <4>6, Zenon
    <3>3. QED
      BY <3>1, <3>2
  <2>5. y.n = 0 /\ y.rest = e /\ y = [n |-> y.n, rest |-> y.rest]
    BY <2>1
  <2> HIDE DEF y, e
  <2>6. Len(e) <= k + 1
    BY <1>2, <2>3
  <2>7. \E c \in Streams : Joined(c, FlattenSeq(y.rest), more) /\ Len(c) + y.n = n
    <3>1. PICK c \in Streams : Joined(c, FlattenSeq(e), more) /\ Len(c) = n
      BY <2>4
    <3>2. Len(c) + 0 = n
      BY <3>1
    <3>3. QED
      BY <2>5, <3>1, <3>2, Zenon
  <2>8. /\ y.n \in Nat /\ y.rest \in Seq(Wires) /\ Len(y.rest) <= k + 1
        /\ y.n # 0 => y.rest = <<>>
    BY <2>3, <2>5, <2>6
  <2>9. Leaving(y, n, k + 1, more)
    BY <2>5, <2>7, <2>8, Zenon DEF Leaving
  <2>10. QED
    BY <2>9 DEF y
<1>8. x.n >= Len(p) \/ x.n < Len(p)
  <2>1. x.n \in Nat /\ Len(p) \in Nat
    BY <1>2, <1>3
  <2>2. QED
    BY <2>1
<1>9. QED
  BY <1>6, <1>7, <1>8

\* After n units are written, the rest of the queue is the rest of its units.
LEMMA WrittenIs ==
    ASSUME NEW q \in Seq(Wires), NEW n \in Nat, n <= Len(FlattenSeq(q))
    PROVE  /\ Written(q, n) \in Seq(Wires) /\ Len(Written(q, n)) <= Len(q)
           /\ Joined(SubSeq(FlattenSeq(q), 1, n), FlattenSeq(Written(q, n)), FlattenSeq(q))
           /\ Len(SubSeq(FlattenSeq(q), 1, n)) = n
<1> DEFINE m == Len(q)
           units(k) == FlattenSeq(SubSeq(q, 1, k))
<1>1. m \in Nat /\ DOMAIN q = 1 .. m
  OBVIOUS
<1>2. PICK g : /\ g[0] = [n |-> n, rest |-> <<>>] /\ g[m].rest = Written(q, n)
               /\ \A k \in 1 .. m : g[k] = Write(g[k - 1], q[k])
  <2>1. \A z \in Nat : DOMAIN q = 1 .. z =>
          \E g : /\ g[0] = [n |-> n, rest |-> <<>>] /\ g[z].rest = Written(q, n)
                 /\ \A k \in 1 .. z : g[k] = Write(g[k - 1], q[k])
    BY WrittenRuns
  <2> HIDE DEF m
  <2>2. QED
    BY <1>1, <2>1, Zenon
<1> DEFINE T == {k \in Nat : Leaving(g[k], n, k, units(k))}
<1>3. 0 \in T
  <2>1. units(0) = <<>>
    BY FirstPackets2, FlatEmpty
  <2>2. <<>> \in Seq(Wires) /\ Len(<<>>) = 0
    OBVIOUS
  <2>3. Joined(<<>>, FlattenSeq(<<>>), <<>>) /\ <<>> \in Streams
    BY StreamJoins, FlatEmpty, Zenon DEF Joined
  <2>4. g[0].n = n /\ g[0].rest = <<>> /\ g[0] = [n |-> g[0].n, rest |-> g[0].rest]
    BY <1>2
  <2> HIDE DEF units
  <2>5. Leaving(g[0], n, 0, units(0))
    BY <2>1, <2>2, <2>3, <2>4 DEF Leaving
  <2>6. QED
    BY <2>5
<1>4. ASSUME NEW k \in 1 .. m, k - 1 \in T PROVE k \in T
  <2>1. q[k] \in Wires
    OBVIOUS
  <2>2. Grown(units(k - 1), q[k], units(k))
    <3> DEFINE s == SubSeq(q, 1, k - 1)
    <3>1. s \in Seq(Wires) /\ SubSeq(q, 1, k) = Append(s, q[k])
      BY FirstPackets2
    <3> HIDE DEF s
    <3>2. FlattenSeq(Append(s, q[k])) = FlattenSeq(s) \o q[k]
      BY <2>1, <3>1, FlatWires
    <3>3. QED
      BY <3>1, <3>2, Zenon DEF Grown, s
  <2> HIDE DEF units
  <2>3. Leaving(g[k - 1], n, k - 1, units(k - 1)) /\ g[k] = Write(g[k - 1], q[k]) /\ k - 1 \in Nat
    BY <1>2, <1>4
  <2>4. Leaving(g[k], n, (k - 1) + 1, units(k))
    BY <2>1, <2>2, <2>3, WriteLeaves
  <2>5. (k - 1) + 1 = k /\ k \in Nat
    BY <1>4, <1>1
  <2>6. QED
    BY <2>4, <2>5
<1>5. Leaving(g[m], n, m, units(m))
  <2> HIDE DEF T
  <2>1. \A k \in 0 .. m : k \in T
    BY <1>1, <1>3, <1>4, Steps
  <2>2. m \in T
    BY <1>1, <2>1
  <2>3. QED
    BY <2>2 DEF T
<1>6. units(m) = FlattenSeq(q)
  BY FirstPackets2
<1> DEFINE f == FlattenSeq(q)
           w == Written(q, n)
           x == g[m]
<1>7. Leaving(x, n, m, f) /\ x.rest = w
  BY <1>2, <1>5, <1>6
<1> HIDE DEF f, w, x, T, units, m
<1>8. PICK d \in Streams : Joined(d, FlattenSeq(w), f) /\ Len(d) + x.n = n
  BY <1>7, Zenon DEF Leaving
<1>9. x.n \in Nat /\ w \in Seq(Wires) /\ Len(w) <= m /\ (x.n # 0 => w = <<>>)
  BY <1>7 DEF Leaving
<1>10. f \in Streams /\ FlattenSeq(w) \in Streams /\ Len(d) \in Nat /\ Len(f) \in Nat
  BY <1>8, <1>9, FlatWires, StreamJoins DEF f
<1>11. x.n = 0
  <2> SUFFICES ASSUME x.n # 0 PROVE FALSE
    OBVIOUS
  <2>1. FlattenSeq(w) = <<>>
    BY <1>9, FlatEmpty
  <2>2. f = d
    BY <1>8, <2>1, StreamJoins, Zenon DEF Joined
  <2>3. QED
    BY <1>8, <1>9, <1>10, <2>2 DEF f
<1>12. SubSeq(f, 1, n) = d
  <2>1. Begins(Units, f, <<>>, d, FlattenSeq(w))
    <3>1. f \o <<>> = f /\ <<>> \in Streams
      BY <1>10, StreamJoins, Zenon
    <3>2. QED
      BY <1>8, <1>10, <3>1, Zenon DEF Begins, Streams, Joined
  <2>2. Len(d) <= Len(f) /\ Len(d) = n
    BY <1>8, <1>10, <1>11 DEF f
  <2>3. SubSeq(f, 1, Len(d)) = d
    <3>1. /\ SubSeq(f, 1, Len(d)) = d
          /\ SubSeq(f, Len(d) + 1, Len(f)) \in Seq(Units)
          /\ SubSeq(f, Len(d) + 1, Len(f)) \o <<>> = FlattenSeq(w)
      BY <2>1, <2>2, Cut, Zenon
    <3>2. QED
      BY <3>1
  <2>4. QED
    BY <2>2, <2>3
<1>13. Joined(SubSeq(f, 1, n), FlattenSeq(w), f)
  BY <1>8, <1>12, Zenon
<1>14. Len(SubSeq(f, 1, n)) = n
  BY <1>8, <1>10, <1>11, <1>12
<1>15. QED
  BY <1>9, <1>13, <1>14, Zenon DEF f, w, m

\* Of nothing no message ends.
LEMMA EndedNone == Ended(<<>>) = <<>>
<1> DEFINE q == <<>>
<1>1. DOMAIN q = 1 .. 0 /\ 0 \in Nat
  OBVIOUS
<1> HIDE DEF q
<1>2. PICK g : g[0] = <<>> /\ g[0] = Ended(q)
  BY <1>1, EndedRuns
<1>3. QED
  BY <1>2, Zenon DEF q

\* Only the last piece of a message ends it.
LEMMA EndsIs ==
    /\ \A fmt, csid : ~ Ends(Basic(fmt, csid))
    /\ \A m : ~ Ends(Header(m))
    /\ \A m, i : (Ends(Piece(m, i)) <=> i = m.lenght) /\ Piece(m, i).of = m
    /\ \A u \in Units : Ends(u) => u.of \in Messages
    /\ \A name, i : name # "piece" => ~ Ends([unit |-> name, no |-> i])
<1>1. \A fmt, csid : ~ Ends(Basic(fmt, csid))
  BY DEF Ends, Basic
<1>2. \A m : ~ Ends(Header(m))
  BY DEF Ends, Header
<1>3. \A m, i : (Ends(Piece(m, i)) <=> i = m.lenght) /\ Piece(m, i).of = m
  BY DEF Ends, Piece
<1>4. \A u \in Units : Ends(u) => u.of \in Messages
  <2> SUFFICES ASSUME NEW u \in Units, Ends(u) PROVE u.of \in Messages
    OBVIOUS
  <2>1. u.unit = "piece"
    BY DEF Ends
  <2>2. u \in [unit : {"piece"}, of : Messages, no : 1 .. 3]
    BY <2>1 DEF Units
  <2>3. QED
    BY <2>2
<1>5. \A name, i : name # "piece" => ~ Ends([unit |-> name, no |-> i])
  BY DEF Ends
<1>6. QED
  BY <1>1, <1>2, <1>3, <1>4, <1>5

\* One unit of the stream adds a message or none.
LEMMA EndTurnIs ==
    ASSUME NEW s \in Seq(Messages), NEW u \in Units
    PROVE  /\ EndTurn(s, u) \in Seq(Messages)
           /\ \A p \in Seq(Messages) : EndTurn(p \o s, u) = p \o EndTurn(s, u)
<1>1. CASE ~ Ends(u)
  BY <1>1 DEF EndTurn
<1>2. CASE Ends(u)
  <2> DEFINE m == u.of
  <2>1. m \in Messages
    BY <1>2, EndsIs
  <2>2. \A p \in Seq(Messages) : EndTurn(p, u) = Append(p, m)
    BY <1>2 DEF EndTurn
  <2> HIDE DEF m
  <2>3. \A p \in Seq(Messages) : Append(p \o s, m) = p \o Append(s, m)
    <3> TAKE p \in Seq(Messages)
    <3>1. \A x \in Seq(Messages) : Append(x, m) = x \o <<m>>
      BY <2>1, AppendIsConcat
    <3>2. <<m>> \in Seq(Messages) /\ p \o s \in Seq(Messages)
      BY <2>1
    <3>3. (p \o s) \o <<m>> = p \o (s \o <<m>>)
      BY <3>2, Associates
    <3>4. QED
      BY <3>1, <3>2, <3>3
  <2>4. Append(s, m) \in Seq(Messages) /\ \A p \in Seq(Messages) : p \o s \in Seq(Messages)
    BY <2>1
  <2>5. QED
    BY <2>2, <2>3, <2>4
<1>3. QED
  BY <1>1, <1>2

\* The messages of two stretches are those of the one and those of the other.
LEMMA EndedJoins ==
    ASSUME NEW a \in Streams, NEW b \in Streams
    PROVE  /\ Ended(a) \in Seq(Messages)
           /\ Ended(a \o b) = Ended(a) \o Ended(b)
<1> DEFINE n == Len(a)
           k == Len(b)
           c == a \o b
<1>1. /\ n \in Nat /\ k \in Nat /\ n + k \in Nat /\ c \in Streams
      /\ DOMAIN a = 1 .. n /\ DOMAIN b = 1 .. k /\ DOMAIN c = 1 .. (n + k)
      /\ \A i \in 1 .. n : c[i] = a[i] /\ a[i] \in Units
      /\ \A i \in 1 .. k : c[n + i] = b[i] /\ b[i] \in Units
  <2>1. a \in Seq(Units) /\ b \in Seq(Units) /\ c \in Seq(Units) /\ Len(c) = n + k
    BY ConcatProperties DEF Streams
  <2>2. \A i \in 1 .. n : c[i] = a[i] /\ a[i] \in Units
    BY <2>1, ConcatProperties
  <2>3. \A i \in 1 .. k : c[n + i] = b[i] /\ b[i] \in Units
    <3> TAKE i \in 1 .. k
    <3>1. n + i \in 1 .. Len(a) + Len(b) /\ n + i > Len(a) /\ (n + i) - Len(a) = i
      BY <2>1
    <3>2. c[n + i] = b[(n + i) - Len(a)]
      BY <2>1, <3>1, ConcatProperties
    <3>3. QED
      BY <2>1, <3>1, <3>2
  <2>4. QED
    BY <2>1, <2>2, <2>3 DEF Streams
<1> HIDE DEF n, k, c
<1>2. PICK f : /\ f[0] = <<>> /\ f[n] = Ended(a)
               /\ \A i \in 1 .. n : f[i] = EndTurn(f[i - 1], a[i])
  BY <1>1, EndedRuns
<1>3. PICK g : /\ g[0] = <<>> /\ g[k] = Ended(b)
               /\ \A i \in 1 .. k : g[i] = EndTurn(g[i - 1], b[i])
  BY <1>1, EndedRuns
<1>4. PICK h : /\ h[0] = <<>> /\ h[n + k] = Ended(c)
               /\ \A i \in 1 .. n + k : h[i] = EndTurn(h[i - 1], c[i])
  BY <1>1, EndedRuns
<1>5. \A i \in 0 .. n : h[i] = f[i] /\ f[i] \in Seq(Messages)
  <2> DEFINE T == {i \in 0 .. n : h[i] = f[i] /\ f[i] \in Seq(Messages)}
  <2>1. 0 \in T
    <3>1. 0 \in 0 .. n /\ h[0] = f[0] /\ f[0] = <<>> /\ <<>> \in Seq(Messages)
      BY <1>1, <1>2, <1>4
    <3>2. QED
      BY <3>1
  <2>2. ASSUME NEW i \in 1 .. n, i - 1 \in T PROVE i \in T
    <3>1. h[i - 1] = f[i - 1] /\ f[i - 1] \in Seq(Messages)
      BY <2>2
    <3>2. h[i] = EndTurn(h[i - 1], c[i]) /\ f[i] = EndTurn(f[i - 1], a[i])
      <4> HIDE DEF T
      <4>1. f[i] = EndTurn(f[i - 1], a[i])
        BY <1>2
      <4>2. i \in 1 .. n + k
        <5>1. n \in Nat /\ k \in Nat
          BY <1>1
        <5>2. QED
          BY <5>1
      <4>3. h[i] = EndTurn(h[i - 1], c[i])
        BY <1>4, <4>2
      <4>4. QED
        BY <4>1, <4>3
    <3>3. c[i] = a[i] /\ a[i] \in Units
      BY <1>1
    <3>4. f[i] \in Seq(Messages)
      BY <3>1, <3>2, <3>3, EndTurnIs
    <3>5. QED
      BY <1>1, <3>1, <3>2, <3>3, <3>4
  <2> HIDE DEF T
  <2>3. \A i \in 0 .. n : i \in T
    BY <1>1, <2>1, <2>2, Steps
  <2>4. QED
    BY <2>3 DEF T
<1>6. f[n] \in Seq(Messages) /\ h[n] = f[n]
  BY <1>1, <1>5
<1>7. \A i \in 0 .. k : h[n + i] = f[n] \o g[i] /\ g[i] \in Seq(Messages)
  <2> DEFINE T == {i \in 0 .. k : h[n + i] = f[n] \o g[i] /\ g[i] \in Seq(Messages)}
  <2>1. 0 \in T
    <3>1. 0 \in 0 .. k /\ n + 0 = n
      BY <1>1
    <3>2. f[n] \o <<>> = f[n] /\ <<>> \in Seq(Messages)
      BY <1>6, ConcatEmptySeq
    <3>3. h[n + 0] = f[n] \o g[0] /\ g[0] \in Seq(Messages)
      BY <1>3, <1>6, <3>1, <3>2
    <3>4. QED
      BY <3>1, <3>3
  <2>2. ASSUME NEW i \in 1 .. k, i - 1 \in T PROVE i \in T
    <3>1. h[n + (i - 1)] = f[n] \o g[i - 1] /\ g[i - 1] \in Seq(Messages)
      BY <2>2
    <3>2. n + i \in 1 .. n + k /\ (n + i) - 1 = n + (i - 1)
      BY <1>1
    <3>3. h[n + i] = EndTurn(h[(n + i) - 1], c[n + i]) /\ g[i] = EndTurn(g[i - 1], b[i])
      BY <1>3, <1>4, <3>2
    <3>4. c[n + i] = b[i] /\ b[i] \in Units
      BY <1>1
    <3>5. g[i] \in Seq(Messages) /\ h[n + i] = f[n] \o g[i]
      <4>1. EndTurn(g[i - 1], b[i]) \in Seq(Messages)
        BY <3>1, <3>4, EndTurnIs
      <4>2. EndTurn(f[n] \o g[i - 1], b[i]) = f[n] \o EndTurn(g[i - 1], b[i])
        BY <1>6, <3>1, <3>4, EndTurnIs
      <4>3. QED
        BY <3>1, <3>2, <3>3, <3>4, <4>1, <4>2, Zenon
    <3>6. i \in 0 .. k
      BY <1>1
    <3>7. QED
      BY <3>5, <3>6
  <2> HIDE DEF T
  <2>3. \A i \in 0 .. k : i \in T
    BY <1>1, <2>1, <2>2, Steps
  <2>4. QED
    BY <2>3 DEF T
<1>8. h[n + k] = f[n] \o g[k]
  <2>1. k \in 0 .. k
    BY <1>1
  <2>2. QED
    BY <1>7, <2>1
<1>9. QED
  BY <1>2, <1>3, <1>4, <1>6, <1>8, Zenon DEF c

\* Of units of which none ends a message there is none.
LEMMA EndedNothing ==
    ASSUME NEW s \in Streams, \A i \in 1 .. Len(s) : ~ Ends(s[i])
    PROVE  Ended(s) = <<>>
<1> DEFINE n == Len(s)
<1>1. n \in Nat /\ DOMAIN s = 1 .. n
  BY DEF Streams
<1>2. \A i \in 1 .. n : ~ Ends(s[i])
  OBVIOUS
<1> HIDE DEF n
<1>3. PICK g : /\ g[0] = <<>> /\ g[n] = Ended(s)
               /\ \A i \in 1 .. n : g[i] = EndTurn(g[i - 1], s[i])
  BY <1>1, EndedRuns
<1> DEFINE T == {i \in 0 .. n : g[i] = <<>>}
<1>4. 0 \in T
  BY <1>1, <1>3
<1>5. ASSUME NEW i \in 1 .. n, i - 1 \in T PROVE i \in T
  <2>1. g[i - 1] = <<>> /\ g[i] = EndTurn(g[i - 1], s[i])
    BY <1>3, <1>5
  <2>2. g[i] = g[i - 1]
    BY <1>2, <2>1 DEF EndTurn
  <2>3. QED
    BY <1>1, <2>1, <2>2
<1> HIDE DEF T
<1>6. \A i \in 0 .. n : i \in T
  BY <1>1, <1>4, <1>5, Steps
<1>7. QED
  BY <1>1, <1>3, <1>6 DEF T

\* Of one unit there is the message that it ends.
LEMMA EndedOne ==
    ASSUME NEW u \in Units
    PROVE  /\ <<u>> \in Streams
           /\ Ends(u) => Ended(<<u>>) = <<u.of>>
           /\ ~ Ends(u) => Ended(<<u>>) = <<>>
<1> DEFINE q == <<u>>
<1>1. q \in Streams /\ DOMAIN q = 1 .. 1 /\ q[1] = u /\ Len(q) = 1
  BY DEF Streams
<1> HIDE DEF q
<1>2. PICK g : g[0] = <<>> /\ g[1] = Ended(q) /\ \A i \in 1 .. 1 : g[i] = EndTurn(g[i - 1], q[i])
  BY <1>1, EndedRuns
<1>3. Ended(q) = EndTurn(<<>>, u)
  BY <1>1, <1>2
<1>4. Ends(u) => EndTurn(<<>>, u) = <<u.of>>
  BY DEF EndTurn
<1>5. ~ Ends(u) => EndTurn(<<>>, u) = <<>>
  BY DEF EndTurn
<1>6. QED
  BY <1>1, <1>3, <1>4, <1>5 DEF q

\* What a reader has still to read of a message ends that message; its headers none.
LEMMA EndedPacket ==
    ASSUME NEW m \in Messages
    PROVE  /\ \A r, w : Partial(r, m, w) => w \in Streams /\ Ended(w) = <<m>>
           /\ Packet(m) \in Streams /\ Ended(Packet(m)) = <<m>>
<1> DEFINE p1 == Piece(m, 1)
           p2 == Piece(m, 2)
           p3 == Piece(m, 3)
           b3 == Basic(3, m.csid)
           none == <<>>
           one == <<m>>
<1>a. m.lenght \in 1 .. 3
  BY MessageFacts
<1>0. m.lenght \in 1 .. 3 /\ 1 \in 1 .. 3 /\ 2 \in 1 .. 3 /\ 3 \in 1 .. 3
  BY <1>a
<1>1. p1 \in Units /\ p2 \in Units /\ p3 \in Units /\ b3 \in Units /\ m.lenght \in 1 .. 3
  BY <1>0, UnitFacts
<1>2. /\ Ends(p1) <=> m.lenght = 1
      /\ Ends(p2) <=> m.lenght = 2
      /\ Ends(p3) <=> m.lenght = 3
      /\ p1.of = m /\ p2.of = m /\ p3.of = m /\ ~ Ends(b3)
  BY <1>1, EndsIs
<1>2a. one \in Seq(Messages) /\ none \in Seq(Messages) /\ none = <<>> /\ one = <<m>>
       /\ none \o none = none /\ none \o one = one
  OBVIOUS
<1> HIDE DEF p1, p2, p3, b3, none, one
<1>3. <<p1>> \in Streams /\ Ended(<<p1>>) = IF m.lenght = 1 THEN one ELSE none
  BY <1>1, <1>2, <1>2a, EndedOne
<1>4. <<p2>> \in Streams /\ Ended(<<p2>>) = IF m.lenght = 2 THEN one ELSE none
  BY <1>1, <1>2, <1>2a, EndedOne
<1>5. <<p3>> \in Streams /\ Ended(<<p3>>) = IF m.lenght = 3 THEN one ELSE none
  BY <1>1, <1>2, <1>2a, EndedOne
<1>6. <<b3>> \in Streams /\ Ended(<<b3>>) = none
  BY <1>1, <1>2, <1>2a, EndedOne
<1>7. <<p1, p2>> \in Streams /\ (m.lenght = 2 => Ended(<<p1, p2>>) = one)
      /\ (m.lenght = 3 => Ended(<<p1, p2>>) = none)
  <2>1. <<p1>> \o <<p2>> = <<p1, p2>> /\ <<p1, p2>> \in Streams
    BY <1>1, FewUnits
  <2>2. Ended(<<p1>> \o <<p2>>) = Ended(<<p1>>) \o Ended(<<p2>>)
    BY <1>3, <1>4, EndedJoins
  <2>3. m.lenght = 2 => Ended(<<p1>>) = none /\ Ended(<<p2>>) = one
    BY <1>3, <1>4
  <2>4. m.lenght = 3 => Ended(<<p1>>) = none /\ Ended(<<p2>>) = none
    BY <1>3, <1>4
  <2>5. QED
    BY <1>2a, <2>1, <2>2, <2>3, <2>4, Zenon
<1>8. <<b3, p3>> \in Streams /\ (m.lenght = 3 => Ended(<<b3, p3>>) = one)
  <2>1. <<b3>> \o <<p3>> = <<b3, p3>> /\ <<b3, p3>> \in Streams
    BY <1>1, FewUnits
  <2>2. Ended(<<b3>> \o <<p3>>) = Ended(<<b3>>) \o Ended(<<p3>>)
    BY <1>5, <1>6, EndedJoins
  <2>3. QED
    BY <1>2a, <1>5, <1>6, <2>1, <2>2
<1>9. <<p1, p2, b3, p3>> \in Streams /\ (m.lenght = 3 => Ended(<<p1, p2, b3, p3>>) = one)
  <2>1. <<p1, p2>> \o <<b3, p3>> = <<p1, p2, b3, p3>>
    BY <1>1, JoinFour
  <2>2. Ended(<<p1, p2>> \o <<b3, p3>>) = Ended(<<p1, p2>>) \o Ended(<<b3, p3>>)
    BY <1>7, <1>8, EndedJoins
  <2>3. <<p1, p2>> \o <<b3, p3>> \in Streams
    BY <1>7, <1>8, StreamJoins
  <2>4. QED
    BY <1>2a, <1>7, <1>8, <2>1, <2>2, <2>3
<1>10. Body(m) \in Streams /\ Ended(Body(m)) = one
  <2>1. CASE m.lenght = 1
    <3>1. Body(m) = <<p1>>
      BY <2>1 DEF Body, p1
    <3>2. QED
      BY <1>3, <2>1, <3>1
  <2>2. CASE m.lenght = 2
    <3>1. Body(m) = <<p1, p2>>
      BY <2>2 DEF Body, p1, p2
    <3>2. QED
      BY <1>7, <2>2, <3>1
  <2>3. CASE m.lenght = 3
    <3>1. Body(m) = <<p1, p2, b3, p3>>
      BY <2>3 DEF Body, p1, p2, p3, b3
    <3>2. QED
      BY <1>9, <2>3, <3>1
  <2>4. QED
    BY <1>1, <2>1, <2>2, <2>3
<1>11. ASSUME NEW r, NEW w, Partial(r, m, w) PROVE w \in Streams /\ Ended(w) = one
  <2>1. \/ w = Body(m)
        \/ m.lenght = 3 /\ w = <<b3, p3>>
        \/ m.lenght = 3 /\ w = <<p3>>
    BY <1>11, Zenon DEF Partial, b3, p3
  <2>2. QED
    BY <1>5, <1>8, <1>10, <2>1
<1>12. Packet(m) \in Streams /\ Ended(Packet(m)) = one
  <2>1. CreateChunk(m, 2) = Lead(m) \o Body(m) /\ Lead(m) \in Streams
    BY PacketIs DEF Streams
  <2>2. Ended(Lead(m)) = none
    <3> DEFINE a == Basic(0, m.csid)
               h == Header(m)
    <3>1. a \in Units /\ h \in Units /\ ~ Ends(a) /\ ~ Ends(h)
      BY UnitFacts, EndsIs
    <3> HIDE DEF a, h
    <3>2. <<a>> \in Streams /\ <<h>> \in Streams /\ Ended(<<a>>) = none /\ Ended(<<h>>) = none
      BY <1>2a, <3>1, EndedOne
    <3>3. <<a>> \o <<h>> = <<a, h>>
      BY <3>1, FewUnits
    <3>4. Ended(<<a>> \o <<h>>) = Ended(<<a>>) \o Ended(<<h>>)
      BY <3>2, EndedJoins
    <3>5. QED
      BY <1>2a, <3>2, <3>3, <3>4 DEF Lead, a, h
  <2>3. Ended(Lead(m) \o Body(m)) = Ended(Lead(m)) \o Ended(Body(m))
    BY <1>10, <2>1, EndedJoins
  <2>4. Lead(m) \o Body(m) \in Streams
    BY <1>10, <2>1, StreamJoins
  <2>5. QED
    BY <1>2a, <1>10, <2>1, <2>2, <2>3, <2>4 DEF Packet, ChunkSize
<1>13. QED
  BY <1>2a, <1>11, <1>12

\* Of the packets of messages there are those messages.
LEMMA EndedChunks ==
    ASSUME NEW P \in Seq(Messages)
    PROVE  Chunks(P) \in Streams /\ Ended(Chunks(P)) = P
<1> DEFINE n == Len(P)
           f(k) == SubSeq(P, 1, k)
           T == {k \in 0 .. n : Ended(Chunks(f(k))) = f(k)}
<1>1. n \in Nat
  OBVIOUS
<1>2. f(0) = <<>> /\ f(n) = P
  BY SubSeqProperties, Z3
<1>3. \A k \in 1 .. n : /\ f(k - 1) \in Seq(Messages) /\ P[k] \in Messages
                        /\ f(k) = Append(f(k - 1), P[k])
  <2> TAKE k \in 1 .. n
  <2>1. f(k - 1) \in Seq(Messages) /\ P[k] \in Messages
    OBVIOUS
  <2>2. f(k) = Append(f(k - 1), P[k])
    OBVIOUS
  <2>3. QED
    BY <2>1, <2>2
<1> HIDE DEF n, f
<1>4. 0 \in T
  <2>1. Ended(Chunks(<<>>)) = <<>>
    BY ChunksNone, EndedNone, Zenon
  <2>2. QED
    BY <1>1, <1>2, <2>1
<1>5. ASSUME NEW k \in 1 .. n, k - 1 \in T PROVE k \in T
  <2> DEFINE a == f(k - 1)
             m == P[k]
  <2>1. a \in Seq(Messages) /\ m \in Messages /\ f(k) = Append(a, m) /\ Ended(Chunks(a)) = a
    BY <1>3, <1>5
  <2> HIDE DEF a, m
  <2>2. /\ Chunks(a) \in Streams /\ Packet(m) \in Streams
        /\ Chunks(Append(a, m)) = Chunks(a) \o Packet(m)
    BY <2>1, ChunksAre, ChunksMore
  <2>3. Ended(Chunks(a) \o Packet(m)) = Ended(Chunks(a)) \o Ended(Packet(m))
    BY <2>2, EndedJoins
  <2>4. Ended(Packet(m)) = <<m>>
    BY <2>1, EndedPacket
  <2>5. a \o <<m>> = Append(a, m)
    BY <2>1, AppendIsConcat
  <2>6. Ended(Chunks(f(k))) = f(k)
    BY <2>1, <2>2, <2>3, <2>4, <2>5, Zenon
  <2>7. QED
    BY <1>1, <2>6
<1> HIDE DEF T
<1>6. \A k \in 0 .. n : k \in T
  BY <1>1, <1>4, <1>5, Steps
<1>7. Chunks(P) \in Streams
  BY ChunksAre DEF Streams
<1>8. n \in T
  BY <1>1, <1>6
<1>9. QED
  BY <1>2, <1>7, <1>8 DEF T

\* A reader that carries messages has those, its own part of the first with them.
LEMMA EndedCarries ==
    ASSUME NEW r, NEW rest, NEW P \in Seq(Messages), Carries(r, rest, P)
    PROVE  r.buf \o rest \in Streams /\ Ended(r.buf \o rest) = P
<1>1. CASE Joined(r.buf, rest, Chunks(P))
  BY <1>1, EndedChunks DEF Joined
<1>2. CASE P # <<>> /\ Within(r, rest, P)
  <2> DEFINE m == Head(P)
             t == Tail(P)
  <2>1. PICK w \in Streams : Partial(r, m, w) /\ Joined(r.buf, rest, w \o Chunks(t))
    BY <1>2, Zenon DEF Within
  <2>2. m \in Messages /\ t \in Seq(Messages)
    BY <1>2, PacketsHead
  <2>2a. P = <<m>> \o t
    BY <1>2
  <2> HIDE DEF m, t
  <2>3. Ended(w) = <<m>> /\ Chunks(t) \in Streams /\ Ended(Chunks(t)) = t
    BY <2>1, <2>2, EndedPacket, EndedChunks
  <2>4. Ended(w \o Chunks(t)) = Ended(w) \o Ended(Chunks(t)) /\ w \o Chunks(t) \in Streams
    BY <2>3, EndedJoins, StreamJoins
  <2>5. QED
    BY <2>1, <2>2a, <2>3, <2>4, Zenon DEF Joined
<1>3. QED
  BY <1>1, <1>2, Zenon DEF Carries
============================================================================
