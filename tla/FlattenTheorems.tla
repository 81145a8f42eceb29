-------------------------- MODULE FlattenTheorems --------------------------
(***************************************************************************)
(* What FlattenSeq, the concatenation of a sequence of sequences, computes *)
(* for every argument.  FlattenSeq is defined by recursion, so these facts *)
(* need induction; it is done with sets of numbers (InductionSet), which   *)
(* the provers can instantiate.                                            *)
(***************************************************************************)
EXTENDS Integers, Sequences, SequencesExt, TLAPS, SequenceTheorems, WellFoundedInduction

\* A concatenation of three sequences, read from the left or from the right.
Regrouped(a, b, c) == (a \o b) \o c = a \o (b \o c)

LEMMA Regroup ==
    ASSUME NEW S, NEW a \in Seq(S), NEW b \in Seq(S), NEW c \in Seq(S)
    PROVE  Regrouped(a, b, c)
  BY ConcatAssociative DEF Regrouped

\* A set that holds 0 and with a number its successor holds every number.
LEMMA InductionSet ==
    ASSUME NEW N, 0 \in N, \A n \in Nat : n \in N => n + 1 \in N
    PROVE  \A n \in Nat : n \in N
  <1> DEFINE rest == {n \in Nat : n \notin N}
  <1> SUFFICES ASSUME rest # {} PROVE FALSE
      OBVIOUS
  <1>1. rest \subseteq Nat
      OBVIOUS
  <1> HIDE DEF rest
  <1>2. PICK x \in rest : \A y \in rest : ~(<<y, x>> \in OpToRel(<, Nat))
      BY <1>1, NatLessThanWellFounded, WFMin
  <1>3. \A y \in rest : ~(y < x)
      BY <1>1, <1>2 DEF OpToRel
  <1>4. x \in Nat /\ x \notin N
      BY DEF rest
  <1>5. x # 0
      BY <1>4
  <1>6. x - 1 \in Nat /\ x - 1 < x
      BY <1>4, <1>5
  <1>7. x - 1 \in N
      BY <1>3, <1>6 DEF rest
  <1> QED
      BY <1>4, <1>6, <1>7

\* The sequence of the partial concatenations of ss.
IsRun(run, ss, S) ==
    /\ run \in [0..Len(ss) -> Seq(S)]
    /\ run[0] = <<>>
    /\ \A i \in 1..Len(ss) : run[i] = run[i - 1] \o ss[i]

\* Every sequence of sequences has its partial concatenations.
LEMMA RunExists ==
    ASSUME NEW S, NEW ss \in Seq(Seq(S))
    PROVE  \E run : IsRun(run, ss, S)
  <1> DEFINE Upto(r, k) == /\ r \in [0..k -> Seq(S)]
                           /\ r[0] = <<>>
                           /\ \A i \in 1..k : r[i] = r[i - 1] \o ss[i]
             N == {k \in Nat : k <= Len(ss) => \E r : Upto(r, k)}
  <1> HIDE DEF Upto
  <1>0. Len(ss) \in Nat
      BY LenProperties
  <1>1. 0 \in N
      <2>1. <<>> \in Seq(S)
          BY EmptySeq
      <2>2. Upto([i \in 0..0 |-> <<>>], 0)
          BY <2>1 DEF Upto
      <2> QED
          BY <2>2
  <1>2. ASSUME NEW k \in Nat, k \in N PROVE k + 1 \in N
      <2>0. k + 1 \in Nat
          OBVIOUS
      <2> SUFFICES ASSUME k + 1 <= Len(ss) PROVE \E r : Upto(r, k + 1)
          BY <2>0
      <2>1. PICK r : Upto(r, k)
          <3>1. k <= Len(ss)
              BY <1>0
          <3> QED
              BY <1>2, <3>1
      <2> DEFINE t == [i \in 0..k + 1 |-> IF i = k + 1 THEN r[k] \o ss[k + 1] ELSE r[i]]
      <2>2. ss[k + 1] \in Seq(S)
          BY <1>0, ElementOfSeq
      <2>3. r[k] \in Seq(S) /\ r[k] \o ss[k + 1] \in Seq(S)
          BY <2>1, <2>2, ConcatProperties DEF Upto
      <2>4. t \in [0..k + 1 -> Seq(S)]
          BY <2>1, <2>3 DEF Upto
      <2>5. t[0] = <<>>
          BY <2>1 DEF Upto
      <2>6. ASSUME NEW i \in 1..k + 1 PROVE t[i] = t[i - 1] \o ss[i]
          <3>1. CASE i = k + 1
              <4>0. k + 1 \in 0..k + 1
                  OBVIOUS
              <4>1. t[k + 1] = r[k] \o ss[k + 1]
                  BY <4>0
              <4>2. k \in 0..k + 1 /\ k # k + 1 /\ i - 1 = k
                  BY <3>1
              <4>3. t[k] = r[k]
                  BY <4>2
              <4> HIDE DEF t
              <4> QED
                  BY <3>1, <4>1, <4>2, <4>3
          <3>2. CASE i # k + 1
              <4>1. i \in 1..k /\ i \in 0..k + 1 /\ i - 1 \in 0..k + 1 /\ i - 1 # k + 1
                  BY <3>2
              <4>2. t[i] = r[i] /\ t[i - 1] = r[i - 1]
                  BY <3>2, <4>1
              <4> HIDE DEF t
              <4> QED
                  BY <2>1, <4>1, <4>2 DEF Upto
          <3> QED
              BY <3>1, <3>2
      <2> HIDE DEF t
      <2>7. Upto(t, k + 1)
          BY <2>4, <2>5, <2>6 DEF Upto
      <2> QED
          BY <2>7
  <1>3. Len(ss) \in N
      <2> HIDE DEF N
      <2> QED
          BY <1>0, <1>1, <1>2, InductionSet
  <1>4. \E r : Upto(r, Len(ss))
      BY <1>0, <1>3
  <1> QED
      BY <1>4 DEF IsRun, Upto

\* The first of them is the first sequence.
LEMMA RunBegins ==
    ASSUME NEW S, NEW ss \in Seq(Seq(S)), Len(ss) # 0, NEW run, IsRun(run, ss, S)
    PROVE  run[1] = ss[1]
  <1>1. 1 \in 1..Len(ss)
      BY LenProperties
  <1>2. ss[1] \in Seq(S)
      BY <1>1, ElementOfSeq
  <1>3. run[1] = run[1 - 1] \o ss[1] /\ run[0] = <<>>
      BY <1>1 DEF IsRun
  <1>4. 1 - 1 = 0
      OBVIOUS
  <1>5. run[1] = <<>> \o ss[1]
      BY <1>3, <1>4, Zenon
  <1> QED
      BY <1>2, <1>5, ConcatEmptySeq

\* FlattenSeq is the last of the partial concatenations.
LEMMA FlattenIsRun ==
    ASSUME NEW S, NEW ss \in Seq(Seq(S)), NEW run, IsRun(run, ss, S)
    PROVE  FlattenSeq(ss) = run[Len(ss)]
  <1>0. Len(ss) \in Nat
      BY LenProperties
  <1>1. CASE Len(ss) = 0
      BY <1>1, EmptySeq DEF FlattenSeq, IsRun
  <1>2. CASE Len(ss) # 0
      <2> DEFINE n == Len(ss)
                 F == CHOOSE f : f = [i \in 1..n |-> IF i = 1 THEN ss[i] ELSE f[i - 1] \o ss[i]]
                 g == [i \in 1..n |-> run[i]]
                 N == {k \in Nat : k + 1 <= n => F[k + 1] = run[k + 1]}
      <2>1. FlattenSeq(ss) = F[n]
          BY <1>2 DEF FlattenSeq
      <2>2. g = [i \in 1..n |-> IF i = 1 THEN ss[i] ELSE g[i - 1] \o ss[i]]
          <3>1. \A i \in 1..n : ss[i] \in Seq(S)
              BY ElementOfSeq
          <3>2. run[1] = ss[1]
              BY <1>0, <1>2, RunBegins
          <3>3. \A i \in 1..n : i # 1 => g[i - 1] = run[i - 1]
              BY <1>0
          <3>4. \A i \in 1..n : g[i] = IF i = 1 THEN ss[i] ELSE g[i - 1] \o ss[i]
              BY <3>2, <3>3 DEF IsRun
          <3> QED
              BY <3>4
      <2> HIDE DEF g
      <2>3. F = [i \in 1..n |-> IF i = 1 THEN ss[i] ELSE F[i - 1] \o ss[i]]
          BY <2>2
      <2> HIDE DEF F
      <2>4. 0 \in N
          <3>1. 1 \in 1..n /\ ss[1] \in Seq(S)
              BY <1>0, <1>2, ElementOfSeq
          <3>2. F[1] = ss[1]
              BY <2>3, <3>1
          <3>3. run[1] = ss[1]
              BY <1>0, <1>2, RunBegins
          <3> QED
              BY <3>2, <3>3
      <2>5. ASSUME NEW k \in Nat, k \in N PROVE k + 1 \in N
          <3> SUFFICES ASSUME k + 2 <= n PROVE F[k + 2] = run[k + 2]
              BY <1>0
          <3>1. k + 2 \in 1..n /\ k + 2 # 1 /\ (k + 2) - 1 = k + 1 /\ k + 1 <= n
              BY <1>0
          <3>2. F[k + 2] = F[k + 1] \o ss[k + 2]
              BY <2>3, <3>1
          <3>3. run[k + 2] = run[k + 1] \o ss[k + 2]
              BY <3>1 DEF IsRun
          <3> QED
              BY <2>5, <3>1, <3>2, <3>3
      <2> HIDE DEF N
      <2>6. n - 1 \in Nat
          BY <1>0, <1>2
      <2>7. n - 1 \in N
          BY <2>4, <2>5, <2>6, InductionSet
      <2>8. F[n] = run[n]
          BY <1>0, <2>6, <2>7 DEF N
      <2> QED
          BY <2>1, <2>8
  <1> QED
      BY <1>1, <1>2

\* What is concatenated of sequences over S is a sequence over S.
LEMMA FlattenType ==
    ASSUME NEW S, NEW ss \in Seq(Seq(S))
    PROVE  FlattenSeq(ss) \in Seq(S)
  <1>1. PICK run : IsRun(run, ss, S)
      BY RunExists
  <1>2. Len(ss) \in Nat /\ Len(ss) \in 0..Len(ss)
      BY LenProperties
  <1>3. run[Len(ss)] \in Seq(S)
      BY <1>1, <1>2 DEF IsRun
  <1> QED
      BY <1>1, <1>3, FlattenIsRun

\* Nothing is concatenated of nothing.
LEMMA FlattenEmpty == FlattenSeq(<<>>) = <<>>
  <1>1. Len(<<>>) = 0
      BY EmptySeq
  <1> QED
      BY <1>1 DEF FlattenSeq

\* A sequence appended to the sequences comes last in their concatenation.
LEMMA FlattenAppend ==
    ASSUME NEW S, NEW ss \in Seq(Seq(S)), NEW s \in Seq(S)
    PROVE  FlattenSeq(Append(ss, s)) = FlattenSeq(ss) \o s
  <1> DEFINE n == Len(ss)
             tt == Append(ss, s)
  <1>1. PICK run : IsRun(run, ss, S)
      BY RunExists
  <1>2. n \in Nat
      BY LenProperties
  <1>3. /\ tt \in Seq(Seq(S)) /\ Len(tt) = n + 1 /\ tt[n + 1] = s
        /\ \A i \in 1..n : tt[i] = ss[i]
      BY AppendProperties
  <1> DEFINE next == [i \in 0..n + 1 |-> IF i = n + 1 THEN run[n] \o s ELSE run[i]]
  <1> HIDE DEF n, tt
  <1>4. /\ run \in [0..n -> Seq(S)] /\ run[0] = <<>>
        /\ \A i \in 1..n : run[i] = run[i - 1] \o ss[i]
      BY <1>1 DEF IsRun, n
  <1>5. run[n] \in Seq(S) /\ run[n] \o s \in Seq(S)
      BY <1>2, <1>4, ConcatProperties
  <1>6. next \in [0..n + 1 -> Seq(S)]
      BY <1>2, <1>4, <1>5
  <1>7. /\ next[0] = <<>> /\ next[n + 1] = run[n] \o s
        /\ \A i \in 0..n : next[i] = run[i]
      BY <1>2, <1>4
  <1> HIDE DEF next
  <1>8. ASSUME NEW i \in 1..n + 1 PROVE next[i] = next[i - 1] \o tt[i]
      <2>1. CASE i = n + 1
          <3>1. i - 1 = n /\ n \in 0..n
              BY <1>2, <2>1
          <3>2. next[i - 1] = run[n]
              BY <1>7, <3>1
          <3> QED
              BY <1>3, <1>7, <2>1, <3>2, Zenon
      <2>2. CASE i \in 1..n
          <3>1. i \in 0..n /\ i - 1 \in 0..n
              BY <1>2, <2>2
          <3>2. next[i] = run[i] /\ next[i - 1] = run[i - 1] /\ tt[i] = ss[i]
              BY <1>3, <1>7, <2>2, <3>1
          <3> QED
              BY <1>4, <2>2, <3>2, Zenon
      <2>3. i = n + 1 \/ i \in 1..n
          BY <1>2
      <2> QED
          BY <2>1, <2>2, <2>3
  <1>9. IsRun(next, tt, S)
      BY <1>3, <1>6, <1>7, <1>8 DEF IsRun
  <1>10. FlattenSeq(tt) = run[n] \o s
      BY <1>3, <1>7, <1>9, FlattenIsRun
  <1>11. FlattenSeq(ss) = run[n]
      BY <1>1, FlattenIsRun DEF n
  <1> QED
      BY <1>10, <1>11 DEF tt

\* The first sequence comes first in the concatenation.
LEMMA FlattenHeadTail ==
    ASSUME NEW S, NEW ss \in Seq(Seq(S)), ss # <<>>
    PROVE  FlattenSeq(ss) = Head(ss) \o FlattenSeq(Tail(ss))
  <1> DEFINE n == Len(ss)
             h == Head(ss)
             tt == Tail(ss)
  <1>1. /\ n \in Nat /\ n > 0 /\ h = ss[1] /\ h \in Seq(S)
        /\ tt \in Seq(Seq(S)) /\ Len(tt) = n - 1 /\ \A i \in 1..n - 1 : tt[i] = ss[i + 1]
      BY EmptySeq, LenProperties, HeadTailProperties
  <1>2. PICK run : IsRun(run, tt, S)
      BY <1>1, RunExists
  <1> DEFINE next == [i \in 0..n |-> IF i = 0 THEN <<>> ELSE h \o run[i - 1]]
  <1>3. \A i \in 1..n : ss[i] \in Seq(S)
      BY ElementOfSeq
  <1> HIDE DEF n, h, tt
  <1>4. /\ \A i \in 0..n - 1 : run[i] \in Seq(S)
        /\ run[0] = <<>> /\ \A i \in 1..n - 1 : run[i] = run[i - 1] \o tt[i]
      BY <1>1, <1>2 DEF IsRun
  <1>5. next[0] = <<>> /\ \A i \in 1..n : next[i] = h \o run[i - 1]
      <2>1. 0 \in 0..n /\ \A i \in 1..n : i \in 0..n /\ i # 0
          BY <1>1
      <2> QED
          BY <2>1, Zenon
  <1>6. next \in [0..n -> Seq(S)]
      <2>1. ASSUME NEW i \in 0..n PROVE (IF i = 0 THEN <<>> ELSE h \o run[i - 1]) \in Seq(S)
          <3>1. CASE i = 0
              BY <3>1, EmptySeq
          <3>2. CASE i # 0
              <4>1. i - 1 \in 0..n - 1
                  BY <1>1, <3>2
              <4>2. h \o run[i - 1] \in Seq(S)
                  BY <1>1, <1>4, <4>1, ConcatProperties
              <4> QED
                  BY <3>2, <4>2
          <3> QED
              BY <3>1, <3>2
      <2> QED
          BY <2>1
  <1> HIDE DEF next
  <1>7. ASSUME NEW i \in 1..n PROVE next[i] = next[i - 1] \o ss[i]
      <2>1. CASE i = 1
          <3>1. 1 - 1 = 0 /\ 1 \in 1..n
              BY <1>1
          <3>2. next[1] = h \o <<>> /\ next[1 - 1] = <<>>
              BY <1>4, <1>5, <3>1, Zenon
          <3>3. h \o <<>> = <<>> \o h
              BY <1>1, ConcatEmptySeq
          <3> QED
              BY <1>1, <2>1, <3>2, <3>3, Zenon
      <2>2. CASE i # 1
          <3>1. /\ i - 1 \in 1..n - 1 /\ i - 1 \in 1..n /\ i - 1 \in 0..n - 1
                /\ (i - 1) - 1 \in 0..n - 1 /\ (i - 1) + 1 = i
              BY <1>1, <2>2
          <3>2. next[i] = h \o (run[(i - 1) - 1] \o tt[i - 1])
              BY <1>4, <1>5, <3>1
          <3>3. tt[i - 1] = ss[i] /\ ss[i] \in Seq(S) /\ run[(i - 1) - 1] \in Seq(S)
              BY <1>1, <1>3, <1>4, <3>1
          <3>4. h \o (run[(i - 1) - 1] \o ss[i]) = (h \o run[(i - 1) - 1]) \o ss[i]
              <4> DEFINE a == run[(i - 1) - 1]
                         b == ss[i]
              <4>1. a \in Seq(S) /\ b \in Seq(S) /\ h \in Seq(S)
                  BY <1>1, <3>3
              <4> HIDE DEF a, b
              <4>2. h \o (a \o b) = (h \o a) \o b
                  <5>1. Regrouped(h, a, b)
                      BY <4>1, Regroup
                  <5> QED
                      BY <5>1, Zenon DEF Regrouped
              <4> QED
                  BY <4>2 DEF a, b
          <3> QED
              BY <1>5, <3>1, <3>2, <3>3, <3>4, Zenon
      <2> QED
          BY <2>1, <2>2
  <1>8. IsRun(next, ss, S)
      BY <1>5, <1>6, <1>7 DEF IsRun, n
  <1>9. n \in 1..n
      BY <1>1
  <1>10. FlattenSeq(ss) = h \o run[n - 1]
      BY <1>5, <1>8, <1>9, FlattenIsRun DEF n
  <1>11. FlattenSeq(tt) = run[n - 1]
      BY <1>1, <1>2, FlattenIsRun
  <1> QED
      BY <1>10, <1>11 DEF h, tt

\* A concatenation begins with its first part.
LEMMA ConcatBegins ==
    ASSUME NEW S, NEW a \in Seq(S), NEW b \in Seq(S)
    PROVE  /\ Len(a) \in Nat /\ Len(b) \in Nat /\ Len(a \o b) = Len(a) + Len(b)
           /\ \A k \in 1..Len(a) : (a \o b)[k] = a[k]
  <1>1. Len(a) \in Nat /\ Len(b) \in Nat
      BY LenProperties
  <1>2. \A k \in 1..Len(a) : k \in 1..Len(a) + Len(b) /\ k <= Len(a)
      BY <1>1
  <1> QED
      BY <1>1, <1>2, ConcatProperties

\* A partial concatenation is a prefix of the later ones.
LEMMA RunPrefix ==
    ASSUME NEW S, NEW ss \in Seq(Seq(S)), NEW run, IsRun(run, ss, S),
           NEW i \in 0..Len(ss), NEW j \in i..Len(ss)
    PROVE  /\ Len(run[i]) <= Len(run[j])
           /\ \A k \in 1..Len(run[i]) : run[j][k] = run[i][k]
  <1> DEFINE Prefix(d) == /\ Len(run[i]) <= Len(run[i + d])
                          /\ \A k \in 1..Len(run[i]) : run[i + d][k] = run[i][k]
             N == {d \in Nat : i + d <= Len(ss) => Prefix(d)}
  <1>0. Len(ss) \in Nat /\ i \in Nat
      BY LenProperties
  <1>1. \A m \in 0..Len(ss) : run[m] \in Seq(S) /\ Len(run[m]) \in Nat
      BY LenProperties DEF IsRun
  <1>2. 0 \in N
      <2>1. i + 0 = i
          BY <1>0
      <2>2. Prefix(0)
          BY <1>1, <2>1
      <2> QED
          BY <2>2
  <1>3. ASSUME NEW d \in Nat, d \in N PROVE d + 1 \in N
      <2> SUFFICES ASSUME i + (d + 1) <= Len(ss) PROVE Prefix(d + 1)
          OBVIOUS
      <2>1. /\ i + d <= Len(ss) /\ i + d \in 0..Len(ss) /\ i + (d + 1) \in 1..Len(ss)
            /\ (i + (d + 1)) - 1 = i + d
          BY <1>0
      <2>2. Prefix(d)
          BY <1>3, <2>1
      <2>3. run[i + (d + 1)] = run[i + d] \o ss[i + (d + 1)]
          BY <2>1 DEF IsRun
      <2>4. /\ run[i + d] \in Seq(S) /\ Len(run[i + d]) \in Nat
            /\ ss[i + (d + 1)] \in Seq(S) /\ Len(ss[i + (d + 1)]) \in Nat
          BY <1>1, <2>1, ElementOfSeq, LenProperties
      <2>5. /\ Len(run[i + (d + 1)]) = Len(run[i + d]) + Len(ss[i + (d + 1)])
            /\ \A k \in 1..Len(run[i + d]) : run[i + (d + 1)][k] = run[i + d][k]
          <3> DEFINE a == run[i + d]
                     b == ss[i + (d + 1)]
          <3>1. a \in Seq(S) /\ b \in Seq(S) /\ run[i + (d + 1)] = a \o b
              BY <2>3, <2>4
          <3> HIDE DEF a, b
          <3>2. /\ Len(a \o b) = Len(a) + Len(b)
                /\ \A k \in 1..Len(a) : (a \o b)[k] = a[k]
              BY <3>1, ConcatBegins
          <3> QED
              BY <3>1, <3>2 DEF a, b
      <2>6. Len(run[i]) <= Len(run[i + (d + 1)])
          <3> DEFINE x == Len(run[i])
                     y == Len(run[i + d])
                     z == Len(ss[i + (d + 1)])
                     w == Len(run[i + (d + 1)])
          <3>1. x \in Nat /\ y \in Nat /\ z \in Nat /\ x <= y /\ w = y + z
              BY <1>1, <2>2, <2>4, <2>5
          <3> HIDE DEF x, y, z, w
          <3>2. x <= w
              BY <3>1
          <3> QED
              BY <3>2 DEF x, w
      <2>7. ASSUME NEW k \in 1..Len(run[i]) PROVE run[i + (d + 1)][k] = run[i][k]
          <3>1. k \in 1..Len(run[i + d])
              BY <1>1, <2>2, <2>4
          <3> QED
              BY <2>2, <2>5, <3>1, Zenon
      <2> QED
          BY <2>6, <2>7
  <1>4. j - i \in Nat /\ i + (j - i) = j /\ j <= Len(ss)
      BY <1>0
  <1>5. j - i \in N
      <2> HIDE DEF N
      <2> QED
          BY <1>2, <1>3, <1>4, InductionSet
  <1>6. Prefix(j - i)
      BY <1>4, <1>5
  <1> QED
      BY <1>4, <1>6

\* Every element of every sequence is an element of the concatenation ...
LEMMA FlattenCovers ==
    ASSUME NEW S, NEW ss \in Seq(Seq(S)), NEW k \in 1..Len(ss), NEW n \in 1..Len(ss[k])
    PROVE  \E j \in 1..Len(FlattenSeq(ss)) : FlattenSeq(ss)[j] = ss[k][n]
  <1> DEFINE m == Len(ss)
  <1>1. PICK run : IsRun(run, ss, S)
      BY RunExists
  <1>2. FlattenSeq(ss) = run[m]
      BY <1>1, FlattenIsRun
  <1>3. m \in Nat /\ k \in Nat /\ k \in 0..m /\ k - 1 \in 0..m /\ m \in k..m /\ m \in 0..m
      BY LenProperties
  <1> DEFINE a == run[k - 1]
             b == ss[k]
  <1>4. a \in Seq(S) /\ b \in Seq(S) /\ run[k] = a \o b /\ run[m] \in Seq(S)
      BY <1>1, <1>3, ElementOfSeq DEF IsRun
  <1>5. Len(run[k]) <= Len(run[m]) /\ \A j \in 1..Len(run[k]) : run[m][j] = run[k][j]
      BY <1>1, <1>3, RunPrefix
  <1> HIDE DEF a, b, m
  <1>6. /\ Len(a) \in Nat /\ Len(b) \in Nat /\ Len(a \o b) = Len(a) + Len(b)
        /\ \A j \in 1..Len(a) + Len(b) : (a \o b)[j] = IF j <= Len(a) THEN a[j] ELSE b[j - Len(a)]
      BY <1>4, ConcatProperties, LenProperties
  <1> DEFINE j == Len(a) + n
  <1>7. n \in 1..Len(b)
      BY DEF b
  <1>8. j \in 1..Len(a) + Len(b) /\ ~(j <= Len(a)) /\ j - Len(a) = n
      BY <1>6, <1>7
  <1>9. (a \o b)[j] = b[n]
      BY <1>6, <1>8
  <1>10. j \in 1..Len(run[k]) /\ j \in 1..Len(run[m])
      <2>1. Len(run[m]) \in Nat /\ Len(run[k]) = Len(a) + Len(b)
          BY <1>4, <1>6, LenProperties
      <2> QED
          BY <1>5, <1>6, <1>8, <2>1
  <1> HIDE DEF j
  <1>11. run[m][j] = b[n]
      BY <1>4, <1>5, <1>9, <1>10, Zenon
  <1> QED
      BY <1>2, <1>10, <1>11 DEF b

\* ... and the concatenation has no others.
LEMMA FlattenFrom ==
    ASSUME NEW S, NEW ss \in Seq(Seq(S)), NEW j \in 1..Len(FlattenSeq(ss))
    PROVE  \E k \in 1..Len(ss) : \E n \in 1..Len(ss[k]) : FlattenSeq(ss)[j] = ss[k][n]
  <1> DEFINE m == Len(ss)
             Found(x) == \E k \in 1..m : \E n \in 1..Len(ss[k]) : x = ss[k][n]
  <1>1. PICK run : IsRun(run, ss, S)
      BY RunExists
  <1> DEFINE P == {i \in Nat : i <= m => \A h \in 1..Len(run[i]) : Found(run[i][h])}
  <1>2. FlattenSeq(ss) = run[m]
      BY <1>1, FlattenIsRun
  <1>3. m \in Nat
      BY LenProperties
  <1> HIDE DEF Found
  <1>4. 0 \in P
      <2>1. Len(run[0]) = 0
          BY <1>1, EmptySeq DEF IsRun
      <2> QED
          BY <2>1
  <1>5. ASSUME NEW i \in Nat, i \in P PROVE i + 1 \in P
      <2> SUFFICES ASSUME i + 1 <= m, NEW h \in 1..Len(run[i + 1])
                   PROVE  Found(run[i + 1][h])
          OBVIOUS
      <2>1. i <= m /\ i + 1 \in 1..m /\ (i + 1) - 1 = i /\ i \in 0..m
          BY <1>3
      <2> DEFINE a == run[i]
                 b == ss[i + 1]
      <2>2. a \in Seq(S) /\ b \in Seq(S) /\ run[i + 1] = a \o b
          BY <1>1, <2>1, ElementOfSeq DEF IsRun
      <2>3. \A g \in 1..Len(a) : Found(a[g])
          BY <1>5, <2>1
      <2>4. \A g \in 1..Len(b) : Found(b[g])
          BY <2>1 DEF Found
      <2> HIDE DEF a, b
      <2>5. /\ Len(a) \in Nat /\ Len(b) \in Nat /\ Len(a \o b) = Len(a) + Len(b)
            /\ \A g \in 1..Len(a) + Len(b) : (a \o b)[g] = IF g <= Len(a) THEN a[g] ELSE b[g - Len(a)]
          BY <2>2, ConcatProperties, LenProperties
      <2>6. h \in 1..Len(a) + Len(b)
          BY <2>2, <2>5
      <2>7. CASE h <= Len(a)
          <3>1. h \in 1..Len(a) /\ (a \o b)[h] = a[h]
              BY <2>5, <2>6, <2>7
          <3> QED
              BY <2>2, <2>3, <3>1, Zenon
      <2>8. CASE ~(h <= Len(a))
          <3>1. h - Len(a) \in 1..Len(b) /\ (a \o b)[h] = b[h - Len(a)]
              BY <2>5, <2>6, <2>8
          <3> QED
              BY <2>2, <2>4, <3>1, Zenon
      <2> QED
          BY <2>7, <2>8
  <1>6. m \in P
      <2> HIDE DEF P
      <2> QED
          BY <1>3, <1>4, <1>5, InductionSet
  <1>7. \A h \in 1..Len(run[m]) : Found(run[m][h])
      BY <1>3, <1>6
  <1>8. Found(FlattenSeq(ss)[j])
      BY <1>2, <1>7
  <1> QED
      BY <1>8 DEF Found

\* The concatenation of two sequences of sequences.
LEMMA FlattenConcat ==
    ASSUME NEW S, NEW ss \in Seq(Seq(S)), NEW tt \in Seq(Seq(S))
    PROVE  FlattenSeq(ss \o tt) = FlattenSeq(ss) \o FlattenSeq(tt)
  <1> DEFINE m == Len(tt)
             Upto(i) == SubSeq(tt, 1, i)
             P == {i \in Nat : i <= m => FlattenSeq(ss \o Upto(i)) = FlattenSeq(ss) \o FlattenSeq(Upto(i))}
  <1>1. m \in Nat
      BY LenProperties
  <1>2. \A i \in 1..m : tt[i] \in Seq(S)
      BY ElementOfSeq
  <1>3. 0 \in P
      <2>1. Upto(0) = <<>>
          BY SubSeqEmpty
      <2>2. ss \o <<>> = ss
          BY ConcatEmptySeq
      <2>3. FlattenSeq(ss) \in Seq(S)
          BY FlattenType
      <2>4. FlattenSeq(ss) \o <<>> = FlattenSeq(ss)
          BY <2>3, ConcatEmptySeq
      <2> HIDE DEF Upto
      <2>5. FlattenSeq(ss \o Upto(0)) = FlattenSeq(ss) \o FlattenSeq(Upto(0))
          BY <2>1, <2>2, <2>4, FlattenEmpty, Zenon
      <2> QED
          BY <2>5
  <1>4. ASSUME NEW i \in Nat, i \in P PROVE i + 1 \in P
      <2> SUFFICES ASSUME i + 1 <= m
                   PROVE  FlattenSeq(ss \o Upto(i + 1)) = FlattenSeq(ss) \o FlattenSeq(Upto(i + 1))
          OBVIOUS
      <2> DEFINE u == Upto(i)
                 e == tt[i + 1]
      <2>1. i <= m /\ i + 1 \in 1..m /\ \A k \in 1..i : k \in 1..m
          BY <1>1
      <2>2. u \in Seq(Seq(S)) /\ e \in Seq(S)
          <3>1. \A k \in 1..i : tt[k] \in Seq(S)
              BY <1>2, <2>1
          <3> QED
              BY <1>2, <2>1, <3>1, SubSeqProperties
      <2>3. Upto(i + 1) = Append(u, e)
          BY <1>1, <2>1
      <2>4. FlattenSeq(ss \o u) = FlattenSeq(ss) \o FlattenSeq(u)
          BY <1>4, <2>1
      <2> HIDE DEF u, e, Upto
      <2>5. ss \o Append(u, e) = Append(ss \o u, e) /\ ss \o u \in Seq(Seq(S))
          BY <2>2, ConcatProperties
      <2>6. FlattenSeq(Append(ss \o u, e)) = FlattenSeq(ss \o u) \o e
          BY <2>2, <2>5, FlattenAppend
      <2>7. FlattenSeq(Append(u, e)) = FlattenSeq(u) \o e
          BY <2>2, FlattenAppend
      <2> DEFINE f == FlattenSeq(ss)
                 g == FlattenSeq(u)
      <2>8. f \in Seq(S) /\ g \in Seq(S)
          BY <2>2, FlattenType
      <2> HIDE DEF f, g
      <2>9. (f \o g) \o e = f \o (g \o e)
          <3>1. Regrouped(f, g, e)
              BY <2>2, <2>8, Regroup
          <3> QED
              BY <3>1, Zenon DEF Regrouped
      <2> QED
          BY <2>3, <2>4, <2>5, <2>6, <2>7, <2>9, Zenon DEF f, g
  <1>5. m \in P
      <2> HIDE DEF P
      <2> QED
          BY <1>1, <1>3, <1>4, InductionSet
  <1>6. Upto(m) = tt
      BY SubSeqFull
  <1> HIDE DEF Upto
  <1>7. FlattenSeq(ss \o Upto(m)) = FlattenSeq(ss) \o FlattenSeq(Upto(m))
      BY <1>1, <1>5
  <1> QED
      BY <1>6, <1>7, Zenon

=============================================================================
