--------------------------- MODULE SequenceFacts ---------------------------
(***************************************************************************)
(* Facts about sequences that the proofs about texts share: what is after  *)
(* a place, flattening, and the values of recursive functions that eat a   *)
(* sequence from the front.                                                *)
(***************************************************************************)
EXTENDS Integers, SequencesExt, SequenceTheorems, WellFoundedInduction, TLAPS

(* Induction, over sets instead of predicates. *)

Below == {p \in Nat \X Nat : p[1] < p[2]}

\* A set of naturals with 0 and every successor is all of them.
LEMMA NatSetInduction ==
  ASSUME NEW P, P \subseteq Nat, 0 \in P, \A n \in P : n + 1 \in P
  PROVE  P = Nat
<1> SUFFICES ASSUME Nat \ P # {} PROVE FALSE
  OBVIOUS
<1>1. IsWellFoundedOn(Below, Nat)
  <2>1. Below = OpToRel(<, Nat)
    BY DEF Below, OpToRel
  <2>2. QED
    BY <2>1, NatLessThanWellFounded
<1>2. PICK m \in Nat \ P : \A k \in Nat \ P : <<k, m>> \notin Below
  <2>1. Nat \ P \subseteq Nat
    OBVIOUS
  <2>2. QED
    BY <1>1, <2>1, WFMin
<1>3. m # 0 /\ m - 1 \in Nat
  OBVIOUS
<1>4. m - 1 \in P
  <2> SUFFICES ASSUME m - 1 \notin P PROVE FALSE
    OBVIOUS
  <2>1. <<m - 1, m>> \in Nat \X Nat /\ <<m - 1, m>>[1] < <<m - 1, m>>[2]
    BY <1>3
  <2>2. <<m - 1, m>> \in Below
    BY <2>1 DEF Below
  <2>3. QED
    BY <1>2, <1>3, <2>2
<1>5. QED
  BY <1>3, <1>4

\* The same from the end of an interval down, with all later ones known.
LEMMA DownInduction ==
  ASSUME NEW n \in Nat, NEW P,
         \A i \in 1..n : (\A j \in (i + 1)..n : j \in P) => i \in P
  PROVE  \A i \in 1..n : i \in P
<1> DEFINE Q == {k \in Nat : \A j \in 1..n : j > n - k => j \in P}
<1>1. 0 \in Q
  OBVIOUS
<1>2. ASSUME NEW k \in Q PROVE k + 1 \in Q
  <2>1. k \in Nat /\ \A j \in 1..n : j > n - k => j \in P
    OBVIOUS
  <2>2. ASSUME NEW j \in 1..n, j > n - (k + 1) PROVE j \in P
    <3>1. \A i \in (j + 1)..n : i \in 1..n /\ i > n - k
      BY <2>1, <2>2
    <3>2. QED
      BY <2>1, <3>1
  <2>3. QED
    BY <2>1, <2>2
<1>3. Q = Nat
  <2>1. Q \subseteq Nat
    OBVIOUS
  <2> HIDE DEF Q
  <2>2. QED
    BY <1>1, <1>2, <2>1, NatSetInduction
<1>4. n \in Q
  BY <1>3
<1>5. QED
  BY <1>4

-----------------------------------------------------------------------------
(* What is after a place. *)

Suffix(s, i) == SubSeq(s, i, Len(s))

\* Its elements.
LEMMA SuffixElements ==
  ASSUME NEW S, NEW s \in Seq(S), NEW i \in 1..Len(s) + 1
  PROVE  /\ Suffix(s, i) \in Seq(S) /\ Len(Suffix(s, i)) = Len(s) + 1 - i
         /\ \A k \in 1..(Len(s) + 1 - i) : Suffix(s, i)[k] = s[i + k - 1]
<1>1. Len(s) \in Nat /\ \A k \in i..Len(s) : s[k] \in S
  BY LenProperties, ElementOfSeq
<1>2. /\ SubSeq(s, i, Len(s)) \in Seq(S)
      /\ Len(SubSeq(s, i, Len(s))) = IF i <= Len(s) THEN Len(s) - i + 1 ELSE 0
      /\ \A k \in 1..(Len(s) - i + 1) : SubSeq(s, i, Len(s))[k] = s[i + k - 1]
  <2>1. i \in Int /\ Len(s) \in Int
    BY <1>1
  <2>2. QED
    BY <1>1, <2>1, SubSeqProperties
<1>3. Len(s) - i + 1 = Len(s) + 1 - i /\ (~(i <= Len(s)) => Len(s) + 1 - i = 0)
  BY <1>1
<1>4. QED
  BY <1>2, <1>3 DEF Suffix

\* What is after a place of what is after a place.
LEMMA SuffixOfSuffix ==
  ASSUME NEW S, NEW s \in Seq(S), NEW i \in 1..Len(s) + 1, NEW j \in 1..Len(s) + 2 - i
  PROVE  Suffix(Suffix(s, i), j) = Suffix(s, i + j - 1)
<1> DEFINE t == Suffix(s, i)
           k == i + j - 1
<1>1. Len(s) \in Nat
  BY LenProperties
<1>2. t \in Seq(S) /\ Len(t) = Len(s) + 1 - i /\ \A m \in 1..(Len(s) + 1 - i) : t[m] = s[i + m - 1]
  BY SuffixElements
<1> HIDE DEF t
<1>3. j \in 1..Len(t) + 1
  BY <1>1, <1>2
<1>k. k \in 1..Len(s) + 1
  BY <1>1
<1> HIDE DEF k
<1>t. t \in Seq(S)
  BY <1>2
<1>4. /\ Suffix(t, j) \in Seq(S) /\ Len(Suffix(t, j)) = Len(t) + 1 - j
      /\ \A m \in 1..(Len(t) + 1 - j) : Suffix(t, j)[m] = t[j + m - 1]
  BY ONLY <1>t, <1>3, SuffixElements
<1>5. /\ Suffix(s, k) \in Seq(S) /\ Len(Suffix(s, k)) = Len(s) + 1 - k
      /\ \A m \in 1..(Len(s) + 1 - k) : Suffix(s, k)[m] = s[k + m - 1]
  BY <1>k, SuffixElements
<1>6. Len(Suffix(t, j)) = Len(Suffix(s, k))
  BY <1>1, <1>2, <1>4, <1>5 DEF k
<1>7. \A m \in 1..Len(Suffix(t, j)) : Suffix(t, j)[m] = Suffix(s, k)[m]
  <2> SUFFICES ASSUME NEW m \in 1..Len(Suffix(t, j)) PROVE Suffix(t, j)[m] = Suffix(s, k)[m]
    OBVIOUS
  <2>1. m \in 1..(Len(t) + 1 - j) /\ m \in 1..(Len(s) + 1 - k) /\ j + m - 1 \in 1..(Len(s) + 1 - i)
    BY <1>1, <1>2, <1>4, <1>5, <1>6
  <2>2. i + (j + m - 1) - 1 = k + m - 1
    BY <1>1 DEF k
  <2>3. QED
    BY <1>2, <1>4, <1>5, <2>1, <2>2
<1>8. QED
  BY <1>4, <1>5, <1>6, <1>7, SeqEqual DEF t, k

\* All of it, and nothing.
LEMMA SuffixEnds ==
  ASSUME NEW S, NEW s \in Seq(S)
  PROVE  Suffix(s, 1) = s /\ Suffix(s, Len(s) + 1) = <<>>
<1>1. Len(s) \in Nat
  BY LenProperties
<1>2. SubSeq(s, 1, Len(s)) = s
  BY SubSeqFull
<1>3. SubSeq(s, Len(s) + 1, Len(s)) = <<>>
  BY <1>1, SubSeqEmpty
<1>4. QED
  BY <1>2, <1>3 DEF Suffix

\* In which order three sequences are put together.
Associates(s, t, u) == (s \o t) \o u = s \o (t \o u)
\* It makes no difference.
LEMMA JoinAssociates ==
  ASSUME NEW S, NEW s \in Seq(S), NEW t \in Seq(S), NEW u \in Seq(S)
  PROVE  Associates(s, t, u)
BY ConcatAssociative DEF Associates

\* What comes after s in s \o t.
LEMMA SuffixOfJoin ==
  ASSUME NEW S, NEW s \in Seq(S), NEW t \in Seq(S)
  PROVE  Suffix(s \o t, Len(s) + 1) = t
<1> DEFINE u == s \o t
           k == Len(s) + 1
<1>1. Len(s) \in Nat /\ Len(t) \in Nat
  BY LenProperties
<1>2. /\ u \in Seq(S) /\ Len(u) = Len(s) + Len(t)
      /\ \A i \in 1..Len(s) + Len(t) : u[i] = IF i <= Len(s) THEN s[i] ELSE t[i - Len(s)]
  BY ConcatProperties
<1> HIDE DEF u
<1>3. k \in 1..Len(u) + 1
  BY <1>1, <1>2
<1>4. /\ Suffix(u, k) \in Seq(S) /\ Len(Suffix(u, k)) = Len(u) + 1 - k
      /\ \A m \in 1..(Len(u) + 1 - k) : Suffix(u, k)[m] = u[k + m - 1]
  <2> HIDE DEF k
  <2> HIDE DEF Suffix
  <2>0. u \in Seq(S)
    BY <1>2
  <2>1. Suffix(u, k) \in Seq(S) /\ Len(Suffix(u, k)) = Len(u) + 1 - k
    BY ONLY <2>0, <1>3, SuffixElements
  <2>2. \A m \in 1..(Len(u) + 1 - k) : Suffix(u, k)[m] = u[k + m - 1]
    BY ONLY <2>0, <1>3, SuffixElements
  <2>3. QED
    BY <2>1, <2>2
<1>5. Len(Suffix(u, k)) = Len(t) /\ Len(u) + 1 - k = Len(t)
  BY <1>1, <1>2, <1>4
<1>6. \A m \in 1..Len(t) : Suffix(u, k)[m] = t[m]
  <2> SUFFICES ASSUME NEW m \in 1..Len(t) PROVE Suffix(u, k)[m] = t[m]
    OBVIOUS
  <2>1. Suffix(u, k)[m] = u[k + m - 1]
    BY <1>4, <1>5
  <2>2. /\ k + m - 1 \in 1..(Len(s) + Len(t)) /\ ~(k + m - 1 <= Len(s)) /\ k + m - 1 - Len(s) = m
    BY <1>1
  <2>3. QED
    BY <1>2, <2>1, <2>2
<1>7. QED
  BY <1>4, <1>5, <1>6, SeqEqual DEF u
-----------------------------------------------------------------------------
(* Induction over sequences. *)

\* A set of sequences with the empty one and every longer one is all of them.
LEMMA AppendInduction ==
  ASSUME NEW S, NEW P, P \subseteq Seq(S), <<>> \in P, \A s \in P, e \in S : Append(s, e) \in P
  PROVE  P = Seq(S)
<1> DEFINE Q == {n \in Nat : \A s \in Seq(S) : Len(s) = n => s \in P}
<1>1. 0 \in Q
  <2>1. \A s \in Seq(S) : Len(s) = 0 => s = <<>>
    BY EmptySeq
  <2>2. QED
    BY <2>1
<1>2. ASSUME NEW n \in Q PROVE n + 1 \in Q
  <2>1. n \in Nat /\ \A s \in Seq(S) : Len(s) = n => s \in P
    OBVIOUS
  <2>2. ASSUME NEW s \in Seq(S), Len(s) = n + 1 PROVE s \in P
    <3>1. s # <<>>
      BY <2>1, <2>2, EmptySeq
    <3>2. PICK r \in Seq(S), e \in S : s = Append(r, e)
      BY <3>1, SequenceEmptyOrAppend
    <3>3. Len(r) = n
      BY <2>1, <2>2, <3>2, AppendProperties, LenProperties
    <3>4. QED
      BY <2>1, <3>2, <3>3
  <2>3. QED
    BY <2>1, <2>2
<1>3. Q = Nat
  <2>1. Q \subseteq Nat
    OBVIOUS
  <2> HIDE DEF Q
  <2>2. QED
    BY <1>1, <1>2, <2>1, NatSetInduction
<1>4. ASSUME NEW s \in Seq(S) PROVE s \in P
  BY <1>3, LenProperties
<1>5. QED
  BY <1>4

\* The same from the front.
LEMMA ConsInduction ==
  ASSUME NEW S, NEW P, P \subseteq Seq(S), <<>> \in P, \A s \in P, e \in S : <<e>> \o s \in P
  PROVE  P = Seq(S)
<1> DEFINE Q == {n \in Nat : \A s \in Seq(S) : Len(s) = n => s \in P}
<1>1. 0 \in Q
  <2>1. \A s \in Seq(S) : Len(s) = 0 => s = <<>>
    BY EmptySeq
  <2>2. QED
    BY <2>1
<1>2. ASSUME NEW n \in Q PROVE n + 1 \in Q
  <2>1. n \in Nat /\ \A s \in Seq(S) : Len(s) = n => s \in P
    OBVIOUS
  <2>2. ASSUME NEW s \in Seq(S), Len(s) = n + 1 PROVE s \in P
    <3> DEFINE r == Suffix(s, 2)
    <3>1. Len(s) \in 1..Len(s) /\ 1 \in 1..Len(s) /\ 2 \in 1..Len(s) + 1
      BY <2>1, <2>2
    <3>2. SubSeq(s, 1, Len(s)) = <<s[1]>> \o SubSeq(s, 1 + 1, Len(s))
      BY <3>1, SubSeqRecursiveFirst
    <3>3. s = <<s[1]>> \o r
      <4>1. SubSeq(s, 1, Len(s)) = s /\ 1 + 1 = 2
        BY SubSeqFull
      <4>2. QED
        BY <3>2, <4>1 DEF Suffix
    <3>4. r \in Seq(S) /\ Len(r) = Len(s) + 1 - 2 /\ s[1] \in S
      BY <3>1, SuffixElements, ElementOfSeq
    <3>5. r \in P
      BY <2>1, <2>2, <3>4
    <3>6. QED
      BY <3>3, <3>4, <3>5
  <2>3. QED
    BY <2>1, <2>2
<1>3. Q = Nat
  <2>1. Q \subseteq Nat
    OBVIOUS
  <2> HIDE DEF Q
  <2>2. QED
    BY <1>1, <1>2, <2>1, NatSetInduction
<1>4. ASSUME NEW s \in Seq(S) PROVE s \in P
  BY <1>3, LenProperties
<1>5. QED
  BY <1>4

\* A sequence of one element.
LEMMA One ==
  ASSUME NEW S, NEW e \in S
  PROVE  <<e>> \in Seq(S) /\ Len(<<e>>) = 1 /\ <<e>>[1] = e
OBVIOUS

\* The first element and the rest.
LEMMA ConsElements ==
  ASSUME NEW S, NEW e \in S, NEW s \in Seq(S)
  PROVE  /\ <<e>> \o s \in Seq(S) /\ Len(<<e>> \o s) = Len(s) + 1 /\ (<<e>> \o s)[1] = e
         /\ \A i \in 1..Len(s) : (<<e>> \o s)[i + 1] = s[i]
         /\ Suffix(<<e>> \o s, 2) = s
<1> DEFINE u == <<e>>
<1>1. u \in Seq(S) /\ Len(u) = 1 /\ u[1] = e
  BY One
<1> HIDE DEF u
<1>2. /\ u \o s \in Seq(S) /\ Len(u \o s) = Len(u) + Len(s)
      /\ \A i \in 1..Len(u) + Len(s) : (u \o s)[i] = IF i <= Len(u) THEN u[i] ELSE s[i - Len(u)]
  BY <1>1, ConcatProperties
<1>3. Len(s) \in Nat
  BY LenProperties
<1>4. Suffix(u \o s, Len(u) + 1) = s
  BY <1>1, SuffixOfJoin
<1>5. \A i \in 1..Len(s) : (u \o s)[i + 1] = s[i]
  <2> SUFFICES ASSUME NEW i \in 1..Len(s) PROVE (u \o s)[i + 1] = s[i]
    OBVIOUS
  <2>1. i + 1 \in 1..Len(u) + Len(s) /\ ~(i + 1 <= Len(u)) /\ i + 1 - Len(u) = i
    BY <1>1, <1>3
  <2>2. QED
    BY <1>2, <2>1
<1>6. (u \o s)[1] = e
  BY <1>1, <1>2, <1>3
<1>7. QED
  BY <1>1, <1>2, <1>3, <1>4, <1>5, <1>6 DEF u

-----------------------------------------------------------------------------
(* Flattening. *)

\* What flattens ss, place by place.
Flattens(f, ss) ==
  f = [i \in 1..Len(ss) |-> IF i = 1 THEN ss[i] ELSE f[i - 1] \o ss[i]]

\* There is such a function, and its values are sequences.
LEMMA FlattensExists ==
  ASSUME NEW S, NEW ss \in Seq(Seq(S))
  PROVE  \E f \in [1..Len(ss) -> Seq(S)] : Flattens(f, ss)
<1> DEFINE n == Len(ss)
           Good(f, m) == \A i \in 1..m : f[i] = IF i = 1 THEN ss[i] ELSE f[i - 1] \o ss[i]
           Some(m) == \E f \in [1..m -> Seq(S)] : Good(f, m)
           P == {m \in Nat : m <= n => Some(m)}
<1>0. n \in Nat /\ \A i \in 1..n : ss[i] \in Seq(S)
  BY LenProperties, ElementOfSeq
<1> HIDE DEF n
<1>1. 0 \in P
  <2> DEFINE f == [i \in 1..0 |-> <<>>]
  <2>1. f \in [1..0 -> Seq(S)] /\ Good(f, 0)
    OBVIOUS
  <2>2. QED
    BY <2>1
<1>2. ASSUME NEW m \in P PROVE m + 1 \in P
  <2> HIDE DEF Some
  <2> SUFFICES ASSUME m + 1 <= n PROVE Some(m + 1)
    OBVIOUS
  <2>1. m \in Nat /\ m <= n /\ Some(m)
    BY <1>0
  <2> USE DEF Some
  <2>2. PICK f \in [1..m -> Seq(S)] : Good(f, m)
    BY <2>1
  <2> DEFINE last == IF m = 0 THEN ss[1] ELSE f[m] \o ss[m + 1]
             g == [i \in 1..(m + 1) |-> IF i <= m THEN f[i] ELSE last]
  <2>3. last \in Seq(S)
    <3>1. CASE m = 0
      BY <1>0, <3>1
    <3>2. CASE m # 0
      <4>1. f[m] \in Seq(S) /\ ss[m + 1] \in Seq(S)
        BY <1>0, <2>1, <3>2
      <4>2. f[m] \o ss[m + 1] \in Seq(S)
        BY <4>1, ConcatProperties
      <4>3. QED
        BY <3>2, <4>2
    <3>3. QED
      BY <3>1, <3>2
  <2>4. g \in [1..(m + 1) -> Seq(S)]
    <3> HIDE DEF last
    <3>1. QED
      BY <2>1, <2>2, <2>3
  <2>5. ASSUME NEW i \in 1..(m + 1) PROVE g[i] = IF i = 1 THEN ss[i] ELSE g[i - 1] \o ss[i]
    <3>1. CASE i <= m
      <4>1. i \in 1..m /\ (i # 1 => i - 1 \in 1..(m + 1) /\ i - 1 <= m)
        BY <2>1, <3>1
      <4>2. g[i] = f[i] /\ (i # 1 => g[i - 1] = f[i - 1])
        BY <4>1
      <4>3. QED
        BY <2>2, <4>1, <4>2
    <3>2. CASE i = m + 1
      <4>1. g[i] = last /\ (m # 0 => g[m] = f[m])
        BY <2>1, <3>2
      <4>2. i - 1 = m
        BY <2>1, <3>2
      <4>3. QED
        BY <3>2, <4>1, <4>2
    <3>3. QED
      BY <2>1, <3>1, <3>2
  <2>6. QED
    BY <2>4, <2>5
<1>3. P = Nat
  <2>1. P \subseteq Nat
    OBVIOUS
  <2> HIDE DEF P
  <2>2. QED
    BY <1>1, <1>2, <2>1, NatSetInduction
<1>a. Some(n)
  <2>1. n \in P
    <3> HIDE DEF P
    <3>1. QED
      BY <1>0, <1>3
  <2> HIDE DEF Some
  <2>2. QED
    BY <2>1
<1>4. PICK f \in [1..n -> Seq(S)] : Good(f, n)
  BY <1>a
<1>5. f = [i \in 1..n |-> IF i = 1 THEN ss[i] ELSE f[i - 1] \o ss[i]]
  BY <1>4
<1>6. QED
  BY <1>5 DEF Flattens, n

\* FlattenSeq is the last value of it.
LEMMA FlattenIsLast ==
  ASSUME NEW S, NEW ss \in Seq(Seq(S)), ss # <<>>
  PROVE  \E f \in [1..Len(ss) -> Seq(S)] : Flattens(f, ss) /\ FlattenSeq(ss) = f[Len(ss)]
<1> DEFINE f == CHOOSE f : Flattens(f, ss)
<1>1. Len(ss) # 0 /\ Len(ss) \in Nat
  BY EmptySeq
<1>2. FlattenSeq(ss) = f[Len(ss)]
  BY <1>1 DEF FlattenSeq, Flattens
<1>3. PICK g \in [1..Len(ss) -> Seq(S)] : Flattens(g, ss)
  BY FlattensExists
<1>4. Flattens(f, ss)
  BY <1>3
<1> HIDE DEF f
<1>5. \A i \in 1..Len(ss) : f[i] = (IF i = 1 THEN ss[i] ELSE f[i - 1] \o ss[i])
                            /\ g[i] = (IF i = 1 THEN ss[i] ELSE g[i - 1] \o ss[i])
  BY <1>3, <1>4 DEF Flattens
<1> DEFINE P == {k \in Nat : k \in 1..Len(ss) => f[k] = g[k]}
<1>6. P = Nat
  <2>1. 0 \in P /\ P \subseteq Nat
    OBVIOUS
  <2>2. ASSUME NEW k \in P PROVE k + 1 \in P
    <3> SUFFICES ASSUME k + 1 \in 1..Len(ss) PROVE f[k + 1] = g[k + 1]
      OBVIOUS
    <3>1. CASE k = 0
      <4>1. k + 1 = 1 /\ 1 \in 1..Len(ss)
        BY <3>1
      <4>2. f[1] = g[1]
        BY <1>5, <4>1
      <4>3. QED
        BY <4>1, <4>2
    <3>2. CASE k # 0
      <4> DEFINE j == k + 1
      <4>1. k \in 1..Len(ss) /\ j \in 1..Len(ss) /\ j # 1 /\ j - 1 = k
        BY <1>1, <3>2
      <4>2. f[k] = g[k]
        BY <4>1
      <4> HIDE DEF j
      <4>3. f[j] = f[k] \o ss[j] /\ g[j] = g[k] \o ss[j]
        BY <1>5, <4>1
      <4>4. QED
        BY <4>2, <4>3 DEF j
    <3>3. QED
      BY <3>1, <3>2
  <2> HIDE DEF P
  <2>3. QED
    BY <2>1, <2>2, NatSetInduction
<1>7. ASSUME NEW i \in 1..Len(ss) PROVE f[i] = g[i]
  <2>1. i \in P
    <3> HIDE DEF P
    <3>1. QED
      BY <1>6
  <2>2. QED
    BY <2>1
<1>8. FlattenSeq(ss) = g[Len(ss)]
  BY <1>1, <1>2, <1>7
<1>9. QED
  BY <1>3, <1>8

\* Of nothing.
LEMMA FlattenEmpty == FlattenSeq(<<>>) = <<>>
<1>1. Len(<<>>) = 0
  BY EmptySeq
<1>2. QED
  BY <1>1 DEF FlattenSeq

\* Of one more sequence at the end.
LEMMA FlattenAppend ==
  ASSUME NEW S, NEW ss \in Seq(Seq(S)), NEW t \in Seq(S)
  PROVE  FlattenSeq(ss) \in Seq(S) /\ FlattenSeq(Append(ss, t)) = FlattenSeq(ss) \o t
<1> DEFINE n == Len(ss)
           uu == Append(ss, t)
<1>1. n \in Nat
  BY LenProperties
<1>2. /\ uu \in Seq(Seq(S)) /\ uu # <<>> /\ Len(uu) = n + 1
      /\ (\A i \in 1..n : uu[i] = ss[i]) /\ uu[n + 1] = t
  BY AppendProperties
<1> HIDE DEF uu
<1>3. PICK g \in [1..Len(uu) -> Seq(S)] : Flattens(g, uu) /\ FlattenSeq(uu) = g[Len(uu)]
  BY <1>2, FlattenIsLast
<1>4. \A i \in 1..(n + 1) : g[i] = IF i = 1 THEN uu[i] ELSE g[i - 1] \o uu[i]
  BY <1>2, <1>3 DEF Flattens
<1>5. CASE ss = <<>>
  <2>1. n = 0 /\ FlattenSeq(ss) = <<>>
    BY <1>5, EmptySeq, FlattenEmpty
  <2>2. g[1] = t
    BY <1>2, <1>4, <2>1
  <2>3. <<>> \in Seq(S) /\ <<>> \o t = t
    BY EmptySeq, ConcatEmptySeq
  <2>4. QED
    BY <1>2, <1>3, <2>1, <2>2, <2>3 DEF uu
<1>6. CASE ss # <<>>
  <2>1. PICK f \in [1..n -> Seq(S)] : Flattens(f, ss) /\ FlattenSeq(ss) = f[n]
    BY <1>6, FlattenIsLast
  <2>2. \A i \in 1..n : f[i] = IF i = 1 THEN ss[i] ELSE f[i - 1] \o ss[i]
    BY <2>1 DEF Flattens
  <2>3. n # 0
    BY <1>6, EmptySeq
  <2> HIDE DEF n
  <2> DEFINE P == {k \in Nat : k \in 1..n => f[k] = g[k]}
  <2>4. P = Nat
    <3>1. 0 \in P /\ P \subseteq Nat
      OBVIOUS
    <3>2. ASSUME NEW k \in P PROVE k + 1 \in P
      <4> SUFFICES ASSUME k + 1 \in 1..n PROVE f[k + 1] = g[k + 1]
        OBVIOUS
      <4>1. CASE k = 0
        <5>1. k + 1 = 1 /\ 1 \in 1..n /\ 1 \in 1..(n + 1)
          BY <1>1, <4>1
        <5>2. f[1] = g[1]
          BY <1>2, <1>4, <2>2, <5>1
        <5>3. QED
          BY <5>1, <5>2
      <4>2. CASE k # 0
        <5> DEFINE j == k + 1
        <5>1. k \in 1..n /\ j \in 1..n /\ j \in 1..(n + 1) /\ j # 1 /\ j - 1 = k
          BY <1>1, <4>2
        <5>2. f[k] = g[k]
          BY <5>1
        <5> HIDE DEF j
        <5>3. f[j] = f[k] \o ss[j] /\ g[j] = g[k] \o uu[j] /\ uu[j] = ss[j]
          BY <1>2, <1>4, <2>2, <5>1
        <5>4. QED
          BY <5>2, <5>3 DEF j
      <4>3. QED
        BY <4>1, <4>2
    <3> HIDE DEF P
    <3>3. QED
      BY <3>1, <3>2, NatSetInduction
  <2>5. f[n] = g[n]
    <3>1. n \in 1..n
      BY <1>1, <2>3
    <3>2. n \in P
      <4> HIDE DEF P
      <4>1. QED
        BY <1>1, <2>4
    <3>3. QED
      BY <3>1, <3>2
  <2>6. g[n + 1] = g[n] \o t
    <3> DEFINE j == n + 1
    <3>1. j \in 1..(n + 1) /\ j # 1 /\ j - 1 = n
      BY <1>1, <2>3
    <3> HIDE DEF j
    <3>2. g[j] = g[n] \o uu[j]
      BY <1>4, <3>1
    <3>3. QED
      BY <1>2, <3>2 DEF j
  <2>7. f[n] \in Seq(S)
    BY <1>1, <2>3
  <2>8. QED
    BY <1>2, <1>3, <2>1, <2>5, <2>6, <2>7 DEF uu
<1>7. QED
  BY <1>5, <1>6

\* Of two sequences of sequences, one after the other.
LEMMA FlattenJoin ==
  ASSUME NEW S, NEW ss \in Seq(Seq(S)), NEW tt \in Seq(Seq(S))
  PROVE  FlattenSeq(ss \o tt) = FlattenSeq(ss) \o FlattenSeq(tt)
<1> DEFINE P == {uu \in Seq(Seq(S)) : FlattenSeq(ss \o uu) = FlattenSeq(ss) \o FlattenSeq(uu)}
<1>0. FlattenSeq(ss) \in Seq(S)
  <2>1. <<>> \in Seq(S)
    BY EmptySeq
  <2>2. QED
    BY <2>1, FlattenAppend
<1>1. <<>> \in P
  <2>1. ss \o <<>> = ss /\ FlattenSeq(ss) \o <<>> = FlattenSeq(ss) /\ <<>> \in Seq(Seq(S))
    BY <1>0, ConcatEmptySeq, EmptySeq
  <2>2. QED
    BY <2>1, FlattenEmpty
<1>2. ASSUME NEW uu \in P, NEW t \in Seq(S) PROVE Append(uu, t) \in P
  <2>1. uu \in Seq(Seq(S)) /\ FlattenSeq(ss \o uu) = FlattenSeq(ss) \o FlattenSeq(uu)
    OBVIOUS
  <2>2. ss \o Append(uu, t) = Append(ss \o uu, t) /\ ss \o uu \in Seq(Seq(S)) /\ Append(uu, t) \in Seq(Seq(S))
    <3>1. <<t>> \in Seq(Seq(S))
      OBVIOUS
    <3>2. ss \o uu \in Seq(Seq(S)) /\ Append(uu, t) \in Seq(Seq(S))
      BY <2>1, ConcatProperties, AppendProperties
    <3>3. Append(uu, t) = uu \o <<t>> /\ Append(ss \o uu, t) = (ss \o uu) \o <<t>>
      BY <2>1, <3>2, AppendIsConcat
    <3>4. (ss \o uu) \o <<t>> = ss \o (uu \o <<t>>)
      <4> DEFINE w == <<t>>
      <4> HIDE DEF w, P
      <4>1. w \in Seq(Seq(S))
        BY <3>1 DEF w
      <4>2. Associates(ss, uu, w)
        BY <2>1, <4>1, JoinAssociates
      <4>3. QED
        BY <4>2 DEF Associates, w
    <3>5. QED
      BY <3>2, <3>3, <3>4
  <2>3. FlattenSeq(Append(ss \o uu, t)) = FlattenSeq(ss \o uu) \o t
    BY <2>2, FlattenAppend
  <2>4. FlattenSeq(Append(uu, t)) = FlattenSeq(uu) \o t /\ FlattenSeq(uu) \in Seq(S)
    BY <2>1, FlattenAppend
  <2>5. (FlattenSeq(ss) \o FlattenSeq(uu)) \o t = FlattenSeq(ss) \o (FlattenSeq(uu) \o t)
    <3>1. Associates(FlattenSeq(ss), FlattenSeq(uu), t)
      BY <1>0, <2>4, JoinAssociates
    <3>2. QED
      BY <3>1 DEF Associates
  <2>6. QED
    BY <2>1, <2>2, <2>3, <2>4, <2>5
<1>3. P \subseteq Seq(Seq(S))
  OBVIOUS
<1> HIDE DEF P
<1>4. P = Seq(Seq(S))
  BY <1>1, <1>2, <1>3, AppendInduction
<1>5. QED
  BY <1>4 DEF P
-----------------------------------------------------------------------------
(* The sequences that a function gives for each element, one after another. *)

Mapped(F, s) == [k \in DOMAIN s |-> F[s[k]]]
FlatMap(F, s) == FlattenSeq(Mapped(F, s))

\* r is what F gives for the elements of s, in T.
MapsTo(r, F, s, T) == r \in Seq(T) /\ Len(r) = Len(s) /\ \A k \in 1..Len(s) : r[k] = F[s[k]]

\* The sequences, place by place.
LEMMA MappedElements ==
  ASSUME NEW S, NEW T, NEW F \in [S -> T], NEW s \in Seq(S)
  PROVE  MapsTo(Mapped(F, s), F, s, T)
<1>1. Len(s) \in Nat /\ DOMAIN s = 1..Len(s) /\ \A k \in 1..Len(s) : s[k] \in S
  BY LenProperties, ElementOfSeq
<1>2. Mapped(F, s) = [k \in 1..Len(s) |-> F[s[k]]]
  BY <1>1 DEF Mapped
<1>3. \A k \in 1..Len(s) : F[s[k]] \in T
  BY <1>1
<1>4. QED
  BY <1>1, <1>2, <1>3 DEF MapsTo

\* Of two sequences, one after the other.
MapJoins(F, s, t) == Mapped(F, s \o t) = Mapped(F, s) \o Mapped(F, t)
\* It does, for any function.
LEMMA MappedJoin ==
  ASSUME NEW S, NEW T, NEW F \in [S -> T], NEW s \in Seq(S), NEW t \in Seq(S)
  PROVE  MapJoins(F, s, t)
<1> DEFINE u == s \o t
           a == Mapped(F, s)
           b == Mapped(F, t)
           c == Mapped(F, u)
<1>1. Len(s) \in Nat /\ Len(t) \in Nat
  BY LenProperties
<1>2. /\ u \in Seq(S) /\ Len(u) = Len(s) + Len(t)
      /\ \A i \in 1..Len(s) + Len(t) : u[i] = IF i <= Len(s) THEN s[i] ELSE t[i - Len(s)]
  BY ConcatProperties
<1> HIDE DEF u
<1>a. a \in Seq(T) /\ Len(a) = Len(s) /\ \A k \in 1..Len(s) : a[k] = F[s[k]]
  <2>1. MapsTo(Mapped(F, s), F, s, T)
    BY MappedElements
  <2>2. QED
    BY <2>1 DEF MapsTo
<1>b. b \in Seq(T) /\ Len(b) = Len(t) /\ \A k \in 1..Len(t) : b[k] = F[t[k]]
  <2>1. MapsTo(Mapped(F, t), F, t, T)
    BY MappedElements
  <2>2. QED
    BY <2>1 DEF MapsTo
<1>c. c \in Seq(T) /\ Len(c) = Len(u) /\ \A k \in 1..Len(u) : c[k] = F[u[k]]
  <2>1. u \in Seq(S)
    BY <1>2
  <2>2. QED
    <3>1. MapsTo(Mapped(F, u), F, u, T)
      BY <2>1, MappedElements
    <3>2. QED
      BY <3>1 DEF MapsTo
<1> HIDE DEF a, b, c
<1>3. a \in Seq(T) /\ b \in Seq(T) /\ c \in Seq(T) /\ Len(a) = Len(s) /\ Len(b) = Len(t)
  BY <1>a, <1>b, <1>c
<1>4. /\ a \o b \in Seq(T) /\ Len(a \o b) = Len(a) + Len(b)
      /\ \A i \in 1..Len(a) + Len(b) : (a \o b)[i] = IF i <= Len(a) THEN a[i] ELSE b[i - Len(a)]
  BY ONLY <1>3, ConcatProperties
<1>5. \A i \in 1..Len(u) : c[i] = (a \o b)[i]
  <2> SUFFICES ASSUME NEW i \in 1..Len(u) PROVE c[i] = (a \o b)[i]
    OBVIOUS
  <2>1. CASE i <= Len(s)
    <3>1. i \in 1..Len(s) /\ i \in 1..Len(s) + Len(t) /\ i \in 1..Len(a) + Len(b) /\ i <= Len(a)
      BY <1>1, <1>2, <1>3, <2>1
    <3>2. u[i] = s[i] /\ (a \o b)[i] = a[i]
      BY <1>2, <1>4, <2>1, <3>1
    <3>3. QED
      BY <1>a, <1>c, <3>1, <3>2
  <2>2. CASE ~(i <= Len(s))
    <3>1. i - Len(s) \in 1..Len(t) /\ i \in 1..Len(s) + Len(t) /\ i \in 1..Len(a) + Len(b)
      BY <1>1, <1>2, <1>3, <2>2
    <3>2. u[i] = t[i - Len(s)] /\ (a \o b)[i] = b[i - Len(s)]
      BY <1>2, <1>3, <1>4, <2>2, <3>1
    <3>3. QED
      BY <1>b, <1>c, <3>1, <3>2
  <2>3. QED
    BY <2>1, <2>2
<1>6. Len(c) = Len(a \o b)
  BY <1>2, <1>c, <1>3, <1>4
<1>7. c = a \o b
  <2>1. \A i \in 1..Len(c) : c[i] = (a \o b)[i]
    BY <1>5, <1>c
  <2>2. a \o b \in Seq(T)
    BY <1>4
  <2>3. QED
    BY ONLY <1>3, <1>6, <2>1, <2>2, SeqEqual
<1>8. QED
  BY <1>7 DEF MapJoins, a, b, c, u

\* Of nothing.
LEMMA FlatMapEmpty == ASSUME NEW F PROVE FlatMap(F, <<>>) = <<>>
<1>1. Mapped(F, <<>>) = <<>>
  BY DEF Mapped
<1>2. QED
  BY <1>1, FlattenEmpty DEF FlatMap

\* Of any sequence it is a sequence.
LEMMA FlatMapType ==
  ASSUME NEW S, NEW T, NEW F \in [S -> Seq(T)], NEW s \in Seq(S)
  PROVE  FlatMap(F, s) \in Seq(T)
<1>1. Mapped(F, s) \in Seq(Seq(T))
  BY MappedElements DEF MapsTo
<1>2. <<>> \in Seq(T)
  BY EmptySeq
<1>3. QED
  BY <1>1, <1>2, FlattenAppend DEF FlatMap

\* Of two sequences, one after the other.
FlatJoins(F, s, t) == FlatMap(F, s \o t) = FlatMap(F, s) \o FlatMap(F, t)
\* It does, for any function that gives sequences.
LEMMA FlatMapJoin ==
  ASSUME NEW S, NEW T, NEW F \in [S -> Seq(T)], NEW s \in Seq(S), NEW t \in Seq(S)
  PROVE  FlatJoins(F, s, t)
<1>1. Mapped(F, s) \in Seq(Seq(T)) /\ Mapped(F, t) \in Seq(Seq(T))
  BY MappedElements DEF MapsTo
<1>2. FlattenSeq(Mapped(F, s) \o Mapped(F, t)) = FlattenSeq(Mapped(F, s)) \o FlattenSeq(Mapped(F, t))
  BY <1>1, FlattenJoin
<1>3. MapJoins(F, s, t)
  BY MappedJoin
<1>4. QED
  BY <1>2, <1>3 DEF FlatMap, MapJoins, FlatJoins

\* Of one element.
LEMMA FlatMapOne ==
  ASSUME NEW S, NEW T, NEW F \in [S -> Seq(T)], NEW e \in S
  PROVE  FlatMap(F, <<e>>) = F[e]
<1> DEFINE t == F[e]
<1>1. t \in Seq(T) /\ <<>> \in Seq(Seq(T))
  BY EmptySeq
<1> HIDE DEF t
<1>2. Mapped(F, <<e>>) = <<t>>
  BY DEF Mapped, t
<1>3. Append(<<>>, t) = <<t>>
  OBVIOUS
<1>4. FlattenSeq(Append(<<>>, t)) = FlattenSeq(<<>>) \o t
  BY <1>1, FlattenAppend
<1>5. <<>> \o t = t
  BY <1>1, ConcatEmptySeq
<1>6. QED
  BY <1>2, <1>3, <1>4, <1>5, FlattenEmpty DEF FlatMap, t

\* Functions that agree on the elements of a sequence give the same for it.
LEMMA MappedSame ==
  ASSUME NEW S, NEW s \in Seq(S), NEW F, NEW G, \A e \in S : F[e] = G[e]
  PROVE  Mapped(F, s) = Mapped(G, s)
<1>1. Len(s) \in Nat /\ DOMAIN s = 1..Len(s) /\ \A k \in 1..Len(s) : s[k] \in S
  BY LenProperties, ElementOfSeq
<1>2. QED
  BY <1>1 DEF Mapped

-----------------------------------------------------------------------------
(* Recursive functions that take M of a text off its front and put what G  *)
(* makes of the text before what they make of the rest.                    *)

\* What takes something off every text that is not empty.
Takes(M, S) == M \in [Seq(S) -> Nat] /\ \A t \in Seq(S) : t # <<>> => M[t] \in 1..Len(t)

\* The values for all ends of s.
Links(f, G, M, s) ==
  /\ DOMAIN f = 1..Len(s) + 1 /\ f[Len(s) + 1] = <<>>
  /\ \A i \in 1..Len(s) : f[i] = G[Suffix(s, i)] \o f[i + M[Suffix(s, i)]]

Chain(G, M, s) == (CHOOSE f : Links(f, G, M, s))[1]

\* Where the rest begins.
LEMMA TakesWithin ==
  ASSUME NEW S, NEW M, Takes(M, S), NEW s \in Seq(S), NEW i \in 1..Len(s)
  PROVE  /\ M[Suffix(s, i)] \in Nat /\ i + M[Suffix(s, i)] \in (i + 1)..(Len(s) + 1)
         /\ Suffix(s, i) \in Seq(S) /\ Suffix(s, i) # <<>> /\ Len(Suffix(s, i)) = Len(s) + 1 - i
<1>1. Len(s) \in Nat /\ i \in 1..Len(s) + 1
  BY LenProperties
<1> DEFINE t == Suffix(s, i)
<1>2. t \in Seq(S) /\ Len(t) = Len(s) + 1 - i
  BY <1>1, SuffixElements
<1> HIDE DEF t
<1>3. t # <<>>
  BY <1>1, <1>2, EmptySeq
<1>4. M[t] \in 1..Len(t)
  BY <1>2, <1>3 DEF Takes
<1>5. QED
  BY <1>1, <1>2, <1>3, <1>4 DEF t

\* There is such a function.
LEMMA LinksExist ==
  ASSUME NEW S, NEW T, NEW G \in [Seq(S) -> Seq(T)], NEW M, Takes(M, S), NEW s \in Seq(S)
  PROVE  \E f \in [1..Len(s) + 1 -> Seq(T)] : Links(f, G, M, s)
<1> DEFINE n == Len(s)
           next(i) == i + M[Suffix(s, i)]
           Good(f, m) == f[n + 1] = <<>> /\ \A i \in 1..n : i >= m => f[i] = G[Suffix(s, i)] \o f[next(i)]
           Some(m) == \E f \in [1..n + 1 -> Seq(T)] : Good(f, m)
           P == {i \in 1..n + 1 : Some(i)}
<1>1. n \in Nat
  BY LenProperties
<1>2. \A i \in 1..n : next(i) \in (i + 1)..(n + 1) /\ G[Suffix(s, i)] \in Seq(T)
  BY TakesWithin
<1> HIDE DEF n, next
<1>3. ASSUME NEW i \in 1..n + 1, \A j \in (i + 1)..(n + 1) : j \in P PROVE i \in P
  <2>1. CASE i = n + 1
    <3> DEFINE f == [k \in 1..n + 1 |-> <<>>]
    <3>1. f \in [1..n + 1 -> Seq(T)]
      BY EmptySeq
    <3>2. Good(f, i)
      <4>1. f[n + 1] = <<>>
        BY <1>1
      <4>2. \A k \in 1..n : ~(k >= i)
        BY <1>1, <2>1
      <4>3. QED
        BY <4>1, <4>2
    <3> HIDE DEF f, Good
    <3>3. QED
      BY <3>1, <3>2
  <2>2. CASE i # n + 1
    <3>1. i \in 1..n /\ i + 1 \in (i + 1)..(n + 1)
      BY <1>1, <2>2
    <3> HIDE DEF Some
    <3>2. Some(i + 1)
      BY <1>3, <3>1
    <3> USE DEF Some
    <3>3. PICK f \in [1..n + 1 -> Seq(T)] : Good(f, i + 1)
      BY <3>2
    <3> DEFINE v == G[Suffix(s, i)] \o f[next(i)]
               g == [f EXCEPT ![i] = v]
    <3>4. next(i) \in 1..n + 1 /\ next(i) # i /\ f[next(i)] \in Seq(T) /\ G[Suffix(s, i)] \in Seq(T)
      BY <1>1, <1>2, <3>1
    <3>5. v \in Seq(T)
      BY <3>4, ConcatProperties
    <3> HIDE DEF v
    <3>6. /\ g \in [1..n + 1 -> Seq(T)] /\ g[i] = v /\ \A k \in 1..n + 1 : k # i => g[k] = f[k]
      BY <1>1, <3>1, <3>5
    <3> HIDE DEF g
    <3>7. ASSUME NEW k \in 1..n, k >= i PROVE g[k] = G[Suffix(s, k)] \o g[next(k)]
      <4>1. CASE k = i
        BY <3>4, <3>6, <4>1 DEF v
      <4>2. CASE k # i
        <5>1. next(k) \in 1..n + 1 /\ next(k) # i /\ k \in 1..n + 1 /\ k >= i + 1
          BY <1>1, <1>2, <3>1, <3>7, <4>2
        <5>2. f[k] = G[Suffix(s, k)] \o f[next(k)]
          BY <3>3, <5>1
        <5>3. QED
          BY <3>6, <4>2, <5>1, <5>2
      <4>3. QED
        BY <4>1, <4>2
    <3>8. g[n + 1] = <<>>
      BY <1>1, <3>1, <3>3, <3>6
    <3>9. Good(g, i)
      BY <3>7, <3>8
    <3> HIDE DEF Good
    <3>10. QED
      BY <3>6, <3>9
  <2>3. QED
    BY <2>1, <2>2
<1>4. Some(1)
  <2> HIDE DEF Some
  <2>1. n + 1 \in Nat /\ 1 \in 1..n + 1
    BY <1>1
  <2> HIDE DEF P
  <2>2. \A i \in 1..n + 1 : i \in P
    BY <1>3, <2>1, DownInduction
  <2>3. 1 \in P
    BY <2>1, <2>2
  <2>4. QED
    BY <2>3 DEF P
<1>5. PICK f \in [1..n + 1 -> Seq(T)] : Good(f, 1)
  BY <1>4
<1>6. DOMAIN f = 1..n + 1 /\ \A i \in 1..n : f[i] = G[Suffix(s, i)] \o f[next(i)]
  <2>1. DOMAIN f = 1..n + 1
    OBVIOUS
  <2>2. \A i \in 1..n : i >= 1
    BY <1>1
  <2>3. QED
    BY <1>5, <2>1, <2>2
<1>7. QED
  BY <1>5, <1>6 DEF Links, n, next

\* The values for the ends of an end of s are those for ends of s.
LEMMA LinksShift ==
  ASSUME NEW S, NEW T, NEW G, NEW M, Takes(M, S), NEW s \in Seq(S), NEW d \in 1..Len(s) + 1,
         NEW f, Links(f, G, M, s), NEW g, Links(g, G, M, Suffix(s, d))
  PROVE  f[d] = g[1]
<1> DEFINE t == Suffix(s, d)
           n == Len(t)
           P == {j \in 1..n + 1 : f[d + j - 1] = g[j]}
<1>1. Len(s) \in Nat
  BY LenProperties
<1>2. t \in Seq(S) /\ n = Len(s) + 1 - d
  BY SuffixElements
<1>3. ASSUME NEW j \in 1..n PROVE Suffix(t, j) = Suffix(s, d + j - 1)
  BY <1>1, <1>2, SuffixOfSuffix
<1>4. Links(g, G, M, t)
  OBVIOUS
<1> HIDE DEF t, n
<1>5. ASSUME NEW j \in 1..n + 1, \A k \in (j + 1)..(n + 1) : k \in P PROVE j \in P
  <2>1. CASE j = n + 1
    <3>1. d + j - 1 = Len(s) + 1
      BY <1>1, <1>2, <2>1
    <3>2. g[n + 1] = <<>> /\ f[Len(s) + 1] = <<>>
      BY <1>4 DEF Links, n
    <3>3. QED
      BY <2>1, <3>1, <3>2
  <2>2. CASE j # n + 1
    <3> DEFINE i == d + j - 1
               u == Suffix(t, j)
               m == M[u]
    <3>1. n \in Nat
      BY <1>1, <1>2
    <3>2. j \in 1..n /\ i \in 1..Len(s)
      BY <1>1, <1>2, <2>2, <3>1
    <3>3. u = Suffix(s, i)
      BY <1>3, <3>2
    <3>4. m \in Nat /\ j + m \in (j + 1)..(n + 1)
      BY <1>2, <3>2, TakesWithin DEF n
    <3>5. f[i] = G[Suffix(s, i)] \o f[i + M[Suffix(s, i)]]
      BY <3>2 DEF Links
    <3>6. g[j] = G[u] \o g[j + m]
      BY <1>4, <3>2 DEF Links, n
    <3>7. f[d + (j + m) - 1] = g[j + m]
      BY <1>5, <3>4
    <3> HIDE DEF u
    <3>8. d + (j + m) - 1 = i + m
      BY <3>1, <3>2, <3>4
    <3>9. QED
      BY <3>2, <3>3, <3>5, <3>6, <3>7, <3>8
  <2>3. QED
    BY <2>1, <2>2
<1>6. n + 1 \in Nat /\ 1 \in 1..n + 1
  BY <1>1, <1>2
<1>7. 1 \in P
  <2> HIDE DEF P
  <2>1. \A j \in 1..n + 1 : j \in P
    BY <1>5, <1>6, DownInduction
  <2>2. QED
    BY <1>6, <2>1
<1>8. d + 1 - 1 = d
  OBVIOUS
<1>9. QED
  BY <1>7, <1>8

\* What a recursive function makes of a text: nothing of nothing, and else
\* what G makes of it before what it makes of the rest.
Unfolds(G, M, s) == s # <<>> => Chain(G, M, s) = G[s] \o Chain(G, M, Suffix(s, 1 + M[s]))
\* It does, whatever G and M are.
LEMMA ChainUnfolds ==
  ASSUME NEW S, NEW T, NEW G \in [Seq(S) -> Seq(T)], NEW M, Takes(M, S), NEW s \in Seq(S)
  PROVE  Chain(G, M, s) \in Seq(T) /\ Chain(G, M, <<>>) = <<>> /\ Unfolds(G, M, s)
<1>1. ASSUME NEW t \in Seq(S)
      PROVE  Links(CHOOSE f : Links(f, G, M, t), G, M, t)
  <2>1. \E f : Links(f, G, M, t)
    BY LinksExist
  <2>2. QED
    BY <2>1
<1>2. Chain(G, M, s) \in Seq(T)
  <2>1. PICK e \in [1..Len(s) + 1 -> Seq(T)] : Links(e, G, M, s)
    BY LinksExist
  <2> DEFINE h == CHOOSE f : Links(f, G, M, s)
  <2>2. Links(h, G, M, s)
    BY <1>1
  <2> HIDE DEF h
  <2>3. Suffix(s, 1) = s /\ 1 \in 1..Len(s) + 1
    BY SuffixEnds, LenProperties
  <2>4. h[1] = e[1]
    BY <2>1, <2>2, <2>3, LinksShift
  <2>5. e[1] \in Seq(T)
    BY <2>3
  <2>6. QED
    BY <2>4, <2>5 DEF Chain, h
<1>3. Chain(G, M, <<>>) = <<>>
  <2>1. <<>> \in Seq(S) /\ Len(<<>>) + 1 = 1
    BY EmptySeq
  <2>2. Links(CHOOSE f : Links(f, G, M, <<>>), G, M, <<>>)
    BY <1>1, <2>1
  <2>3. QED
    BY <2>1, <2>2 DEF Links, Chain
<1>4. ASSUME s # <<>> PROVE Chain(G, M, s) = G[s] \o Chain(G, M, Suffix(s, 1 + M[s]))
  <2> DEFINE h == CHOOSE f : Links(f, G, M, s)
             d == 1 + M[s]
             t == Suffix(s, d)
             g == CHOOSE f : Links(f, G, M, t)
  <2>1. Links(h, G, M, s)
    BY <1>1
  <2>2. Len(s) \in Nat \ {0} /\ 1 \in 1..Len(s) /\ Suffix(s, 1) = s
    BY <1>4, EmptySeq, SuffixEnds
  <2>3. d \in 1..Len(s) + 1
    BY <1>4, <2>2 DEF Takes
  <2> HIDE DEF h
  <2>4. h[1] = G[s] \o h[d]
    BY <2>1, <2>2 DEF Links
  <2> HIDE DEF d
  <2>5. t \in Seq(S)
    BY <2>3, SuffixElements
  <2>6. Links(g, G, M, t)
    BY <1>1, <2>5
  <2> HIDE DEF g
  <2>7. h[d] = g[1]
    BY <2>1, <2>3, <2>6, LinksShift
  <2>8. QED
    BY <2>4, <2>7 DEF Chain, h, g, d
<1>5. QED
  BY <1>2, <1>3, <1>4 DEF Unfolds

\* It is a sequence.
LEMMA ChainType ==
  ASSUME NEW S, NEW T, NEW G \in [Seq(S) -> Seq(T)], NEW M, Takes(M, S), NEW s \in Seq(S)
  PROVE  Chain(G, M, s) \in Seq(T)
BY ChainUnfolds

\* Of nothing it is nothing.
LEMMA ChainEmpty ==
  ASSUME NEW S, NEW T, NEW G \in [Seq(S) -> Seq(T)], NEW M, Takes(M, S)
  PROVE  Chain(G, M, <<>>) = <<>>
<1>1. <<>> \in Seq(S)
  BY EmptySeq
<1>2. QED
  BY <1>1, ChainUnfolds

\* One that is defined for some places more.
Extends(h, G, M, s, c, T) ==
  /\ h = [i \in 1..Len(s) + c |-> h[i]] /\ \A i \in 1..Len(s) + c : h[i] \in Seq(T)
  /\ \A i \in 1..Len(s) + c : i > Len(s) => h[i] = <<>>
  /\ \A i \in 1..Len(s) : h[i] = G[Suffix(s, i)] \o h[i + M[Suffix(s, i)]]
\* What is after i and not before the end is the end.
LEMMA LastPlace ==
  \A i \in Nat, n \in Nat : \A j \in (i + 1)..(n + 1) : j \notin 1..n => j = n + 1
OBVIOUS

\* There is one, for any number of places.
LEMMA LinksExtend ==
  ASSUME NEW S, NEW T, NEW G \in [Seq(S) -> Seq(T)], NEW M, Takes(M, S), NEW s \in Seq(S),
         NEW c \in Nat \ {0}
  PROVE  \E h : Extends(h, G, M, s, c, T)
<1> DEFINE n == Len(s)
<1>1. n \in Nat
  BY LenProperties
<1>2. PICK g \in [1..n + 1 -> Seq(T)] : Links(g, G, M, s)
  BY LinksExist
<1> DEFINE h == [i \in 1..n + c |-> IF i <= n THEN g[i] ELSE <<>>]
<1>h. h = [i \in 1..n + c |-> h[i]]
  OBVIOUS
<1>3. (\A i \in 1..n : h[i] = g[i]) /\ \A i \in 1..n + c : i > n => h[i] = <<>>
  BY <1>1
<1> HIDE DEF h
<1>4. ASSUME NEW i \in 1..n + c PROVE h[i] \in Seq(T)
  <2>1. CASE i \in 1..n
    <3>1. i \in 1..n + 1
      BY <1>1, <2>1
    <3>2. QED
      BY <1>2, <1>3, <2>1, <3>1
  <2>2. CASE i \notin 1..n
    <3>1. i > n
      BY <1>1, <2>2
    <3>2. QED
      BY <1>3, <3>1, EmptySeq
  <2>3. QED
    BY <2>1, <2>2
<1>5. ASSUME NEW i \in 1..n PROVE h[i] = G[Suffix(s, i)] \o h[i + M[Suffix(s, i)]]
  <2> DEFINE j == i + M[Suffix(s, i)]
  <2>1. j \in (i + 1)..(n + 1)
    BY TakesWithin
  <2>2. g[i] = G[Suffix(s, i)] \o g[j] /\ g[n + 1] = <<>>
    BY <1>2 DEF Links
  <2> HIDE DEF j
  <2>3. h[j] = g[j]
    <3>1. CASE j \in 1..n
      BY <1>3, <3>1
    <3>2. CASE j \notin 1..n
      <4>0. i \in Nat /\ c \in Nat /\ c >= 1
        OBVIOUS
      <4>1. j = n + 1
        BY <1>1, <2>1, <3>2, <4>0, LastPlace
      <4>3. n + 1 \in 1..n + c /\ n + 1 > n
        BY ONLY <1>1, <4>0
      <4>2. QED
        BY <1>3, <2>2, <4>1, <4>3
    <3>3. QED
      BY <3>1, <3>2
  <2>4. QED
    BY <1>3, <2>2, <2>3 DEF j
<1>6. Extends(h, G, M, s, c, T)
  BY <1>h, <1>3, <1>4, <1>5 DEF Extends
<1>7. QED
  BY <1>6

\* A function that does so where what it makes of the rest is a sequence.
Runs(f, G, M, s, T) ==
  /\ f[Len(s) + 1] = <<>>
  /\ \A i \in 1..Len(s) :
       f[i + M[Suffix(s, i)]] \in Seq(T) => f[i] = G[Suffix(s, i)] \o f[i + M[Suffix(s, i)]]
\* It does so everywhere.
LEMMA ChainIs ==
  ASSUME NEW S, NEW T, NEW G \in [Seq(S) -> Seq(T)], NEW M, Takes(M, S), NEW s \in Seq(S),
         NEW f, Runs(f, G, M, s, T)
  PROVE  f[1] = Chain(G, M, s)
<1> DEFINE n == Len(s)
           P == {i \in 1..n + 1 : f[i] = Chain(G, M, Suffix(s, i))}
<1>1. n \in Nat
  BY LenProperties
<1>2. f[n + 1] = <<>> /\ Suffix(s, n + 1) = <<>>
  BY SuffixEnds DEF Runs
<1>3. ASSUME NEW i \in 1..n
      PROVE  /\ i + M[Suffix(s, i)] \in (i + 1)..(n + 1) /\ M[Suffix(s, i)] \in Nat
             /\ Suffix(s, i) \in Seq(S) /\ Suffix(s, i) # <<>> /\ Len(Suffix(s, i)) = n + 1 - i
  BY TakesWithin
<1>4. ASSUME NEW i \in 1..n, f[i + M[Suffix(s, i)]] \in Seq(T)
      PROVE  f[i] = G[Suffix(s, i)] \o f[i + M[Suffix(s, i)]]
  BY <1>4 DEF Runs
<1> HIDE DEF n
<1>5. ASSUME NEW i \in 1..n + 1, \A k \in (i + 1)..(n + 1) : k \in P PROVE i \in P
  <2>1. CASE i = n + 1
    BY <1>2, <2>1, ChainEmpty
  <2>2. CASE i # n + 1
    <3> DEFINE t == Suffix(s, i)
               m == M[t]
               j == i + m
    <3>1. i \in 1..n
      BY <1>1, <2>2
    <3>2. j \in (i + 1)..(n + 1) /\ m \in Nat /\ t \in Seq(S) /\ t # <<>> /\ Len(t) = n + 1 - i
      BY <1>3, <3>1
    <3>3. f[j] = Chain(G, M, Suffix(s, j))
      BY <1>5, <3>2
    <3>4. Suffix(t, 1 + m) = Suffix(s, j)
      <4>1. 1 + m \in 1..Len(s) + 2 - i /\ i + (1 + m) - 1 = j
        BY <1>1, <3>1, <3>2 DEF n
      <4>2. i \in 1..Len(s) + 1
        BY DEF n
      <4> DEFINE k == 1 + m
      <4> HIDE DEF k, j, m
      <4>3. k \in 1..Len(s) + 2 - i /\ i + k - 1 = j
        BY <4>1 DEF k
      <4>4. Suffix(t, k) = Suffix(s, i + k - 1)
        BY <4>2, <4>3, SuffixOfSuffix
      <4>5. QED
        BY <4>3, <4>4 DEF k
    <3>5. Suffix(s, j) \in Seq(S)
      <4>1. j \in 1..Len(s) + 1
        BY <1>1, <3>1, <3>2 DEF n
      <4> HIDE DEF j
      <4>2. QED
        BY <4>1, SuffixElements
    <3>6. f[j] \in Seq(T)
      <4> DEFINE u == Suffix(s, j)
      <4>1. u \in Seq(S) /\ f[j] = Chain(G, M, u)
        BY <3>3, <3>5
      <4> HIDE DEF u
      <4>2. Chain(G, M, u) \in Seq(T)
        BY ONLY <4>1, G \in [Seq(S) -> Seq(T)], Takes(M, S), ChainType
      <4>3. QED
        BY <4>1, <4>2
    <3>7. f[i] = G[t] \o f[j]
      BY <1>4, <3>1, <3>6
    <3>8. Chain(G, M, t) = G[t] \o Chain(G, M, Suffix(t, 1 + m))
      <4>1. Unfolds(G, M, t)
        BY <3>2, ChainUnfolds
      <4>2. QED
        BY <3>2, <4>1 DEF Unfolds
    <3>9. f[i] = Chain(G, M, t)
      BY <3>3, <3>4, <3>7, <3>8
    <3>10. QED
      BY <3>9
  <2>3. QED
    BY <2>1, <2>2
<1>6. 1 \in P
  <2>1. n + 1 \in Nat /\ 1 \in 1..n + 1
    BY <1>1
  <2> HIDE DEF P
  <2>2. \A i \in 1..n + 1 : i \in P
    BY <1>5, <2>1, DownInduction
  <2>3. QED
    BY <2>1, <2>2
<1>7. QED
  BY <1>6, SuffixEnds

-----------------------------------------------------------------------------
(* Recursive functions that take a sequence element by element and keep a  *)
(* value of V.                                                             *)

FoldsTo(f, step, start, s) ==
  f[0] = start /\ \A k \in 1..Len(s) : f[k] = step[f[k - 1], s[k]]

Fold(step, start, s) == (CHOOSE f : FoldsTo(f, step, start, s))[Len(s)]

\* What takes a value and an element to a value.
Steps(step, V, E) == \A v \in V, e \in E : step[v, e] \in V

\* The first n values for the elements of s.
ValuesOf(f, step, start, s, n, V) ==
  (\A k \in 0..n : f[k] \in V) /\ f[0] = start /\ \A k \in 1..n : f[k] = step[f[k - 1], s[k]]

\* The same, where the value before is in V.
Follows(g, step, start, s, n, V) ==
  g[0] = start /\ \A k \in 1..n : g[k - 1] \in V => g[k] = step[g[k - 1], s[k]]

\* There is such a function.
LEMMA FoldExists ==
  ASSUME NEW V, NEW E, NEW step, Steps(step, V, E), NEW start \in V, NEW s \in Seq(E)
  PROVE  \E f : ValuesOf(f, step, start, s, Len(s), V)
<1> DEFINE n == Len(s)
           Some(m) == \E f : ValuesOf(f, step, start, s, m, V)
           P == {m \in Nat : m <= n => Some(m)}
<1>1. n \in Nat /\ \A k \in 1..n : s[k] \in E
  BY LenProperties, ElementOfSeq
<1> HIDE DEF n
<1>2. Some(0)
  <2> DEFINE f == [k \in 0..0 |-> start]
  <2>1. ValuesOf(f, step, start, s, 0, V)
    BY DEF ValuesOf
  <2>2. QED
    BY <2>1
<1>3. ASSUME NEW m \in Nat, m + 1 <= n, Some(m) PROVE Some(m + 1)
  <2>1. PICK f : ValuesOf(f, step, start, s, m, V)
    BY <1>3
  <2> DEFINE v == step[f[m], s[m + 1]]
             g == [k \in 0..(m + 1) |-> IF k <= m THEN f[k] ELSE v]
  <2>2. v \in V
    <3>1. f[m] \in V /\ s[m + 1] \in E
      <4>1. m \in 0..m /\ m + 1 \in 1..n
        BY <1>1, <1>3
      <4>2. QED
        BY <1>1, <2>1, <4>1 DEF ValuesOf
    <3>2. QED
      BY <3>1 DEF Steps
  <2> HIDE DEF v
  <2>3. (\A k \in 0..m : g[k] = f[k]) /\ g[m + 1] = v
    OBVIOUS
  <2> HIDE DEF g
  <2>4. \A k \in 0..(m + 1) : g[k] \in V
    <3> SUFFICES ASSUME NEW k \in 0..(m + 1) PROVE g[k] \in V
      OBVIOUS
    <3>1. k \in 0..m \/ k = m + 1
      OBVIOUS
    <3>2. QED
      BY <2>1, <2>2, <2>3, <3>1 DEF ValuesOf
  <2>5. ASSUME NEW k \in 1..(m + 1) PROVE g[k] = step[g[k - 1], s[k]]
    <3>1. CASE k <= m
      <4>1. k \in 1..m /\ k \in 0..m /\ k - 1 \in 0..m
        BY <3>1
      <4>2. g[k] = f[k] /\ g[k - 1] = f[k - 1]
        BY <2>3, <4>1
      <4>3. f[k] = step[f[k - 1], s[k]]
        BY <2>1, <4>1 DEF ValuesOf
      <4>4. QED
        BY <4>2, <4>3
    <3>2. CASE k = m + 1
      <4>1. k - 1 = m /\ m \in 0..m
        BY <3>2
      <4>2. g[k] = step[f[m], s[k]] /\ g[k - 1] = f[m]
        BY <2>3, <3>2, <4>1 DEF v
      <4>3. QED
        BY <4>2
    <3>3. k <= m \/ k = m + 1
      OBVIOUS
    <3>4. QED
      BY <3>1, <3>2, <3>3
  <2>6. g[0] = start
    <3>1. 0 \in 0..m
      OBVIOUS
    <3>2. QED
      BY <2>1, <2>3, <3>1 DEF ValuesOf
  <2>7. ValuesOf(g, step, start, s, m + 1, V)
    BY <2>4, <2>5, <2>6 DEF ValuesOf
  <2>8. QED
    BY <2>7
<1> HIDE DEF Some
<1>4. 0 \in P /\ P \subseteq Nat /\ \A m \in P : m + 1 \in P
  BY <1>1, <1>2, <1>3
<1> HIDE DEF P
<1>5. P = Nat
  BY <1>4, NatSetInduction
<1>6. n \in P
  BY <1>1, <1>5
<1>7. QED
  BY <1>1, <1>6 DEF P, Some, n

\* Two that agree so far agree.
LEMMA FoldsAgree ==
  ASSUME NEW V, NEW step, NEW start, NEW n \in Nat, NEW s, NEW t, \A k \in 1..n : s[k] = t[k],
         NEW f, ValuesOf(f, step, start, s, n, V), NEW g, Follows(g, step, start, t, n, V)
  PROVE  f[n] = g[n]
<1> DEFINE P == {k \in Nat : k <= n => f[k] = g[k]}
<1>1. f[0] = g[0]
  BY DEF ValuesOf, Follows
<1>2. ASSUME NEW m \in Nat, m + 1 <= n, f[m] = g[m] PROVE f[m + 1] = g[m + 1]
  <2> DEFINE k == m + 1
  <2>1. k \in 1..n /\ k - 1 = m /\ m \in 0..n
    BY <1>2
  <2> HIDE DEF k
  <2>2. f[k] = step[f[m], s[k]] /\ f[m] \in V
    BY <2>1 DEF ValuesOf
  <2>3. g[k] = step[g[m], t[k]]
    BY <1>2, <2>1, <2>2 DEF Follows
  <2>4. s[k] = t[k]
    BY <2>1
  <2>5. QED
    BY <1>2, <2>2, <2>3, <2>4 DEF k
<1>3. 0 \in P /\ P \subseteq Nat /\ \A m \in P : m + 1 \in P
  BY <1>1, <1>2
<1> HIDE DEF P
<1>4. n \in P
  BY <1>3, NatSetInduction
<1>5. QED
  BY <1>4 DEF P

\* A function that keeps to the step while its values are in V ends with the fold.
LEMMA FoldIs ==
  ASSUME NEW V, NEW E, NEW step, Steps(step, V, E), NEW start \in V, NEW s \in Seq(E),
         NEW g, Follows(g, step, start, s, Len(s), V)
  PROVE  g[Len(s)] = Fold(step, start, s)
<1> DEFINE h == CHOOSE f : FoldsTo(f, step, start, s)
           n == Len(s)
<1>1. PICK f : ValuesOf(f, step, start, s, n, V)
  BY FoldExists
<1>2. FoldsTo(f, step, start, s)
  BY <1>1 DEF FoldsTo, ValuesOf
<1>3. FoldsTo(h, step, start, s)
  BY <1>2
<1> HIDE DEF h
<1>4. Follows(h, step, start, s, n, V)
  BY <1>3 DEF FoldsTo, Follows
<1>5. n \in Nat /\ \A k \in 1..n : s[k] = s[k]
  BY LenProperties
<1>6. Follows(g, step, start, s, n, V)
  OBVIOUS
<1> HIDE DEF n
<1>7. f[n] = g[n]
  BY <1>1, <1>5, <1>6, FoldsAgree
<1>8. f[n] = h[n]
  BY <1>1, <1>4, <1>5, FoldsAgree
<1>9. QED
  BY <1>7, <1>8 DEF Fold, h, n

\* Of nothing.
LEMMA FoldEmpty ==
  ASSUME NEW V, NEW E, NEW step, Steps(step, V, E), NEW start \in V
  PROVE  Fold(step, start, <<>>) = start
<1> DEFINE h == [k \in 0..0 |-> start]
<1>1. <<>> \in Seq(E) /\ Len(<<>>) = 0
  BY EmptySeq
<1>2. h[0] = start /\ Follows(h, step, start, <<>>, 0, V)
  BY DEF Follows
<1> HIDE DEF h
<1>3. Follows(h, step, start, <<>>, Len(<<>>), V)
  BY <1>1, <1>2
<1>4. h[Len(<<>>)] = Fold(step, start, <<>>)
  <2> DEFINE z == <<>>
  <2>1. z \in Seq(E) /\ Follows(h, step, start, z, Len(z), V)
    BY <1>1, <1>3
  <2> HIDE DEF z
  <2>2. h[Len(z)] = Fold(step, start, z)
    BY <2>1, FoldIs
  <2>3. QED
    BY <2>2 DEF z
<1>5. QED
  BY <1>1, <1>2, <1>4

\* Of one element more.
FoldsOn(step, start, s, e, V) ==
  /\ Fold(step, start, s) \in V
  /\ Fold(step, start, Append(s, e)) = step[Fold(step, start, s), e]
\* It is one step more.
LEMMA FoldAppend ==
  ASSUME NEW V, NEW E, NEW step, Steps(step, V, E), NEW start \in V, NEW s \in Seq(E), NEW e \in E
  PROVE  FoldsOn(step, start, s, e, V)
<1> DEFINE t == Append(s, e)
           n == Len(s)
           k == n + 1
<1>1. n \in Nat /\ k \in 1..k /\ k - 1 = n /\ n \in 0..n
  BY LenProperties
<1>2. t \in Seq(E) /\ Len(t) = k /\ (\A i \in 1..n : t[i] = s[i]) /\ t[k] = e
  BY AppendProperties
<1> HIDE DEF t
<1>3. PICK f : ValuesOf(f, step, start, s, n, V)
  BY FoldExists
<1>4. Follows(f, step, start, s, n, V)
  BY <1>3 DEF ValuesOf, Follows
<1>5. f[n] = Fold(step, start, s)
  BY <1>4, FoldIs
<1>6. f[n] \in V
  BY <1>1, <1>3 DEF ValuesOf
<1>7. PICK g : ValuesOf(g, step, start, t, k, V)
  BY <1>2, FoldExists
<1>8. Follows(g, step, start, t, Len(t), V)
  BY <1>2, <1>7 DEF ValuesOf, Follows
<1>9. g[Len(t)] = Fold(step, start, t)
  BY <1>2, <1>8, FoldIs
<1>10. Follows(g, step, start, t, n, V)
  <2>1. \A i \in 1..n : i \in 1..k
    BY <1>1
  <2> HIDE DEF n, k
  <2>2. QED
    BY <1>7, <2>1 DEF ValuesOf, Follows
<1>11. \A i \in 1..n : s[i] = t[i]
  BY <1>2
<1> HIDE DEF n, k
<1>12. f[n] = g[n]
  BY <1>1, <1>3, <1>10, <1>11, FoldsAgree
<1>13. g[k] = step[g[n], e]
  <2>1. g[k] = step[g[k - 1], t[k]]
    BY <1>1, <1>7 DEF ValuesOf
  <2>2. QED
    BY <1>1, <1>2, <2>1
<1>14. QED
  BY <1>2, <1>5, <1>6, <1>9, <1>12, <1>13 DEF t, FoldsOn

-----------------------------------------------------------------------------
(* Filters, and parts. *)

\* A set of naturals has a smallest one.
LEMMA Smallest ==
  ASSUME NEW K, K \subseteq Nat, K # {}
  PROVE  \E m \in K : \A k \in K : m <= k
<1>1. IsWellFoundedOn(Below, Nat)
  <2>1. Below = OpToRel(<, Nat)
    BY DEF Below, OpToRel
  <2>2. QED
    BY <2>1, NatLessThanWellFounded
<1>2. PICK m \in K : \A k \in K : <<k, m>> \notin Below
  BY <1>1, WFMin
<1>3. ASSUME NEW k \in K PROVE m <= k
  <2> SUFFICES ASSUME k < m PROVE FALSE
    OBVIOUS
  <2>1. <<k, m>> \in Nat \X Nat /\ <<k, m>>[1] < <<k, m>>[2]
    OBVIOUS
  <2>2. <<k, m>> \in Below
    BY <2>1 DEF Below
  <2>3. QED
    BY <1>2, <2>2
<1>4. QED
  BY <1>3

\* What keeps some elements and drops the others.
Keeps(F, S) == F \in [S -> Seq(S)] /\ \A e \in S : F[e] = <<e>> \/ F[e] = <<>>

\* In which order two filters are applied does not matter.
LEMMA FiltersCommute ==
  ASSUME NEW S, NEW F, Keeps(F, S), NEW G, Keeps(G, S), NEW s \in Seq(S)
  PROVE  FlatMap(F, FlatMap(G, s)) = FlatMap(G, FlatMap(F, s))
<1> DEFINE P == {t \in Seq(S) : FlatMap(F, FlatMap(G, t)) = FlatMap(G, FlatMap(F, t))}
<1>1. F \in [S -> Seq(S)] /\ G \in [S -> Seq(S)]
  BY DEF Keeps
<1>2. <<>> \in P
  <2>1. <<>> \in Seq(S)
    BY EmptySeq
  <2>2. QED
    BY <2>1, FlatMapEmpty
<1>3. ASSUME NEW t \in P, NEW e \in S PROVE Append(t, e) \in P
  <2> DEFINE u == <<e>>
             a == FlatMap(F, t)
             b == FlatMap(G, t)
  <2>1. t \in Seq(S) /\ u \in Seq(S) /\ FlatMap(F, b) = FlatMap(G, a)
    OBVIOUS
  <2>2. a \in Seq(S) /\ b \in Seq(S) /\ F[e] \in Seq(S) /\ G[e] \in Seq(S)
    BY <1>1, <2>1, FlatMapType
  <2>3. Append(t, e) = t \o u
    BY <2>1, AppendIsConcat
  <2>4. FlatMap(F, u) = F[e] /\ FlatMap(G, u) = G[e]
    BY <1>1, FlatMapOne
  <2> HIDE DEF u
  <2>5. FlatMap(F, t \o u) = a \o F[e] /\ FlatMap(G, t \o u) = b \o G[e]
    <3>1. FlatJoins(F, t, u) /\ FlatJoins(G, t, u)
      BY <1>1, <2>1, FlatMapJoin
    <3>2. QED
      BY <2>4, <3>1 DEF FlatJoins
  <2> HIDE DEF a, b
  <2>f. FlatJoins(F, b, G[e]) /\ FlatJoins(G, a, F[e])
    BY <1>1, <2>2, FlatMapJoin
  <2>6. FlatMap(F, b \o G[e]) = FlatMap(F, b) \o FlatMap(F, G[e])
    BY <2>f DEF FlatJoins
  <2>7. FlatMap(G, a \o F[e]) = FlatMap(G, a) \o FlatMap(G, F[e])
    BY <2>f DEF FlatJoins
  <2>8. FlatMap(F, G[e]) = FlatMap(G, F[e])
    <3>1. (F[e] = u \/ F[e] = <<>>) /\ (G[e] = u \/ G[e] = <<>>)
      BY DEF Keeps, u
    <3>2. FlatMap(F, <<>>) = <<>> /\ FlatMap(G, <<>>) = <<>>
      BY FlatMapEmpty
    <3>3. QED
      BY <2>4, <3>1, <3>2
  <2>9. Append(t, e) \in Seq(S)
    BY <2>1, AppendProperties
  <2>10. QED
    BY <2>1, <2>3, <2>5, <2>6, <2>7, <2>8, <2>9
<1>4. P \subseteq Seq(S)
  OBVIOUS
<1> HIDE DEF P
<1>5. P = Seq(S)
  BY <1>2, <1>3, <1>4, AppendInduction
<1>6. QED
  BY <1>5 DEF P

\* A sequence whose elements are in T.
LEMMA ElementsIn ==
  ASSUME NEW S, NEW T, NEW s \in Seq(S), \A i \in 1..Len(s) : s[i] \in T
  PROVE  s \in Seq(T)
<1>1. Len(s) \in Nat /\ s \in [1..Len(s) -> S] /\ DOMAIN s = 1..Len(s)
  BY LenProperties
<1>2. s \in [1..Len(s) -> T]
  BY <1>1
<1>3. QED
  BY <1>1, <1>2

\* A beginning of what is after a place.
LEMMA PartOfSuffix ==
  ASSUME NEW S, NEW s \in Seq(S), NEW i \in 1..Len(s) + 1, NEW k \in 0..Len(s) + 1 - i
  PROVE  /\ SubSeq(Suffix(s, i), 1, k) = SubSeq(s, i, i + k - 1)
         /\ SubSeq(s, i, i + k - 1) \in Seq(S) /\ Len(SubSeq(s, i, i + k - 1)) = k
         /\ \A m \in 1..k : SubSeq(s, i, i + k - 1)[m] = s[i + m - 1]
<1> DEFINE t == Suffix(s, i)
           h == i + k - 1
           u == SubSeq(s, i, h)
           v == SubSeq(t, 1, k)
<1>1. Len(s) \in Nat
  BY LenProperties
<1>2. t \in Seq(S) /\ Len(t) = Len(s) + 1 - i /\ \A m \in 1..(Len(s) + 1 - i) : t[m] = s[i + m - 1]
  BY SuffixElements
<1> HIDE DEF t
<1>3. u \in Seq(S) /\ Len(u) = k /\ \A m \in 1..k : u[m] = s[i + m - 1]
  <2>1. i \in Int /\ h \in Int /\ h - i + 1 = k /\ (~(i <= h) => k = 0)
    BY <1>1
  <2>2. \A m \in i..h : s[m] \in S
    BY <1>1, ElementOfSeq
  <2> HIDE DEF h
  <2>3. /\ SubSeq(s, i, h) \in Seq(S) /\ Len(SubSeq(s, i, h)) = IF i <= h THEN h - i + 1 ELSE 0
        /\ \A m \in 1..(h - i + 1) : SubSeq(s, i, h)[m] = s[i + m - 1]
    BY <2>1, <2>2, SubSeqProperties
  <2>4. QED
    BY <2>1, <2>3
<1>4. v \in Seq(S) /\ Len(v) = k /\ \A m \in 1..k : v[m] = t[m]
  <2>1. \A m \in 1..k : t[m] \in S
    BY <1>1, <1>2, ElementOfSeq
  <2>2. /\ SubSeq(t, 1, k) \in Seq(S) /\ Len(SubSeq(t, 1, k)) = IF 1 <= k THEN k - 1 + 1 ELSE 0
        /\ \A m \in 1..(k - 1 + 1) : SubSeq(t, 1, k)[m] = t[1 + m - 1]
    BY <1>1, <2>1, SubSeqProperties
  <2>3. \A m \in 1..k : m \in 1..(k - 1 + 1) /\ 1 + m - 1 = m
    BY <1>1
  <2>4. QED
    BY <1>1, <2>2, <2>3
<1> HIDE DEF u, v
<1>5. \A m \in 1..k : u[m] = v[m]
  <2> SUFFICES ASSUME NEW m \in 1..k PROVE u[m] = v[m]
    OBVIOUS
  <2>1. m \in 1..(Len(s) + 1 - i)
    BY <1>1
  <2>2. v[m] = t[m] /\ u[m] = s[i + m - 1]
    BY <1>3, <1>4
  <2>3. QED
    BY <1>2, <2>1, <2>2
<1>6. u = v
  BY <1>3, <1>4, <1>5, SeqEqual
<1>7. QED
  BY <1>3, <1>6 DEF u, v, t

\* What comes before t in s \o t.
LEMMA PrefixOfJoin ==
  ASSUME NEW S, NEW s \in Seq(S), NEW t \in Seq(S)
  PROVE  SubSeq(s \o t, 1, Len(s)) = s
<1> DEFINE u == s \o t
<1>1. Len(s) \in Nat /\ Len(t) \in Nat
  BY LenProperties
<1>2. /\ u \in Seq(S) /\ Len(u) = Len(s) + Len(t)
      /\ \A i \in 1..Len(s) + Len(t) : u[i] = IF i <= Len(s) THEN s[i] ELSE t[i - Len(s)]
  BY ConcatProperties
<1> HIDE DEF u
<1>3. \A i \in 1..Len(s) : u[i] = s[i] /\ s[i] \in S
  <2>1. \A i \in 1..Len(s) : i \in 1..Len(s) + Len(t) /\ i <= Len(s)
    BY <1>1
  <2>2. QED
    BY <1>2, <2>1, ElementOfSeq
<1> DEFINE v == SubSeq(u, 1, Len(s))
<1>4. v \in Seq(S) /\ Len(v) = Len(s) /\ \A i \in 1..Len(s) : v[i] = u[i]
  <2>1. /\ SubSeq(u, 1, Len(s)) \in Seq(S)
        /\ Len(SubSeq(u, 1, Len(s))) = IF 1 <= Len(s) THEN Len(s) - 1 + 1 ELSE 0
        /\ \A i \in 1..(Len(s) - 1 + 1) : SubSeq(u, 1, Len(s))[i] = u[1 + i - 1]
    BY <1>1, <1>3, SubSeqProperties
  <2>2. \A i \in 1..Len(s) : i \in 1..(Len(s) - 1 + 1) /\ 1 + i - 1 = i
    BY <1>1
  <2>3. (IF 1 <= Len(s) THEN Len(s) - 1 + 1 ELSE 0) = Len(s)
    BY <1>1
  <2> HIDE DEF v
  <2>4. QED
    BY <2>1, <2>2, <2>3 DEF v
<1> HIDE DEF v
<1>5. v = s
  BY <1>3, <1>4, SeqEqual
<1>6. QED
  BY <1>5 DEF u, v

\* What holds of the words, which are without c, and of a word, c, and what it
\* holds of, holds of all sequences.
Words(P, c, S) ==
  P \subseteq Seq(S) /\ c \in S /\ Seq(S \ {c}) \subseteq P
  /\ \A a \in Seq(S \ {c}), t \in P : a \o (<<c>> \o t) \in P
\* It does.
LEMMA WordInduction ==
  ASSUME NEW S, NEW c, NEW P, Words(P, c, S)
  PROVE  P = Seq(S)
<1> DEFINE W == Seq(S \ {c})
           Split(s) == \E a \in W, t \in P : s = a \o (<<c>> \o t)
           R == {s \in Seq(S) : s \in W \/ Split(s)}
<1>0. c \in S /\ W \subseteq P /\ P \subseteq Seq(S) /\ \A a \in W, t \in P : a \o (<<c>> \o t) \in P
  BY DEF Words
<1>1. R \subseteq Seq(S) /\ R \subseteq P
  BY <1>0
<1>2. <<>> \in R
  BY EmptySeq
<1>3. ASSUME NEW s \in R, NEW e \in S PROVE <<e>> \o s \in R
  <2>1. <<e>> \o s \in Seq(S)
    BY ConsElements
  <2>2. CASE e = c
    <3>1. s \in P /\ s \in Seq(S) /\ <<>> \in W
      BY <1>1, EmptySeq
    <3>2. <<>> \o (<<c>> \o s) = <<c>> \o s
      BY <2>1, <2>2, ConcatEmptySeq
    <3>3. QED
      BY <2>1, <2>2, <3>1, <3>2
  <2>3. CASE e # c /\ s \in W
    <3>1. e \in S \ {c}
      BY <2>3
    <3>2. <<e>> \o s \in W
      BY <2>3, <3>1, ConsElements
    <3>3. QED
      BY <2>1, <3>2
  <2>4. CASE e # c /\ Split(s)
    <3>1. PICK a \in W, t \in P : s = a \o (<<c>> \o t)
      BY <2>4
    <3>2. e \in S \ {c}
      BY <2>4
    <3>3. <<e>> \o a \in W
      BY <3>2, ConsElements
    <3> DEFINE r == <<c>> \o t
               w == <<e>>
    <3>4. r \in Seq(S) /\ w \in Seq(S) /\ a \in Seq(S)
      <4>1. S \ {c} \subseteq S /\ t \in Seq(S)
        BY <1>0
      <4>2. a \in Seq(S)
        BY <4>1
      <4>3. QED
        BY <1>0, <4>1, <4>2, ConsElements, One
    <3> HIDE DEF r, w
    <3>5. (w \o a) \o r = w \o (a \o r)
      <4>1. Associates(w, a, r)
        BY <3>4, JoinAssociates
      <4>2. QED
        BY <4>1 DEF Associates
    <3>6. <<e>> \o s = (<<e>> \o a) \o (<<c>> \o t)
      BY <3>1, <3>5 DEF r, w
    <3>7. QED
      BY <2>1, <3>3, <3>6
  <2>5. s \in W \/ Split(s)
    OBVIOUS
  <2>6. QED
    BY <2>2, <2>3, <2>4, <2>5
<1>4. R = Seq(S)
  <2> HIDE DEF R
  <2>1. QED
    BY <1>1, <1>2, <1>3, ConsInduction
<1>5. QED
  BY <1>0, <1>1, <1>4

\* Two sequences with c between them: what is before, at and after it.
Between(a, c, t) == a \o (<<c>> \o t)
Parted(u, a, c, t, S) ==
  /\ u \in Seq(S) /\ Len(u) = Len(a) + Len(t) + 1 /\ Len(a) \in Nat /\ Len(t) \in Nat
  /\ u[Len(a) + 1] = c
  /\ (\A i \in 1..Len(a) : u[i] = a[i]) /\ \A i \in 1..Len(t) : u[Len(a) + 1 + i] = t[i]
  /\ SubSeq(u, 1, Len(a)) = a /\ Suffix(u, Len(a) + 2) = t
\* They are found there.
LEMMA BetweenParts ==
  ASSUME NEW S, NEW c \in S, NEW a \in Seq(S), NEW t \in Seq(S)
  PROVE  Parted(Between(a, c, t), a, c, t, S)
<1> DEFINE r == <<c>> \o t
           u == a \o r
           n == Len(a)
<1>1. n \in Nat /\ Len(t) \in Nat
  BY LenProperties
<1>2. r \in Seq(S) /\ Len(r) = Len(t) + 1 /\ r[1] = c /\ (\A i \in 1..Len(t) : r[i + 1] = t[i]) /\ Suffix(r, 2) = t
  BY ConsElements
<1> HIDE DEF r
<1>3. /\ u \in Seq(S) /\ Len(u) = n + Len(r)
      /\ \A i \in 1..n + Len(r) : u[i] = IF i <= n THEN a[i] ELSE r[i - n]
  BY <1>2, ConcatProperties
<1>4. SubSeq(u, 1, n) = a /\ Suffix(u, n + 1) = r
  BY <1>2, PrefixOfJoin, SuffixOfJoin
<1> HIDE DEF u
<1>5. Len(u) = n + Len(t) + 1
  BY <1>1, <1>2, <1>3
<1>6. u[n + 1] = c
  <2>1. n + 1 \in 1..n + Len(r) /\ ~(n + 1 <= n) /\ n + 1 - n = 1
    BY <1>1, <1>2
  <2>2. QED
    BY <1>2, <1>3, <2>1
<1>7. ASSUME NEW i \in 1..n PROVE u[i] = a[i]
  <2>1. i \in 1..n + Len(r) /\ i <= n
    BY <1>1, <1>2
  <2>2. QED
    BY <1>3, <2>1
<1>8. ASSUME NEW i \in 1..Len(t) PROVE u[n + 1 + i] = t[i]
  <2>1. n + 1 + i \in 1..n + Len(r) /\ ~(n + 1 + i <= n) /\ n + 1 + i - n = i + 1
    BY <1>1, <1>2
  <2>2. QED
    BY <1>2, <1>3, <2>1
<1>9. Suffix(u, n + 2) = t
  <2> DEFINE k == n + 1
  <2>1. k \in 1..Len(u) + 1 /\ 2 \in 1..Len(u) + 2 - k /\ k + 2 - 1 = n + 2
    BY <1>1, <1>5
  <2> HIDE DEF k
  <2>2. Suffix(Suffix(u, k), 2) = Suffix(u, k + 2 - 1)
    BY <1>3, <2>1, SuffixOfSuffix
  <2>3. Suffix(u, k) = r
    BY <1>4 DEF k
  <2>4. QED
    BY <1>2, <2>1, <2>2, <2>3
<1>10. QED
  BY <1>1, <1>3, <1>4, <1>5, <1>6, <1>7, <1>8, <1>9 DEF Parted, Between, u, r

\* Between three.
LEMMA BetweenThree ==
  ASSUME NEW S, NEW c \in S, NEW a \in Seq(S), NEW s \in Seq(S), NEW t \in Seq(S)
  PROVE  Between(Between(a, c, s), c, t) = Between(a, c, Between(s, c, t))
<1> DEFINE w == <<c>>
           x == w \o s
           y == w \o t
<1>1. w \in Seq(S)
  BY One
<1> HIDE DEF w
<1>2. x \in Seq(S) /\ y \in Seq(S)
  BY <1>1, ConcatProperties
<1>3. x \o y = w \o (s \o y)
  <2> HIDE DEF y
  <2>1. w \in Seq(S) /\ s \in Seq(S) /\ y \in Seq(S)
    BY <1>1, <1>2
  <2>2. Associates(w, s, y)
    BY <2>1, JoinAssociates
  <2>3. QED
    BY <2>2 DEF Associates
<1> HIDE DEF x
<1>4. (a \o x) \o y = a \o (x \o y)
  <2>1. a \in Seq(S) /\ x \in Seq(S) /\ y \in Seq(S)
    BY <1>2
  <2>2. Associates(a, x, y)
    BY <2>1, JoinAssociates
  <2>3. QED
    BY <2>2 DEF Associates
<1>5. (a \o (w \o s)) \o (w \o t) = a \o (w \o (s \o (w \o t)))
  BY <1>3, <1>4 DEF x, y
<1>6. QED
  BY <1>5 DEF Between, w

\* Two sequences of one element each make the sequence of the two.
LEMMA Pair == ASSUME NEW S, NEW x \in S, NEW y \in S PROVE <<x>> \o <<y>> = <<x, y>>
<1> DEFINE t == <<x>> v == <<y>> u == <<x,y>> w == t \o v
<1>1. t \in Seq(S) /\ v \in Seq(S) /\ u \in Seq(S)
  OBVIOUS
<1>2. Len(u) = 2 /\ u[1] = x /\ u[2] = y /\ Len(t) = 1 /\ t[1] = x /\ Len(v) = 1 /\ v[1] = y
  OBVIOUS
<1> HIDE DEF t, u, v
<1>3. w \in Seq(S) /\ Len(w) = 2 /\ w[1] = x /\ w[2] = y
  <2>1. w \in Seq(S) /\ Len(w) = 2
    BY <1>1, <1>2, ConcatProperties
  <2>2. w[1] = x
    BY <1>1, <1>2, ConcatProperties
  <2>3. w[2] = y
    BY <1>1, <1>2, ConcatProperties
  <2>4. QED
    BY <2>1, <2>2, <2>3
<1> HIDE DEF w
<1>4. \A i \in 1..2 : w[i] = u[i]
  <2>1. \A i \in 1..2 : i = 1 \/ i = 2
    OBVIOUS
  <2>2. QED BY <1>2, <1>3, <2>1
<1>5. w = u
  BY <1>1, <1>2, <1>3, <1>4, SeqEqual
<1>6. QED BY <1>5 DEF t, v, u, w

\* A part of t within s \o t.
SamePart(s, t, m, n, i, j) == SubSeq(s \o t, m, n) = SubSeq(t, i, j)
\* It is where s ends later.
LEMMA PartOfJoin ==
  ASSUME NEW S, NEW s \in Seq(S), NEW t \in Seq(S), NEW i \in 1..Len(t) + 1, NEW j \in (i - 1)..Len(t),
         NEW m, NEW n, m = Len(s) + i, n = Len(s) + j
  PROVE  SamePart(s, t, m, n, i, j)
<1> DEFINE w == s \o t
           x == SubSeq(w, m, n)
           y == SubSeq(t, i, j)
<1>1. Len(s) \in Nat /\ Len(t) \in Nat
  BY LenProperties
<1>2. w \in Seq(S) /\ Len(w) = Len(s) + Len(t) /\ \A k \in 1..Len(t) : w[Len(s) + k] = t[k]
  BY <1>1, ConcatProperties
<1> HIDE DEF w
<1>3. m \in 1..Len(w) + 1 /\ n \in (m - 1)..Len(w)
  BY <1>1, <1>2
<1>4. x \in Seq(S) /\ Len(x) = j - i + 1 /\ \A k \in 1..(j - i + 1) : x[k] = w[m + k - 1]
  BY <1>1, <1>2, <1>3, SubSeqProperties
<1>5. y \in Seq(S) /\ Len(y) = j - i + 1 /\ \A k \in 1..(j - i + 1) : y[k] = t[i + k - 1]
  BY <1>1, SubSeqProperties
<1> HIDE DEF x, y
<1>6. ASSUME NEW k \in 1..(j - i + 1) PROVE x[k] = y[k]
  <2> DEFINE a == i + k - 1
  <2>1. a \in 1..Len(t) /\ m + k - 1 = Len(s) + a
    BY <1>1
  <2>2. x[k] = w[Len(s) + a] /\ y[k] = t[a]
    BY <1>4, <1>5, <2>1
  <2> HIDE DEF a
  <2>3. QED
    BY <1>2, <2>1, <2>2
<1>7. x = y
  BY <1>4, <1>5, <1>6, SeqEqual
<1>8. QED
  BY <1>7 DEF x, y, w, SamePart

\* A sequence that is cut anywhere is its two parts.
LEMMA CutIsWhole ==
  ASSUME NEW S, NEW s \in Seq(S), NEW n \in 0..Len(s)
  PROVE  /\ SubSeq(s, 1, n) \in Seq(S) /\ Len(SubSeq(s, 1, n)) = n
         /\ Suffix(s, n + 1) \in Seq(S) /\ Len(Suffix(s, n + 1)) = Len(s) - n
         /\ s = SubSeq(s, 1, n) \o Suffix(s, n + 1)
<1> DEFINE x == SubSeq(s, 1, n)
           y == Suffix(s, n + 1)
           w == x \o y
<1>1. Len(s) \in Nat /\ n + 1 \in 1..Len(s) + 1
  BY LenProperties
<1>2. x \in Seq(S) /\ Len(x) = n /\ \A k \in 1..n : x[k] = s[k]
  <2>1. \A k \in 1..n : s[k] \in S
    BY <1>1, ElementOfSeq
  <2>2. QED
    BY <1>1, <2>1, SubSeqProperties
<1>3. y \in Seq(S) /\ Len(y) = Len(s) - n /\ \A k \in 1..(Len(s) - n) : y[k] = s[n + k]
  <2> DEFINE i == n + 1
  <2>1. i \in 1..Len(s) + 1 /\ Len(s) + 1 - i = Len(s) - n
    BY <1>1
  <2> HIDE DEF i
  <2>3. Suffix(s, i) \in Seq(S) /\ Len(Suffix(s, i)) = Len(s) + 1 - i
    BY ONLY <2>1, SuffixElements
  <2>4. \A k \in 1..(Len(s) + 1 - i) : Suffix(s, i)[k] = s[i + k - 1]
    BY ONLY <2>1, SuffixElements
  <2>5. y = Suffix(s, i)
    BY DEF i
  <2> HIDE DEF y
  <2>6. ASSUME NEW k \in 1..(Len(s) - n) PROVE y[k] = s[n + k]
    <3>1. k \in 1..(Len(s) + 1 - i) /\ k \in Int
      BY <2>1
    <3>2. y[k] = s[i + k - 1]
      BY <2>4, <2>5, <3>1
    <3>3. i + k - 1 = n + k
      BY <3>1 DEF i
    <3>4. QED
      BY <3>2, <3>3
  <2>7. QED
    BY <2>1, <2>3, <2>5, <2>6
<1> HIDE DEF x, y
<1>4. w \in Seq(S) /\ Len(w) = Len(s) /\ \A k \in 1..Len(s) : w[k] = IF k <= n THEN x[k] ELSE y[k - n]
  BY <1>1, <1>2, <1>3, ConcatProperties
<1> HIDE DEF w
<1>5. ASSUME NEW k \in 1..Len(s) PROVE w[k] = s[k]
  <2>1. CASE k <= n
    BY <1>2, <1>4, <2>1
  <2>2. CASE ~(k <= n)
    <3>1. k - n \in 1..(Len(s) - n) /\ n + (k - n) = k
      BY <1>1, <2>2
    <3>2. QED
      BY <1>3, <1>4, <2>2, <3>1
  <2>3. QED
    BY <2>1, <2>2
<1>6. w = s
  BY <1>4, <1>5, SeqEqual
<1>7. QED
  BY <1>2, <1>3, <1>6 DEF w, x, y

\* A set with the sequences shorter than n, and every one with n elements put
\* before one that it has, is all of them.
LEMMA BlockInduction ==
  ASSUME NEW S, NEW n \in Nat \ {0}, NEW P, P \subseteq Seq(S),
         \A s \in Seq(S) : Len(s) < n => s \in P,
         \A a \in Seq(S), t \in P : Len(a) = n => a \o t \in P
  PROVE  P = Seq(S)
<1> DEFINE Q == {m \in Nat : \A s \in Seq(S) : Len(s) <= m => s \in P}
<1>1. 0 \in Q /\ Q \subseteq Nat
  <2>1. \A s \in Seq(S) : Len(s) <= 0 => Len(s) < n
    BY LenProperties
  <2>2. QED
    BY <2>1
<1>2. ASSUME NEW m \in Q PROVE m + 1 \in Q
  <2> SUFFICES ASSUME NEW s \in Seq(S), Len(s) <= m + 1 PROVE s \in P
    OBVIOUS
  <2>1. CASE Len(s) < n
    BY <2>1
  <2>2. CASE ~(Len(s) < n)
    <3> DEFINE a == SubSeq(s, 1, n)
               t == Suffix(s, n + 1)
    <3>1. Len(s) \in Nat /\ n \in 0..Len(s)
      BY <2>2, LenProperties
    <3>2. a \in Seq(S) /\ Len(a) = n /\ t \in Seq(S) /\ Len(t) = Len(s) - n /\ s = a \o t
      BY <3>1, CutIsWhole
    <3> HIDE DEF a, t
    <3>3. Len(t) <= m
      BY <3>1, <3>2
    <3>4. t \in P
      BY <3>2, <3>3
    <3>5. QED
      BY <3>2, <3>4
  <2>3. QED
    BY <2>1, <2>2
<1>3. Q = Nat
  <2> HIDE DEF Q
  <2>1. QED
    BY <1>1, <1>2, NatSetInduction
<1>4. ASSUME NEW s \in Seq(S) PROVE s \in P
  <2>1. Len(s) \in Nat
    BY LenProperties
  <2>2. Len(s) \in Q
    <3> HIDE DEF Q
    <3>1. QED
      BY <1>3, <2>1
  <2>3. QED
    BY <2>1, <2>2
<1>5. QED
  BY <1>4

\* H makes of an element what F makes of what G makes of it.
Composes(H, F, G, S, T, U) ==
  /\ F \in [T -> Seq(U)] /\ G \in [S -> Seq(T)] /\ H \in [S -> Seq(U)]
  /\ \A e \in S : FlatMap(F, G[e]) = H[e]
\* One function after another, on all elements of a sequence.
LEMMA FlatMapCompose ==
  ASSUME NEW S, NEW T, NEW U, NEW F, NEW G, NEW H, Composes(H, F, G, S, T, U), NEW s \in Seq(S)
  PROVE  FlatMap(F, FlatMap(G, s)) = FlatMap(H, s)
<1>0. F \in [T -> Seq(U)] /\ G \in [S -> Seq(T)] /\ H \in [S -> Seq(U)] /\ \A e \in S : FlatMap(F, G[e]) = H[e]
  BY DEF Composes
<1> DEFINE P == {t \in Seq(S) : FlatMap(F, FlatMap(G, t)) = FlatMap(H, t)}
<1>1. <<>> \in P
  BY EmptySeq, FlatMapEmpty
<1>2. ASSUME NEW t \in P, NEW e \in S PROVE Append(t, e) \in P
  <2> DEFINE u == <<e>>
             a == FlatMap(G, t)
             b == FlatMap(G, u)
  <2>1. u \in Seq(S) /\ t \in Seq(S) /\ FlatMap(F, a) = FlatMap(H, t)
    BY One
  <2>a. b = G[e]
    <3> HIDE DEF P
    <3>1. G \in [S -> Seq(T)] /\ e \in S
      BY <1>0
    <3>2. QED
      BY ONLY <3>1, FlatMapOne
  <2>b. FlatMap(H, u) = H[e]
    <3> HIDE DEF P
    <3>1. H \in [S -> Seq(U)] /\ e \in S
      BY <1>0
    <3>2. QED
      BY ONLY <3>1, FlatMapOne
  <2>2. b = G[e] /\ FlatMap(H, u) = H[e]
    BY <2>a, <2>b
  <2>3. Append(t, e) = t \o u /\ Append(t, e) \in Seq(S)
    BY <2>1, AppendIsConcat, AppendProperties
  <2>4. FlatMap(F, b) = FlatMap(H, u)
    BY <1>0, <2>2
  <2> HIDE DEF u
  <2>5. a \in Seq(T) /\ b \in Seq(T)
    BY <1>0, <2>1, FlatMapType
  <2>6. FlatJoins(G, t, u)
    BY <1>0, <2>1, FlatMapJoin
  <2>7. FlatJoins(H, t, u)
    BY <1>0, <2>1, FlatMapJoin
  <2>8. FlatMap(G, t \o u) = a \o b
    BY <2>6 DEF FlatJoins
  <2> HIDE DEF a, b
  <2>9. FlatJoins(F, a, b)
    BY <1>0, <2>5, FlatMapJoin
  <2>10. QED
    BY <2>1, <2>3, <2>4, <2>7, <2>8, <2>9 DEF FlatJoins, a
<1>3. P \subseteq Seq(S)
  OBVIOUS
<1> HIDE DEF P
<1>4. P = Seq(S)
  BY <1>1, <1>2, <1>3, AppendInduction
<1>5. QED
  BY <1>4 DEF P

\* Elements taken one by one.
LEMMA SinglesFlatten ==
  ASSUME NEW S, NEW F \in [S -> Seq(S)], \A e \in S : F[e] = <<e>>, NEW s \in Seq(S)
  PROVE  FlatMap(F, s) = s
<1> DEFINE P == {t \in Seq(S) : FlatMap(F, t) = t}
<1>1. <<>> \in P
  BY EmptySeq, FlatMapEmpty
<1>2. ASSUME NEW t \in P, NEW e \in S PROVE Append(t, e) \in P
  <2> DEFINE u == <<e>>
  <2>1. u \in Seq(S) /\ t \in Seq(S) /\ FlatMap(F, t) = t
    BY One
  <2>2. FlatMap(F, u) = u
    BY FlatMapOne
  <2>3. Append(t, e) = t \o u /\ Append(t, e) \in Seq(S)
    BY <2>1, AppendIsConcat, AppendProperties
  <2> HIDE DEF u
  <2>4. FlatJoins(F, t, u)
    BY <2>1, FlatMapJoin
  <2>5. QED
    BY <2>1, <2>2, <2>3, <2>4 DEF FlatJoins
<1>3. P \subseteq Seq(S)
  OBVIOUS
<1> HIDE DEF P
<1>4. P = Seq(S)
  BY <1>1, <1>2, <1>3, AppendInduction
<1>5. QED
  BY <1>4 DEF P

\* What keeps elements or drops them makes no sequence longer.
LEMMA KeepsShorter ==
  ASSUME NEW S, NEW F, Keeps(F, S), NEW s \in Seq(S)
  PROVE  FlatMap(F, s) \in Seq(S) /\ Len(FlatMap(F, s)) <= Len(s)
<1> DEFINE P == {t \in Seq(S) : Len(FlatMap(F, t)) <= Len(t)}
<1>0. F \in [S -> Seq(S)]
  BY DEF Keeps
<1>1. <<>> \in P
  BY EmptySeq, FlatMapEmpty
<1>2. ASSUME NEW t \in P, NEW e \in S PROVE Append(t, e) \in P
  <2> DEFINE u == <<e>>
             a == FlatMap(F, t)
             b == FlatMap(F, u)
  <2>1. u \in Seq(S) /\ t \in Seq(S) /\ Len(a) <= Len(t) /\ Len(t) \in Nat
    BY One, LenProperties
  <2>2. b = F[e]
    BY <1>0, FlatMapOne
  <2>3. Append(t, e) = t \o u /\ Append(t, e) \in Seq(S) /\ Len(Append(t, e)) = Len(t) + 1
    BY <2>1, AppendIsConcat, AppendProperties
  <2>4. Len(b) <= 1 /\ Len(b) \in Nat /\ b \in Seq(S)
    <3>1. Len(<<>>) = 0 /\ Len(<<e>>) = 1 /\ F[e] \in Seq(S)
      BY <1>0, EmptySeq
    <3>2. F[e] = <<e>> \/ F[e] = <<>>
      BY DEF Keeps
    <3>3. Len(F[e]) = 1 \/ Len(F[e]) = 0
      BY <3>1, <3>2
    <3> DEFINE c == F[e]
    <3>4. b = c /\ c \in Seq(S) /\ (Len(c) = 1 \/ Len(c) = 0)
      BY <2>2, <3>1, <3>3
    <3> HIDE DEF b, c, u, P
    <3>a. 1 <= 1 /\ 1 \in Nat /\ 0 <= 1 /\ 0 \in Nat
      OBVIOUS
    <3>5. Len(c) <= 1 /\ Len(c) \in Nat
      <4>1. CASE Len(c) = 1
        BY <3>a, <4>1
      <4>2. CASE Len(c) = 0
        BY <3>a, <4>2
      <4>3. QED
        BY <3>4, <4>1, <4>2
    <3>6. QED
      BY <3>4, <3>5
  <2> HIDE DEF u
  <2>5. FlatJoins(F, t, u)
    BY <1>0, <2>1, FlatMapJoin
  <2>6. a \in Seq(S)
    BY <1>0, <2>1, FlatMapType
  <2> HIDE DEF a, b
  <2>7. Len(a \o b) = Len(a) + Len(b) /\ Len(a) \in Nat
    BY <2>4, <2>6, ConcatProperties, LenProperties
  <2>8. FlatMap(F, Append(t, e)) = a \o b
    BY <2>3, <2>5 DEF FlatJoins, a, b
  <2>9. Len(FlatMap(F, Append(t, e))) <= Len(Append(t, e))
    BY <2>1, <2>3, <2>4, <2>7, <2>8
  <2>10. QED
    BY <2>3, <2>9
<1>3. P \subseteq Seq(S)
  OBVIOUS
<1> HIDE DEF P
<1>4. P = Seq(S)
  BY <1>1, <1>2, <1>3, AppendInduction
<1>5. QED
  BY <1>0, <1>4, FlatMapType DEF P

\* Two elements for every one: r is the pairs that F gives, one after another.
PairsOf(r, F, s, T) ==
  /\ r \in Seq(T) /\ Len(r) = 2 * Len(s)
  /\ \A j \in 1..Len(s) : r[2 * j - 1] = F[s[j]][1] /\ r[2 * j] = F[s[j]][2]
\* They are found at the places twice as far.
LEMMA PairsAre ==
  ASSUME NEW S, NEW T, NEW F \in [S -> Seq(T)], \A e \in S : Len(F[e]) = 2, NEW s \in Seq(S)
  PROVE  PairsOf(FlatMap(F, s), F, s, T)
<1> DEFINE P == {t \in Seq(S) : PairsOf(FlatMap(F, t), F, t, T)}
<1>1. <<>> \in P
  <2>1. <<>> \in Seq(S) /\ <<>> \in Seq(T) /\ Len(<<>>) = 0
    BY EmptySeq
  <2>2. FlatMap(F, <<>>) = <<>>
    BY FlatMapEmpty
  <2>3. PairsOf(<<>>, F, <<>>, T)
    BY <2>1 DEF PairsOf
  <2>4. QED
    BY <2>1, <2>2, <2>3
<1>2. ASSUME NEW t \in P, NEW e \in S PROVE Append(t, e) \in P
  <2> DEFINE u == <<e>>
             a == FlatMap(F, t)
             b == F[e]
             n == Len(t)
             v == Append(t, e)
             r == a \o b
  <2>1. u \in Seq(S) /\ t \in Seq(S) /\ PairsOf(a, F, t, T) /\ n \in Nat
    BY One, LenProperties
  <2>2. FlatMap(F, u) = b /\ b \in Seq(T) /\ Len(b) = 2
    BY FlatMapOne
  <2>3. v = t \o u /\ v \in Seq(S) /\ Len(v) = n + 1 /\ v[n + 1] = e /\ \A j \in 1..n : v[j] = t[j]
    BY <2>1, AppendIsConcat, AppendProperties
  <2> HIDE DEF u
  <2>4. FlatJoins(F, t, u)
    BY <2>1, FlatMapJoin
  <2>5. a \in Seq(T) /\ Len(a) = 2 * n /\ \A j \in 1..n : a[2 * j - 1] = F[t[j]][1] /\ a[2 * j] = F[t[j]][2]
    BY <2>1 DEF PairsOf
  <2>6. FlatMap(F, v) = r
    BY <2>2, <2>3, <2>4 DEF FlatJoins
  <2>b. b = F[e]
    OBVIOUS
  <2> HIDE DEF a, b, v
  <2>7. /\ r \in Seq(T) /\ Len(r) = Len(a) + Len(b)
        /\ \A k \in 1..Len(a) + Len(b) : r[k] = IF k <= Len(a) THEN a[k] ELSE b[k - Len(a)]
    BY <2>2, <2>5, ConcatProperties
  <2> HIDE DEF r, n
  <2>8. Len(r) = 2 * (n + 1)
    BY <2>1, <2>2, <2>5, <2>7
  <2>9. ASSUME NEW j \in 1..n + 1 PROVE r[2 * j - 1] = F[v[j]][1] /\ r[2 * j] = F[v[j]][2]
    <3>1. CASE j \in 1..n
      <4>1. /\ 2 * j - 1 \in 1..Len(a) + Len(b) /\ 2 * j - 1 <= Len(a)
            /\ 2 * j \in 1..Len(a) + Len(b) /\ 2 * j <= Len(a)
        BY <2>1, <2>2, <2>5, <3>1
      <4>2. r[2 * j - 1] = a[2 * j - 1] /\ r[2 * j] = a[2 * j]
        BY <2>7, <4>1
      <4>3. QED
        BY <2>3, <2>5, <3>1, <4>2
    <3>2. CASE j = n + 1
      <4> DEFINE p == 2 * j - 1
                 q == 2 * j
      <4>1. /\ p \in 1..Len(a) + Len(b) /\ ~(p <= Len(a)) /\ p - Len(a) = 1
            /\ q \in 1..Len(a) + Len(b) /\ ~(q <= Len(a)) /\ q - Len(a) = 2
        BY <2>1, <2>2, <2>5, <3>2
      <4> HIDE DEF p, q
      <4>2. r[p] = b[1] /\ r[q] = b[2]
        BY <2>7, <4>1
      <4>3. QED
        BY <2>3, <2>b, <3>2, <4>2 DEF p, q
    <3>3. QED
      BY <2>1, <3>1, <3>2
  <2>10. PairsOf(r, F, v, T)
    BY <2>3, <2>7, <2>8, <2>9 DEF PairsOf
  <2>11. v \in P
    BY <2>3, <2>6, <2>10
  <2>12. QED
    BY <2>11 DEF v
<1>3. P \subseteq Seq(S)
  OBVIOUS
<1> HIDE DEF P
<1>4. P = Seq(S)
  BY <1>1, <1>2, <1>3, AppendInduction
<1>5. QED
  BY <1>4 DEF P

\* As long for every element: a whole number of times as long.
LEMMA FlatMapLength ==
  ASSUME NEW S, NEW T, NEW F \in [S -> Seq(T)], NEW n \in Nat, \A e \in S : Len(F[e]) = n, NEW s \in Seq(S)
  PROVE  Len(FlatMap(F, s)) = n * Len(s)
<1> DEFINE P == {t \in Seq(S) : Len(FlatMap(F, t)) = n * Len(t)}
<1>1. <<>> \in P
  <2>1. <<>> \in Seq(S) /\ Len(<<>>) = 0 /\ n * 0 = 0
    BY EmptySeq
  <2>2. FlatMap(F, <<>>) = <<>>
    BY FlatMapEmpty
  <2>3. QED
    BY <2>1, <2>2
<1>2. ASSUME NEW t \in P, NEW e \in S PROVE Append(t, e) \in P
  <2> DEFINE u == <<e>>
             a == FlatMap(F, t)
             b == FlatMap(F, u)
  <2>1. u \in Seq(S) /\ t \in Seq(S) /\ Len(a) = n * Len(t) /\ Len(t) \in Nat
    BY One, LenProperties
  <2>2. b = F[e] /\ Len(F[e]) = n
    BY FlatMapOne
  <2>3. Append(t, e) = t \o u /\ Append(t, e) \in Seq(S) /\ Len(Append(t, e)) = Len(t) + 1
    BY <2>1, AppendIsConcat, AppendProperties
  <2> HIDE DEF u
  <2>4. FlatJoins(F, t, u)
    BY <2>1, FlatMapJoin
  <2>5. a \in Seq(T) /\ b \in Seq(T) /\ Len(b) = n
    BY <2>1, <2>2, FlatMapType
  <2>6. FlatMap(F, Append(t, e)) = a \o b
    BY <2>3, <2>4 DEF FlatJoins
  <2> HIDE DEF a, b
  <2>7. Len(a \o b) = Len(a) + Len(b)
    BY <2>5, ConcatProperties
  <2>8. n * (Len(t) + 1) = n * Len(t) + n
    BY <2>1
  <2>9. QED
    BY <2>1, <2>3, <2>5, <2>6, <2>7, <2>8
<1>3. P \subseteq Seq(S)
  OBVIOUS
<1> HIDE DEF P
<1>4. P = Seq(S)
  BY <1>1, <1>2, <1>3, AppendInduction
<1>5. QED
  BY <1>4 DEF P

\* Nothing for every element: nothing.
LEMMA FlatMapNone ==
  ASSUME NEW S, NEW T, NEW F \in [S -> Seq(T)], NEW Z \in SUBSET S, \A e \in Z : F[e] = <<>>, NEW s \in Seq(Z)
  PROVE  FlatMap(F, s) = <<>>
<1> DEFINE P == {t \in Seq(Z) : FlatMap(F, t) = <<>>}
<1>1. <<>> \in P
  BY EmptySeq, FlatMapEmpty
<1>2. ASSUME NEW t \in P, NEW e \in Z PROVE Append(t, e) \in P
  <2> DEFINE u == <<e>>
  <2>1. t \in Seq(Z) /\ FlatMap(F, t) = <<>>
    OBVIOUS
  <2>2. e \in S /\ u \in Seq(S)
    BY One
  <2>3. t \in Seq(S)
    BY <2>1, SeqMonotonic
  <2>4. FlatMap(F, u) = <<>>
    BY <2>2, FlatMapOne
  <2>5. Append(t, e) = t \o u /\ Append(t, e) \in Seq(Z)
    BY <2>1, AppendIsConcat, AppendProperties
  <2> HIDE DEF u
  <2>6. FlatJoins(F, t, u)
    BY <2>2, <2>3, FlatMapJoin
  <2>7. <<>> \o <<>> = <<>>
    BY EmptySeq, ConcatEmptySeq
  <2>8. QED
    BY <2>1, <2>4, <2>5, <2>6, <2>7 DEF FlatJoins
<1>3. P \subseteq Seq(Z)
  OBVIOUS
<1> HIDE DEF P
<1>4. P = Seq(Z)
  BY <1>1, <1>2, <1>3, AppendInduction
<1>5. QED
  BY <1>4 DEF P

\* A sequence that is not empty is one and its last element.
LEMMA FrontAndLast ==
  ASSUME NEW S, NEW s \in Seq(S), s # <<>>
  PROVE  \E r \in Seq(S), e \in S : s = r \o <<e>> /\ Len(s) = Len(r) + 1
<1> DEFINE n == Len(s) - 1
           r == SubSeq(s, 1, n)
           q == Suffix(s, n + 1)
<1>1. Len(s) \in Nat /\ Len(s) # 0 /\ n \in 0..Len(s) /\ Len(s) - n = 1 /\ Len(s) = n + 1
  BY LenProperties, EmptySeq
<1>2. r \in Seq(S) /\ Len(r) = n /\ q \in Seq(S) /\ Len(q) = 1 /\ s = r \o q
  <2> HIDE DEF n
  <2>1. QED
    BY <1>1, CutIsWhole
<1> HIDE DEF q, r
<1>3. q = <<q[1]>> /\ q[1] \in S
  BY <1>2
<1>4. QED
  BY <1>1, <1>2, <1>3

\* Of one element more.
LEMMA FlatMapLast ==
  ASSUME NEW S, NEW T, NEW F \in [S -> Seq(T)], NEW r \in Seq(S), NEW e \in S, NEW s, s = r \o <<e>>
  PROVE  FlatMap(F, s) = FlatMap(F, r) \o F[e]
<1> DEFINE u == <<e>>
<1>1. FlatMap(F, u) = F[e]
  BY FlatMapOne
<1>2. u \in Seq(S) /\ s = r \o u
  BY One
<1> HIDE DEF u
<1>3. FlatJoins(F, r, u)
  BY <1>2, FlatMapJoin
<1>4. QED
  BY <1>1, <1>2, <1>3 DEF FlatJoins

\* A function on the first n numbers is a sequence of n.
LEMMA FunctionIsSeq ==
  ASSUME NEW S, NEW n \in Nat, NEW f \in [1..n -> S]
  PROVE  f \in Seq(S) /\ Len(f) = n
OBVIOUS

\* What comes of one element.
FoldsOne(step, start, e) == Fold(step, start, <<e>>) = step[start, e]
\* It is what step makes of it.
LEMMA FoldOne ==
  ASSUME NEW V, NEW E, NEW step, Steps(step, V, E), NEW start \in V, NEW e \in E
  PROVE  FoldsOne(step, start, e)
<1> DEFINE z == <<>>
<1>1. z \in Seq(E) /\ Append(z, e) = <<e>>
  BY EmptySeq
<1>2. Fold(step, start, z) = start
  BY FoldEmpty
<1> HIDE DEF z
<1>3. FoldsOn(step, start, z, e, V)
  BY ONLY Steps(step, V, E), start \in V, e \in E, <1>1, FoldAppend
<1>4. QED
  BY <1>1, <1>2, <1>3 DEF FoldsOn, FoldsOne

\* What comes of one sequence after another.
FoldsBoth(step, start, s, t, V) ==
  /\ Fold(step, start, s) \in V
  /\ Fold(step, start, s \o t) = Fold(step, Fold(step, start, s), t)
\* It goes on from what came of the first.
LEMMA FoldJoin ==
  ASSUME NEW V, NEW E, NEW step, Steps(step, V, E), NEW start \in V, NEW s \in Seq(E), NEW t \in Seq(E)
  PROVE  FoldsBoth(step, start, s, t, V)
<1> DEFINE P == {u \in Seq(E) : FoldsBoth(step, start, s, u, V)}
           x == Fold(step, start, s)
<1>1. x \in V
  <2>1. CASE s = <<>>
    <3>1. Fold(step, start, <<>>) = start
      BY FoldEmpty
    <3>2. QED
      BY <2>1, <3>1
  <2>2. CASE s # <<>>
    <3>1. PICK r \in Seq(E), e \in E : s = r \o <<e>>
      BY <2>2, FrontAndLast
    <3>2. Append(r, e) = s
      BY <3>1, AppendIsConcat
    <3>3. FoldsOn(step, start, r, e, V)
      BY FoldAppend
    <3>4. QED
      BY <3>2, <3>3 DEF FoldsOn, Steps
  <2>3. QED
    BY <2>1, <2>2
<1>2. <<>> \in P
  <2>1. s \o <<>> = s /\ <<>> \in Seq(E)
    BY ConcatEmptySeq, EmptySeq
  <2>2. Fold(step, x, <<>>) = x
    BY <1>1, FoldEmpty
  <2>3. QED
    BY <1>1, <2>1, <2>2 DEF FoldsBoth
<1>3. ASSUME NEW u \in P, NEW e \in E PROVE Append(u, e) \in P
  <2>1. u \in Seq(E) /\ FoldsBoth(step, start, s, u, V)
    OBVIOUS
  <2>2. Append(u, e) \in Seq(E) /\ s \o u \in Seq(E)
    BY <2>1, AppendProperties, ConcatProperties
  <2>3. s \o Append(u, e) = Append(s \o u, e)
    <3>1. Append(u, e) = u \o <<e>> /\ Append(s \o u, e) = (s \o u) \o <<e>> /\ <<e>> \in Seq(E)
      BY <2>1, <2>2, AppendIsConcat, One
    <3>2. (s \o u) \o <<e>> = s \o (u \o <<e>>)
      BY <2>1, <3>1, JoinAssociates DEF Associates
    <3>3. QED
      BY <3>1, <3>2
  <2> HIDE DEF x
  <2>4. FoldsOn(step, start, s \o u, e, V) /\ FoldsOn(step, x, u, e, V)
    BY <1>1, <2>1, <2>2, FoldAppend
  <2>5. FoldsBoth(step, start, s, Append(u, e), V)
    BY <1>1, <2>1, <2>3, <2>4 DEF FoldsBoth, FoldsOn, x
  <2>6. QED
    BY <2>2, <2>5
<1>4. P \subseteq Seq(E)
  OBVIOUS
<1> HIDE DEF P
<1>5. P = Seq(E)
  BY <1>2, <1>3, <1>4, AppendInduction
<1>6. QED
  BY <1>5 DEF P
=============================================================================
