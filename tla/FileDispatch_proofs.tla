------------------------ MODULE FileDispatch_proofs ------------------------
(***************************************************************************)
(* Proofs about the file dispatcher.  The invariants of the runs are not   *)
(* inductive: that a queue holds only reserved jobs needs the tokens that  *)
(* are dropped to belong to no queue, so the invariant below follows every *)
(* reservation to the one place that will drop its token.                  *)
(***************************************************************************)
EXTENDS FileDispatch, SequencesExt, SequenceTheorems, FiniteSetTheorems, WellFoundedInduction, TLAPS

-----------------------------------------------------------------------------
(* Numbers, sequences, and what Kept keeps.  The library states induction  *)
(* of an operator, which no prover can instantiate: here it is stated of a *)
(* set.                                                                    *)

\* Numbers have a least one.
LEMMA LeastNumber ==
    ASSUME NEW T \in SUBSET Nat, T # {}
    PROVE  \E x \in T : \A y \in T : x <= y
<1>1. IsWellFoundedOn(OpToRel(<, Nat), Nat)
  BY NatLessThanWellFounded
<1>2. \E x \in T : \A y \in T : ~ (<<y, x>> \in OpToRel(<, Nat))
  BY ONLY <1>1, T \subseteq Nat, T # {}, WFMin
<1>3. PICK x \in T : \A y \in T : ~(y < x)
  BY <1>2 DEF OpToRel
<1> QED
  BY <1>3

\* Induction over the numbers, stated of a set of them.
LEMMA NumbersInduction ==
    ASSUME NEW P, 0 \in P, \A n \in Nat : n \in P => n + 1 \in P
    PROVE  Nat \subseteq P
<1> DEFINE T == Nat \ P
<1> SUFFICES ASSUME T # {} PROVE FALSE
  OBVIOUS
<1>1. PICK x \in T : \A y \in T : x <= y
  <2>1. T \in SUBSET Nat
    OBVIOUS
  <2> HIDE DEF T
  <2> QED
    BY <2>1, LeastNumber
<1>2. x - 1 \in T /\ ~(x <= x - 1)
  BY <1>1
<1> QED
  BY <1>1, <1>2

\* What the function that Kept defines by recursion is at each place up to m.
Keeping(kept, seq, S, m) ==
    kept = [n \in 0..m |-> IF n = 0 THEN <<>>
                           ELSE IF seq[n] \in S THEN Append(kept[n - 1], seq[n]) ELSE kept[n - 1]]

\* The function at one place.
LEMMA KeepingAt ==
    ASSUME NEW kept, NEW seq, NEW S, NEW m \in Nat, Keeping(kept, seq, S, m), NEW n \in 0..m
    PROVE  kept[n] = IF n = 0 THEN <<>> ELSE IF seq[n] \in S THEN Append(kept[n - 1], seq[n]) ELSE kept[n - 1]
  BY Zenon DEF Keeping

\* There is such a function: the definition of Kept by recursion is one.
LEMMA KeptExists ==
    ASSUME NEW seq, NEW S, NEW m \in Nat
    PROVE  \E kept : Keeping(kept, seq, S, m)
<1> DEFINE P == {k \in Nat : \E kept : Keeping(kept, seq, S, k)}
<1>1. 0 \in P
  <2> DEFINE f == [n \in 0..0 |-> <<>>]
  <2>1. Keeping(f, seq, S, 0)
    BY DEF Keeping
  <2> QED
    BY <2>1
<1>2. ASSUME NEW k \in Nat, k \in P PROVE k + 1 \in P
  <2>1. PICK g : Keeping(g, seq, S, k)
    BY <1>2
  <2> DEFINE f == [n \in 0..(k + 1) |-> IF n <= k THEN g[n]
                                        ELSE IF seq[n] \in S THEN Append(g[k], seq[n]) ELSE g[k]]
  <2>2. ASSUME NEW n \in 0..(k + 1)
        PROVE  f[n] = IF n = 0 THEN <<>> ELSE IF seq[n] \in S THEN Append(f[n - 1], seq[n]) ELSE f[n - 1]
    <3>1. CASE n = 0
      BY <2>1, <3>1 DEF Keeping
    <3>2. CASE n \in 1..k
      <4>1. g[n] = IF seq[n] \in S THEN Append(g[n - 1], seq[n]) ELSE g[n - 1]
        BY <2>1, <3>2, KeepingAt
      <4>2. f[n] = g[n] /\ f[n - 1] = g[n - 1]
        BY <3>2
      <4> QED
        BY <3>2, <4>1, <4>2
    <3>3. CASE n = k + 1
      BY <2>1, <3>3
    <3> QED
      BY <3>1, <3>2, <3>3
  <2>3. Keeping(f, seq, S, k + 1)
    BY <2>2 DEF Keeping
  <2> QED
    BY <2>3
<1> HIDE DEF P
<1>3. Nat \subseteq P
  BY <1>1, <1>2, NumbersInduction
<1> QED
  BY <1>3 DEF P

\* What is kept are elements of the sequence, all that are in the set, and each once if the
\* sequence has each once.
LEMMA KeptElements ==
    ASSUME NEW T, NEW seq \in Seq(T), NEW S
    PROVE  /\ Kept(seq, S) \in Seq(T)
           /\ ToSet(Kept(seq, S)) = ToSet(seq) \cap S
           /\ IsInjective(seq) => IsInjective(Kept(seq, S))
<1> DEFINE L == Len(seq)
           f == CHOOSE kept : Keeping(kept, seq, S, L)
<1>1. L \in Nat /\ DOMAIN seq = 1..L /\ \A i \in 1..L : seq[i] \in T
  BY LenProperties
<1>2. Keeping(f, seq, S, L)
  BY <1>1, KeptExists
<1>3. Kept(seq, S) = f[L]
  BY DEF Kept, Keeping
<1> HIDE DEF f
<1>a. /\ f[0] = <<>>
      /\ \A n \in 0..L : n + 1 <= L => f[n + 1] = IF seq[n + 1] \in S THEN Append(f[n], seq[n + 1]) ELSE f[n]
  <2>1. \A n \in 0..L : f[n] = IF n = 0 THEN <<>> ELSE IF seq[n] \in S THEN Append(f[n - 1], seq[n]) ELSE f[n - 1]
    BY <1>1, <1>2, KeepingAt
  <2>2. ASSUME NEW n \in 0..L, n + 1 <= L PROVE n + 1 \in 0..L /\ n + 1 # 0 /\ (n + 1) - 1 = n
    BY <1>1, <2>2
  <2> QED
    BY <1>1, <2>1, <2>2
<1> DEFINE Right(n) == /\ f[n] \in Seq(T)
                       /\ \A x : (\E k \in 1..Len(f[n]) : f[n][k] = x) <=> (x \in S /\ \E i \in 1..n : seq[i] = x)
                       /\ (\A i, k \in 1..n : seq[i] = seq[k] => i = k)
                          => \A i, k \in 1..Len(f[n]) : f[n][i] = f[n][k] => i = k
           P == {n \in Nat : n <= L => Right(n)}
<1>4. 0 \in P
  <2>1. f[0] = <<>> /\ Len(<<>>) = 0 /\ <<>> \in Seq(T)
    BY <1>a
  <2>2. Right(0)
    BY <2>1
  <2> QED
    BY <2>2
<1>5. ASSUME NEW n \in Nat, n \in P PROVE n + 1 \in P
  <2>0. n + 1 \in Nat
    OBVIOUS
  <2> SUFFICES ASSUME n + 1 <= L PROVE Right(n + 1)
    BY <2>0, Zenon
  <2>1. Right(n)
    BY <1>1, <1>5
  <2>2. f[n + 1] = IF seq[n + 1] \in S THEN Append(f[n], seq[n + 1]) ELSE f[n]
    BY <1>1, <1>a
  <2>3. CASE seq[n + 1] \notin S
    <3>1. f[n + 1] = f[n]
      BY <2>2, <2>3
    <3>2. ASSUME NEW x
          PROVE (x \in S /\ \E i \in 1..(n + 1) : seq[i] = x) <=> (x \in S /\ \E i \in 1..n : seq[i] = x)
      BY <2>3
    <3>3. (\A i, k \in 1..(n + 1) : seq[i] = seq[k] => i = k) => \A i, k \in 1..n : seq[i] = seq[k] => i = k
      OBVIOUS
    <3> QED
      BY <2>1, <3>1, <3>2, <3>3
  <2>4. CASE seq[n + 1] \in S
    <3> DEFINE g == f[n]
               h == f[n + 1]
               e == seq[n + 1]
    <3>1. h = Append(g, e) /\ g \in Seq(T) /\ e \in T
      BY <1>1, <2>1, <2>2, <2>4
    <3>2. h \in Seq(T) /\ Len(h) = Len(g) + 1 /\ Len(g) \in Nat /\ h[Len(g) + 1] = e
          /\ \A i \in 1..Len(g) : h[i] = g[i]
      BY <3>1, AppendProperties, LenProperties
    <3>3. ASSUME NEW x
          PROVE  (\E k \in 1..Len(h) : h[k] = x) <=> (x \in S /\ \E i \in 1..(n + 1) : seq[i] = x)
      <4>1. (\E k \in 1..Len(h) : h[k] = x) <=> (x = e \/ \E k \in 1..Len(g) : g[k] = x)
        <5> HIDE DEF g, h, e
        <5>1. 1..Len(h) = 1..Len(g) \cup {Len(g) + 1}
          BY <3>2
        <5> QED
          BY <3>2, <5>1
      <4>2. (\E i \in 1..(n + 1) : seq[i] = x) <=> (x = e \/ \E i \in 1..n : seq[i] = x)
        OBVIOUS
      <4> QED
        BY <2>1, <2>4, <4>1, <4>2
    <3>4. ASSUME \A i, k \in 1..(n + 1) : seq[i] = seq[k] => i = k,
                 NEW i \in 1..Len(h), NEW k \in 1..Len(h), h[i] = h[k]
          PROVE  i = k
      <4>1. \A a \in 1..Len(g) : g[a] # e
        <5> SUFFICES ASSUME NEW a \in 1..Len(g), g[a] = e PROVE FALSE
          OBVIOUS
        <5>1. \E b \in 1..n : seq[b] = e
          BY <2>1
        <5> QED
          BY <3>4, <5>1
      <4>2. \A a, b \in 1..Len(g) : g[a] = g[b] => a = b
        BY <2>1, <3>4
      <4> QED
        <5>1. CASE i = Len(g) + 1
          BY <3>2, <3>4, <4>1, <5>1
        <5>2. CASE k = Len(g) + 1
          BY <3>2, <3>4, <4>1, <5>2
        <5>3. CASE i # Len(g) + 1 /\ k # Len(g) + 1
          <6>1. i \in 1..Len(g) /\ k \in 1..Len(g)
            BY <3>2, <5>3
          <6>2. h[i] = g[i] /\ h[k] = g[k] /\ h[i] = h[k]
            BY <3>2, <3>4, <6>1
          <6> HIDE DEF g, h
          <6> QED
            BY <4>2, <6>1, <6>2
        <5> QED
          BY <5>1, <5>2, <5>3
    <3> QED
      BY <3>2, <3>3, <3>4
  <2> QED
    BY <2>3, <2>4
<1> HIDE DEF P
<1>6. L \in P
  BY <1>1, <1>4, <1>5, NumbersInduction
<1>7. Right(L)
  <2>1. L <= L
    BY <1>1
  <2> HIDE DEF Right
  <2> QED
    BY <1>6, <2>1 DEF P
<1> DEFINE g == Kept(seq, S)
<1>8. g = f[L] /\ g \in Seq(T) /\ DOMAIN g = 1..Len(g)
  BY <1>3, <1>7, LenProperties
<1>9. \A x : x \in ToSet(g) <=> x \in ToSet(seq) \cap S
  <2>1. \A x : x \in ToSet(g) <=> \E k \in 1..Len(g) : g[k] = x
    BY <1>8 DEF ToSet
  <2>2. \A x : x \in ToSet(seq) <=> \E k \in 1..L : seq[k] = x
    BY <1>1 DEF ToSet
  <2> QED
    BY <1>7, <1>8, <2>1, <2>2
<1>10. IsInjective(seq) => IsInjective(g)
  BY <1>1, <1>7, <1>8 DEF IsInjective
<1> QED
  BY <1>8, <1>9, <1>10

-----------------------------------------------------------------------------
(* Sequences whose elements are all different *)

\* A sequence is empty when it has no elements.
LEMMA NoElements ==
    ASSUME NEW T, NEW seq \in Seq(T)
    PROVE  seq = <<>> <=> ToSet(seq) = {}
<1>1. Len(seq) \in Nat /\ DOMAIN seq = 1..Len(seq)
  BY LenProperties
<1>2. seq # <<>> => seq[1] \in ToSet(seq)
  BY <1>1, EmptySeq DEF ToSet
<1>3. seq = <<>> => ToSet(seq) = {}
  BY DEF ToSet
<1> QED
  BY <1>2, <1>3

\* One more element at the end.
LEMMA AppendElements ==
    ASSUME NEW T, NEW seq \in Seq(T), NEW e \in T
    PROVE  /\ Append(seq, e) \in Seq(T) /\ Append(seq, e) # <<>>
           /\ ToSet(Append(seq, e)) = ToSet(seq) \cup {e}
           /\ IsInjective(seq) /\ e \notin ToSet(seq) => IsInjective(Append(seq, e))
<1> DEFINE a == Append(seq, e)
<1>1. /\ a \in Seq(T) /\ Len(a) = Len(seq) + 1 /\ a[Len(seq) + 1] = e
      /\ \A i \in 1..Len(seq) : a[i] = seq[i]
  BY AppendProperties
<1>2. Len(seq) \in Nat /\ DOMAIN seq = 1..Len(seq) /\ DOMAIN a = 1..Len(a)
  BY <1>1, LenProperties
<1> HIDE DEF a
<1>3. a # <<>>
  BY <1>1, <1>2, EmptySeq
<1>4. ToSet(a) = ToSet(seq) \cup {e}
  BY <1>1, <1>2 DEF ToSet
<1>5. ASSUME IsInjective(seq), e \notin ToSet(seq) PROVE IsInjective(a)
  <2>1. \A i \in 1..Len(seq) : seq[i] # e
    BY <1>2, <1>5 DEF ToSet
  <2>2. \A i, k \in 1..Len(seq) : seq[i] = seq[k] => i = k
    BY <1>2, <1>5 DEF IsInjective
  <2> QED
    BY <1>1, <1>2, <2>1, <2>2 DEF IsInjective
<1> QED
  BY <1>1, <1>3, <1>4, <1>5 DEF a

\* The elements of the tail.
LEMMA TailElements ==
    ASSUME NEW T, NEW seq \in Seq(T), seq # <<>>
    PROVE  /\ Tail(seq) \in Seq(T) /\ Head(seq) \in T /\ Head(seq) \in ToSet(seq)
           /\ Tail(seq) = <<>> <=> Len(seq) = 1
           /\ ToSet(seq) = ToSet(Tail(seq)) \cup {Head(seq)}
           /\ IsInjective(seq) => IsInjective(Tail(seq)) /\ ToSet(Tail(seq)) = ToSet(seq) \ {Head(seq)}
<1> DEFINE t == Tail(seq)
           h == Head(seq)
<1>1. /\ t \in Seq(T) /\ Len(t) = Len(seq) - 1 /\ h = seq[1]
      /\ \A i \in 1..Len(t) : t[i] = seq[i + 1]
  BY HeadTailProperties
<1>2. /\ Len(seq) \in Nat /\ Len(seq) # 0 /\ DOMAIN seq = 1..Len(seq) /\ DOMAIN t = 1..Len(t)
      /\ \A i \in 1..Len(seq) : seq[i] \in T
  BY <1>1, LenProperties, EmptySeq
<1> HIDE DEF t, h
<1>3. t = <<>> <=> Len(seq) = 1
  BY <1>1, <1>2, EmptySeq
<1>4. /\ \A x : x \in ToSet(seq) <=> \E i \in 1..Len(seq) : seq[i] = x
      /\ \A x : x \in ToSet(t) <=> \E i \in 1..Len(t) : t[i] = x
  BY <1>2 DEF ToSet
<1>5. ASSUME NEW x PROVE x \in ToSet(seq) <=> x = h \/ x \in ToSet(t)
  <2>1. (\E i \in 1..Len(seq) : seq[i] = x) <=> x = seq[1] \/ \E i \in 1..Len(t) : seq[i + 1] = x
    <3>1. ASSUME NEW i \in 1..Len(seq) PROVE i = 1 \/ (i - 1 \in 1..Len(t) /\ (i - 1) + 1 = i)
      BY <1>1, <1>2
    <3>2. \A i \in 1..Len(t) : i + 1 \in 1..Len(seq)
      BY <1>1, <1>2
    <3>3. 1 \in 1..Len(seq)
      BY <1>2
    <3> QED
      BY <3>1, <3>2, <3>3
  <2> QED
    BY <1>1, <1>4, <2>1
<1>6. ASSUME IsInjective(seq) PROVE IsInjective(t) /\ h \notin ToSet(t)
  <2>1. \A i, k \in 1..Len(seq) : seq[i] = seq[k] => i = k
    BY <1>2, <1>6 DEF IsInjective
  <2>2. IsInjective(t)
    <3> SUFFICES ASSUME NEW i \in 1..Len(t), NEW k \in 1..Len(t), t[i] = t[k] PROVE i = k
      BY <1>2 DEF IsInjective
    <3>1. i + 1 \in 1..Len(seq) /\ k + 1 \in 1..Len(seq) /\ seq[i + 1] = seq[k + 1]
      BY <1>1, <1>2
    <3>2. i + 1 = k + 1
      BY <2>1, <3>1
    <3> QED
      BY <3>2
  <2>3. \A i \in 1..Len(t) : t[i] # h
    BY <1>1, <1>2, <2>1
  <2> QED
    BY <1>4, <2>2, <2>3
<1>7. h \in T /\ h \in ToSet(seq)
  BY <1>1, <1>2, <1>4
<1> QED
  BY <1>1, <1>3, <1>5, <1>6, <1>7 DEF t, h

\* Two sequences after one another.
LEMMA ConcatElements ==
    ASSUME NEW T, NEW left \in Seq(T), NEW right \in Seq(T)
    PROVE  /\ left \o right \in Seq(T)
           /\ ToSet(left \o right) = ToSet(left) \cup ToSet(right)
           /\ IsInjective(left) /\ IsInjective(right) /\ ToSet(left) \cap ToSet(right) = {}
              => IsInjective(left \o right)
<1> DEFINE b == left \o right
           m == Len(left)
           n == Len(right)
<1>1. /\ b \in Seq(T) /\ Len(b) = m + n
      /\ \A i \in 1..(m + n) : b[i] = IF i <= m THEN left[i] ELSE right[i - m]
  BY ConcatProperties
<1>2. m \in Nat /\ n \in Nat /\ DOMAIN left = 1..m /\ DOMAIN right = 1..n /\ DOMAIN b = 1..(m + n)
  BY <1>1, LenProperties
<1> HIDE DEF b, m, n
<1>3. /\ \A x : x \in ToSet(left) <=> \E i \in 1..m : left[i] = x
      /\ \A x : x \in ToSet(right) <=> \E i \in 1..n : right[i] = x
      /\ \A x : x \in ToSet(b) <=> \E i \in 1..(m + n) : b[i] = x
  BY <1>2 DEF ToSet
<1>4. ASSUME NEW x PROVE x \in ToSet(b) <=> x \in ToSet(left) \/ x \in ToSet(right)
  <2>1. ASSUME NEW i \in 1..m PROVE i \in 1..(m + n) /\ b[i] = left[i]
    BY <1>1, <1>2
  <2>2. ASSUME NEW i \in 1..n PROVE i + m \in 1..(m + n) /\ b[i + m] = right[i]
    <3>1. i + m \in 1..(m + n) /\ ~(i + m <= m) /\ (i + m) - m = i
      BY <1>2
    <3> QED
      BY <1>1, <3>1
  <2>3. ASSUME NEW i \in 1..(m + n)
        PROVE  (i \in 1..m /\ b[i] = left[i]) \/ (i - m \in 1..n /\ b[i] = right[i - m])
    <3>1. i \in 1..m \/ (i - m \in 1..n /\ ~(i <= m))
      BY <1>2
    <3> QED
      BY <1>1, <1>2, <3>1
  <2> QED
    BY <1>3, <2>1, <2>2, <2>3
<1>5. ASSUME IsInjective(left), IsInjective(right), ToSet(left) \cap ToSet(right) = {},
             NEW i \in 1..(m + n), NEW k \in 1..(m + n), b[i] = b[k]
      PROVE  i = k
  <2>1. /\ \A x, y \in 1..m : left[x] = left[y] => x = y
        /\ \A x, y \in 1..n : right[x] = right[y] => x = y
        /\ \A x \in 1..m, y \in 1..n : left[x] # right[y]
    BY <1>2, <1>3, <1>5 DEF IsInjective
  <2>2. CASE i <= m /\ k <= m
    BY <1>1, <1>2, <1>5, <2>1, <2>2
  <2>3. CASE i <= m /\ ~(k <= m)
    <3>1. i \in 1..m /\ k - m \in 1..n /\ b[i] = left[i] /\ b[k] = right[k - m]
      BY <1>1, <1>2, <2>3
    <3> QED
      BY <1>5, <2>1, <3>1
  <2>4. CASE ~(i <= m) /\ k <= m
    <3>1. k \in 1..m /\ i - m \in 1..n /\ b[k] = left[k] /\ b[i] = right[i - m]
      BY <1>1, <1>2, <2>4
    <3> QED
      BY <1>5, <2>1, <3>1
  <2>5. CASE ~(i <= m) /\ ~(k <= m)
    <3>1. i - m \in 1..n /\ k - m \in 1..n /\ b[i] = right[i - m] /\ b[k] = right[k - m]
      BY <1>1, <1>2, <2>5
    <3>2. i - m = k - m
      BY <1>5, <2>1, <3>1
    <3> QED
      BY <1>2, <3>2
  <2> QED
    BY <2>2, <2>3, <2>4, <2>5
<1>6. IsInjective(left) /\ IsInjective(right) /\ ToSet(left) \cap ToSet(right) = {} => IsInjective(b)
  BY <1>2, <1>5 DEF IsInjective
<1> QED
  BY <1>1, <1>4, <1>6 DEF b

\* A part of a sequence.
LEMMA SubSeqElements ==
    ASSUME NEW T, NEW seq \in Seq(T), NEW m \in 1..(Len(seq) + 1), NEW n \in (m - 1)..Len(seq)
    PROVE  /\ SubSeq(seq, m, n) \in Seq(T)
           /\ \A x : x \in ToSet(SubSeq(seq, m, n)) <=> \E i \in m..n : seq[i] = x
           /\ IsInjective(seq) => IsInjective(SubSeq(seq, m, n))
<1> DEFINE p == SubSeq(seq, m, n)
<1>1. Len(seq) \in Nat /\ DOMAIN seq = 1..Len(seq) /\ m \in Nat /\ n \in Int
  BY LenProperties
<1>2. p \in Seq(T) /\ Len(p) = n - m + 1 /\ \A i \in 1..(n - m + 1) : p[i] = seq[m + i - 1]
  BY SubSeqProperties
<1>3. DOMAIN p = 1..(n - m + 1)
  BY <1>2, LenProperties
<1> HIDE DEF p
<1>4. ASSUME NEW i \in 1..(n - m + 1) PROVE m + i - 1 \in m..n /\ p[i] = seq[m + i - 1]
  BY <1>1, <1>2
<1>5. ASSUME NEW x PROVE x \in ToSet(p) <=> \E i \in m..n : seq[i] = x
  <2>1. x \in ToSet(p) <=> \E i \in 1..(n - m + 1) : p[i] = x
    BY <1>3 DEF ToSet
  <2>2. ASSUME NEW i \in m..n PROVE i - m + 1 \in 1..(n - m + 1) /\ p[i - m + 1] = seq[i]
    <3>1. i - m + 1 \in 1..(n - m + 1) /\ m + (i - m + 1) - 1 = i
      BY <1>1
    <3> QED
      BY <1>2, <3>1
  <2> QED
    BY <1>4, <2>1, <2>2
<1>6. ASSUME IsInjective(seq), NEW i \in 1..(n - m + 1), NEW k \in 1..(n - m + 1), p[i] = p[k]
      PROVE  i = k
  <2>1. m + i - 1 \in 1..Len(seq) /\ m + k - 1 \in 1..Len(seq) /\ seq[m + i - 1] = seq[m + k - 1]
    BY <1>1, <1>4, <1>6
  <2>2. m + i - 1 = m + k - 1
    BY <1>1, <1>6, <2>1 DEF IsInjective
  <2> QED
    BY <1>1, <2>2
<1>7. IsInjective(seq) => IsInjective(p)
  BY <1>3, <1>6 DEF IsInjective
<1> QED
  BY <1>2, <1>5, <1>7 DEF p

-----------------------------------------------------------------------------
(* The invariant *)

InPhase(phase) == {j \in DOMAIN reservations : reservations[j].phase = phase}

\* The counters are the numbers of the reservations they count.
CountersExact ==
  /\ \A s \in Session : /\ queued[s] = Cardinality(Of(s, "Queued"))
                        /\ inFlight[s] = Cardinality(Of(s, "Selected"))
  /\ processQueued = Cardinality(InPhase("Queued"))
  /\ processInFlight = Cardinality(InPhase("Selected"))
  /\ selectedTotal = processInFlight

\* A job that was revoked by a pump: it waits in no queue any more, its token is not
\* dropped, and its session is on its way out of the table.
IsRevoked(j) ==
  /\ j \in DOMAIN reservations \ jobs
  /\ reservations[j].phase = "Queued" /\ table[reservations[j].of] = "closing"

\* A job that was selected by a pump or runs.
IsSelected(j) == j \in DOMAIN reservations /\ reservations[j].phase = "Selected"

\* What a round of a pump holds.
HoldsItsJobs(round) ==
  /\ \A j \in round.revoked : IsRevoked(j)
  /\ round.chosen # None => IsSelected(round.chosen) /\ round.chosen \notin running

\* No two rounds hold the same job.
Apart(round, other) ==
  /\ round.revoked \cap other.revoked = {}
  /\ round.chosen # None => round.chosen # other.chosen

\* Every token has one place that will drop it.
RoundsHold  == \A t \in Thread : \A i \in DOMAIN stack[t] : HoldsItsJobs(stack[t][i])
RoundsApart == \A t, u \in Thread : \A i \in DOMAIN stack[t], k \in DOMAIN stack[u] :
                 t # u \/ i # k => Apart(stack[t][i], stack[u][k])

TokensAreOwned == (\A j \in running : IsSelected(j)) /\ RoundsHold /\ RoundsApart

\* A session stays in the table while it has reservations, and the thread of a job pumps only
\* when its token is dropped.
ReservationsLive ==
  \A j \in DOMAIN reservations : table[reservations[j].of] # "gone" /\ stack[j] = <<>>

DispatchInv ==
  /\ TypeOK /\ CountersExact /\ TokensAreOwned /\ ReservationsLive
  /\ RotationIsComplete /\ HandleIsExclusive

-----------------------------------------------------------------------------
(* Stacks of rounds *)

Round == [revoked : SUBSET Job, chosen : Job \cup {None}]

\* A round takes the place of the innermost one.
LEMMA TopReplaced ==
  ASSUME NEW p \in Seq(Round), p # <<>>, NEW x \in Round
  PROVE  LET q == <<x>> \o Tail(p)
         IN /\ q \in Seq(Round) /\ q # <<>> /\ DOMAIN q = DOMAIN p /\ q[1] = x
            /\ \A k \in DOMAIN q : k # 1 => q[k] = p[k]
<1>1. Tail(p) \in Seq(Round) /\ Len(Tail(p)) = Len(p) - 1 /\ \A i \in 1..Len(Tail(p)) : Tail(p)[i] = p[i + 1]
  BY HeadTailProperties
<1>2. <<x>> \in Seq(Round) /\ Len(<<x>>) = 1 /\ <<x>>[1] = x
  OBVIOUS
<1> DEFINE q == <<x>> \o Tail(p)
<1>3. /\ q \in Seq(Round) /\ Len(q) = 1 + Len(Tail(p))
      /\ \A i \in 1..(1 + Len(Tail(p))) : q[i] = IF i <= 1 THEN <<x>>[i] ELSE Tail(p)[i - 1]
  BY <1>1, <1>2, ConcatProperties
<1>4. Len(p) \in Nat /\ DOMAIN p = 1..Len(p) /\ DOMAIN q = 1..Len(q) /\ Len(p) # 0
  BY <1>3, LenProperties, EmptySeq
<1> QED
  BY <1>1, <1>2, <1>3, <1>4

\* A round begins inside the innermost one.
LEMMA TopNested ==
  ASSUME NEW p \in Seq(Round), NEW x \in Round
  PROVE  LET q == <<x>> \o p
         IN /\ q \in Seq(Round) /\ q # <<>> /\ DOMAIN q = 1..(Len(p) + 1) /\ q[1] = x
            /\ \A k \in DOMAIN p : k + 1 \in DOMAIN q /\ q[k + 1] = p[k]
            /\ \A k \in DOMAIN q : k # 1 => k - 1 \in DOMAIN p /\ q[k] = p[k - 1]
<1>1. <<x>> \in Seq(Round) /\ Len(<<x>>) = 1 /\ <<x>>[1] = x
  OBVIOUS
<1> DEFINE q == <<x>> \o p
<1>2. /\ q \in Seq(Round) /\ Len(q) = 1 + Len(p)
      /\ \A i \in 1..(1 + Len(p)) : q[i] = IF i <= 1 THEN <<x>>[i] ELSE p[i - 1]
  BY <1>1, ConcatProperties
<1>3. Len(p) \in Nat /\ DOMAIN p = 1..Len(p) /\ DOMAIN q = 1..Len(q)
  BY <1>2, LenProperties
<1> QED
  BY <1>1, <1>2, <1>3

\* The innermost round ends.
LEMMA TopEnded ==
  ASSUME NEW p \in Seq(Round), p # <<>>
  PROVE  /\ Tail(p) \in Seq(Round)
         /\ \A k \in DOMAIN Tail(p) : k + 1 \in DOMAIN p /\ Tail(p)[k] = p[k + 1]
<1>1. Tail(p) \in Seq(Round) /\ Len(Tail(p)) = Len(p) - 1 /\ \A i \in 1..Len(Tail(p)) : Tail(p)[i] = p[i + 1]
  BY HeadTailProperties
<1>2. Len(p) \in Nat /\ DOMAIN p = 1..Len(p) /\ DOMAIN Tail(p) = 1..Len(Tail(p))
  BY <1>1, LenProperties
<1> QED
  BY <1>1, <1>2

\* A round that is part of another one holds none but its jobs.
Within(round, other) ==
  /\ round.revoked \subseteq other.revoked
  /\ round.chosen # None => round.chosen = other.chosen

\* When one stack changes, rounds stay apart: each of its rounds is part of the one that was d
\* places before, but for an innermost one that is apart from all there are.
LEMMA StayApart ==
  ASSUME TypeOK, RoundsApart, NEW t \in Thread, NEW q \in Seq(Round), NEW d \in Int,
         stack' = [stack EXCEPT ![t] = q],
         \A k \in DOMAIN q :
           \/ k - d \in DOMAIN stack[t] /\ Within(q[k], stack[t][k - d])
           \/ k = 1 /\ \A u \in Thread : \A i \in DOMAIN stack[u] : Apart(q[1], stack[u][i])
  PROVE  RoundsApart'
<1> DEFINE Fresh(u, i) == u = t /\ i = 1 /\ \A v \in Thread : \A k \in DOMAIN stack[v] : Apart(q[1], stack[v][k])
           Was(u, i) == IF u = t THEN i - d ELSE i
<1>1. stack'[t] = q /\ \A u \in Thread : u # t => stack'[u] = stack[u]
  BY DEF TypeOK
<1>2. \A u \in Thread : \A i \in DOMAIN stack'[u] :
        \/ Fresh(u, i)
        \/ Was(u, i) \in DOMAIN stack[u] /\ Within(stack'[u][i], stack[u][Was(u, i)])
  <2> SUFFICES ASSUME NEW u \in Thread, NEW i \in DOMAIN stack'[u]
               PROVE  \/ Fresh(u, i)
                      \/ Was(u, i) \in DOMAIN stack[u] /\ Within(stack'[u][i], stack[u][Was(u, i)])
    OBVIOUS
  <2>1. CASE u = t
    BY <1>1, <2>1
  <2>2. CASE u # t
    BY <1>1, <2>2 DEF Within
  <2> QED
    BY <2>1, <2>2
<1>3. SUFFICES ASSUME NEW u \in Thread, NEW v \in Thread, NEW i \in DOMAIN stack'[u], NEW k \in DOMAIN stack'[v],
                      u # v \/ i # k
               PROVE  Apart(stack'[u][i], stack'[v][k])
  BY DEF RoundsApart
<1>4. i \in Int /\ k \in Int
  <2>1. \A w \in Thread : stack'[w] \in Seq(Round)
    BY <1>1 DEF TypeOK, Round
  <2> QED
    BY <2>1, LenProperties
<1>5. CASE Fresh(u, i)
  <2>1. ~Fresh(v, k)
    BY <1>3, <1>5
  <2>2. Was(v, k) \in DOMAIN stack[v] /\ Within(stack'[v][k], stack[v][Was(v, k)])
    BY <1>2, <2>1
  <2>3. stack'[u][i] = q[1] /\ Apart(q[1], stack[v][Was(v, k)])
    BY <1>1, <1>5, <2>2
  <2> HIDE DEF Was, Fresh
  <2> QED
    BY <2>2, <2>3 DEF Apart, Within
<1>6. CASE Fresh(v, k)
  <2>1. ~Fresh(u, i)
    BY <1>3, <1>6
  <2>2. Was(u, i) \in DOMAIN stack[u] /\ Within(stack'[u][i], stack[u][Was(u, i)])
    BY <1>2, <2>1
  <2>3. stack'[v][k] = q[1] /\ Apart(q[1], stack[u][Was(u, i)])
    BY <1>1, <1>6, <2>2
  <2> HIDE DEF Was, Fresh
  <2> QED
    BY <2>2, <2>3 DEF Apart, Within
<1>7. CASE ~Fresh(u, i) /\ ~Fresh(v, k)
  <2>1. /\ Was(u, i) \in DOMAIN stack[u] /\ Within(stack'[u][i], stack[u][Was(u, i)])
        /\ Was(v, k) \in DOMAIN stack[v] /\ Within(stack'[v][k], stack[v][Was(v, k)])
    BY <1>2, <1>7
  <2>2. u # v \/ Was(u, i) # Was(v, k)
    BY <1>3, <1>4
  <2> HIDE DEF Was, Fresh
  <2>3. Apart(stack[u][Was(u, i)], stack[v][Was(v, k)])
    BY <2>1, <2>2 DEF RoundsApart
  <2> QED
    BY <2>1, <2>3 DEF Apart, Within
<1> QED
  BY <1>5, <1>6, <1>7

\* A round that begins is apart from all there are.
LEMMA NewPumpApart ==
  ASSUME DispatchAssumption
  PROVE  NewPump \in Round /\ HoldsItsJobs(NewPump)' /\ \A round : Apart(NewPump, round)
  BY DEF NewPump, Round, HoldsItsJobs, Apart

-----------------------------------------------------------------------------
(* Reservations *)

\* A reservation is what its fields say, before and after a step.
LEMMA OfMembers ==
  ASSUME TypeOK, NEW s \in Session, NEW phase \in {"Queued", "Selected"}
  PROVE  /\ Of(s, phase) = {j \in DOMAIN reservations : reservations[j].of = s /\ reservations[j].phase = phase}
         /\ Of(s, phase) \subseteq Job /\ IsFiniteSet(Of(s, phase))
         /\ IsFiniteSet(InPhase(phase))
<1>1. \A j \in DOMAIN reservations : reservations[j] \in [of : Session, phase : {"Queued", "Selected"}]
  BY DEF TypeOK
<1>2. Of(s, phase) \subseteq Job /\ InPhase(phase) \subseteq Job
  BY DEF Of, InPhase, TypeOK
<1>3. IsFiniteSet(Of(s, phase)) /\ IsFiniteSet(InPhase(phase))
  BY <1>2, DispatchAssumption, FS_Subset
<1> QED
  BY <1>1, <1>2, <1>3 DEF Of

LEMMA OfMembersNext ==
  ASSUME TypeOK', NEW s \in Session, NEW phase \in {"Queued", "Selected"}
  PROVE  Of(s, phase)' = {j \in DOMAIN reservations' : reservations'[j].of = s /\ reservations'[j].phase = phase}
<1>1. \A j \in DOMAIN reservations' : reservations'[j] \in [of : Session, phase : {"Queued", "Selected"}]
  BY DEF TypeOK
<1> QED
  BY <1>1 DEF Of

-----------------------------------------------------------------------------
(* Asking for a job *)

\* The new reservation is the only change of the reservations.
LEMMA EnqueueReserves ==
  ASSUME TypeOK, NEW c \in Client, NEW s \in Session, NEW j \in Job, Enqueue(c, s, j)
  PROVE  /\ DOMAIN reservations' = DOMAIN reservations \cup {j} /\ j \notin DOMAIN reservations
         /\ reservations'[j] = [of |-> s, phase |-> "Queued"]
         /\ \A k \in DOMAIN reservations : reservations'[k] = reservations[k]
  BY DEF Enqueue, Reserve, TypeOK

LEMMA EnqueueType ==
  ASSUME TypeOK, NEW c \in Client, NEW s \in Session, NEW j \in Job, Enqueue(c, s, j)
  PROVE  TypeOK'
<1>0. /\ DOMAIN reservations' = DOMAIN reservations \cup {j}
      /\ reservations'[j] = [of |-> s, phase |-> "Queued"]
      /\ \A k \in DOMAIN reservations : reservations'[k] = reservations[k]
  BY EnqueueReserves
<1>1. DOMAIN reservations' \subseteq Job /\ jobs' \subseteq DOMAIN reservations'
  BY <1>0 DEF Enqueue, TypeOK
<1>2. reservations' \in [DOMAIN reservations' -> [of : Session, phase : {"Queued", "Selected"}]]
  BY <1>0 DEF TypeOK, Enqueue, Reserve
<1>3. queues' \in [Session -> Seq(Job)] /\ order' \in Seq(Session)
  BY DEF Enqueue, TypeOK
<1>4. stack' \in [Thread -> Seq([revoked : SUBSET Job, chosen : Job \cup {None}])]
  <2>1. <<NewPump>> \in Seq([revoked : SUBSET Job, chosen : Job \cup {None}])
    BY DEF NewPump
  <2> QED
    BY <2>1 DEF Enqueue, TypeOK
<1>5. queued' \in [Session -> 0..MaxSessionQueue]
  <2>1. queued[s] \in 0..MaxSessionQueue /\ queued[s] < MaxSessionQueue /\ MaxSessionQueue \in Nat
    BY DispatchAssumption DEF Enqueue, TypeOK
  <2>2. queued[s] + 1 \in 0..MaxSessionQueue
    BY <2>1
  <2> QED
    BY <2>2 DEF Enqueue, TypeOK
<1>6. processQueued' \in 0..MaxProcessQueue /\ queuedTotal' \in 0..MaxProcessQueue
  <2>1. /\ MaxProcessQueue \in Nat /\ processQueued \in 0..MaxProcessQueue
        /\ queuedTotal \in 0..MaxProcessQueue
    BY DispatchAssumption DEF TypeOK
  <2>2. /\ processQueued < MaxProcessQueue /\ processQueued' = processQueued + 1
        /\ queuedTotal < MaxProcessQueue /\ queuedTotal' = queuedTotal + 1
    BY DEF Enqueue
  <2> QED
    BY <2>1, <2>2
<1>7. UNCHANGED <<table, selectedFiles, selectedTotal, inFlight, processInFlight, running, opens>>
  BY DEF Enqueue
<1> QED
  BY <1>1, <1>2, <1>3, <1>4, <1>5, <1>6, <1>7 DEF TypeOK

\* What is counted grows by the new reservation.
LEMMA EnqueueCounts ==
  ASSUME TypeOK, CountersExact, NEW c \in Client, NEW s \in Session, NEW j \in Job, Enqueue(c, s, j)
  PROVE  /\ Of(s, "Queued")' = Of(s, "Queued") \cup {j}
         /\ \A u \in Session : u # s => Of(u, "Queued")' = Of(u, "Queued")
         /\ \A u \in Session : Of(u, "Selected")' = Of(u, "Selected")
         /\ CountersExact'
<1>0. /\ DOMAIN reservations' = DOMAIN reservations \cup {j} /\ j \notin DOMAIN reservations
      /\ reservations'[j] = [of |-> s, phase |-> "Queued"]
      /\ \A k \in DOMAIN reservations : reservations'[k] = reservations[k]
  BY EnqueueReserves
<1>1. TypeOK'
  BY EnqueueType
<1>2. Of(s, "Queued")' = Of(s, "Queued") \cup {j}
  BY <1>0 DEF Of
<1>3. \A u \in Session : u # s => Of(u, "Queued")' = Of(u, "Queued")
  BY <1>0 DEF Of
<1>4. \A u \in Session : Of(u, "Selected")' = Of(u, "Selected")
  BY <1>0 DEF Of
<1>5. InPhase("Queued")' = InPhase("Queued") \cup {j} /\ InPhase("Selected")' = InPhase("Selected")
  BY <1>0 DEF InPhase
<1>6. /\ Cardinality(Of(s, "Queued") \cup {j}) = Cardinality(Of(s, "Queued")) + 1
      /\ Cardinality(InPhase("Queued") \cup {j}) = Cardinality(InPhase("Queued")) + 1
  <2>1. j \notin Of(s, "Queued") /\ j \notin InPhase("Queued")
    BY <1>0 DEF Of, InPhase
  <2> QED
    BY <2>1, OfMembers, FS_AddElement
<1>7. CountersExact'
  <2>1. \A u \in Session : /\ queued'[u] = IF u = s THEN queued[u] + 1 ELSE queued[u]
                           /\ inFlight'[u] = inFlight[u]
    BY DEF Enqueue, TypeOK
  <2>2. processQueued' = processQueued + 1 /\ processInFlight' = processInFlight /\ selectedTotal' = selectedTotal
    BY DEF Enqueue
  <2> QED
    BY <1>2, <1>3, <1>4, <1>5, <1>6, <2>1, <2>2 DEF CountersExact
<1> QED
  BY <1>2, <1>3, <1>4, <1>7

LEMMA EnqueueTokens ==
  ASSUME DispatchInv, NEW c \in Client, NEW s \in Session, NEW j \in Job, Enqueue(c, s, j)
  PROVE  TokensAreOwned' /\ ReservationsLive'
<1>0. TypeOK /\ TokensAreOwned /\ ReservationsLive /\ RotationIsComplete
  BY DEF DispatchInv
<1>1. /\ DOMAIN reservations' = DOMAIN reservations \cup {j} /\ j \notin DOMAIN reservations
      /\ reservations'[j] = [of |-> s, phase |-> "Queued"]
      /\ \A k \in DOMAIN reservations : reservations'[k] = reservations[k]
  BY <1>0, EnqueueReserves
<1>2. /\ stack' = [stack EXCEPT ![c] = <<NewPump>>] /\ stack[c] = <<>> /\ stack[j] = <<>>
      /\ running' = running /\ table' = table /\ jobs' = jobs \cup {j} /\ table[s] = "active"
  BY DEF Enqueue
<1>3. c \in Thread /\ \A t \in Thread : t # c => stack'[t] = stack[t]
  BY <1>0, <1>2 DEF TypeOK, Thread
<1>4. stack'[c] = <<NewPump>> /\ <<NewPump>> \in Seq(Round) /\ \A i \in DOMAIN <<NewPump>> : i = 1 /\ <<NewPump>>[i] = NewPump
  BY <1>0, <1>2, <1>3, NewPumpApart, DispatchAssumption DEF TypeOK
<1>5. \A k : IsRevoked(k) => IsRevoked(k)'
  BY <1>1, <1>2 DEF IsRevoked
<1>6. \A k : IsSelected(k) => IsSelected(k)'
  BY <1>1 DEF IsSelected
<1>7. \A round : HoldsItsJobs(round) => HoldsItsJobs(round)'
  BY <1>2, <1>5, <1>6 DEF HoldsItsJobs
<1>8. RoundsHold'
  BY <1>0, <1>3, <1>4, <1>7, NewPumpApart, DispatchAssumption DEF RoundsHold, TokensAreOwned
<1>9. RoundsApart'
  BY <1>0, <1>2, <1>3, <1>4, 0 \in Int, NewPumpApart, DispatchAssumption, StayApart DEF TokensAreOwned
<1>10. ReservationsLive'
  <2>1. \A k \in DOMAIN reservations : k \in Thread /\ k # c
    BY <1>0, DispatchAssumption DEF TypeOK, Thread
  <2>2. j # c /\ j \in Thread
    BY DispatchAssumption DEF Thread
  <2> QED
    BY <1>0, <1>1, <1>2, <1>3, <2>1, <2>2 DEF ReservationsLive
<1> QED
  BY <1>0, <1>2, <1>6, <1>8, <1>9, <1>10 DEF TokensAreOwned

LEMMA EnqueueQueues ==
  ASSUME DispatchInv, NEW c \in Client, NEW s \in Session, NEW j \in Job, Enqueue(c, s, j)
  PROVE  RotationIsComplete' /\ HandleIsExclusive'
<1>0. TypeOK /\ CountersExact /\ RotationIsComplete /\ HandleIsExclusive
  BY DEF DispatchInv
<1>1. /\ Of(s, "Queued")' = Of(s, "Queued") \cup {j}
      /\ \A u \in Session : u # s => Of(u, "Queued")' = Of(u, "Queued")
      /\ \A u \in Session : Of(u, "Selected")' = Of(u, "Selected")
  BY <1>0, EnqueueCounts
<1>2. /\ queues' = [queues EXCEPT ![s] = Append(@, j)]
      /\ order' = IF queues[s] = <<>> THEN Append(order, s) ELSE order
      /\ jobs' = jobs \cup {j} /\ queuedTotal' = queuedTotal + 1 /\ selectedFiles' = selectedFiles
      /\ j \notin DOMAIN reservations
  BY DEF Enqueue
<1>3. j \notin jobs /\ j \notin ToSet(queues[s]) /\ jobs \subseteq Job /\ IsFiniteSet(jobs)
  <2>1. jobs \subseteq Job /\ j \notin jobs
    BY <1>0, <1>2 DEF TypeOK
  <2>2. j \notin ToSet(queues[s])
    BY <1>0, <1>2 DEF RotationIsComplete, Of
  <2> QED
    BY <2>1, <2>2, DispatchAssumption, FS_Subset
<1>4. /\ queues[s] \in Seq(Job) /\ order \in Seq(Session)
      /\ \A u \in Session : queues'[u] = IF u = s THEN Append(queues[s], j) ELSE queues[u]
  BY <1>0, <1>2 DEF TypeOK
<1>5. /\ queues'[s] # <<>> /\ ToSet(queues'[s]) = ToSet(queues[s]) \cup {j}
      /\ IsInjective(queues'[s])
  <2>1. IsInjective(queues[s])
    BY <1>0 DEF RotationIsComplete
  <2>2. /\ Append(queues[s], j) # <<>> /\ ToSet(Append(queues[s], j)) = ToSet(queues[s]) \cup {j}
        /\ IsInjective(Append(queues[s], j))
    BY <1>3, <1>4, <2>1, AppendElements
  <2> QED
    BY <1>4, <2>2
<1>6. \A u \in Session : IsInjective(queues'[u]) /\ ToSet(queues'[u]) \subseteq Of(u, "Queued")'
  <2>1. \A u \in Session : IsInjective(queues[u]) /\ ToSet(queues[u]) \subseteq Of(u, "Queued")
    BY <1>0 DEF RotationIsComplete
  <2> QED
    BY <1>1, <1>4, <1>5, <2>1
<1>7. jobs' = UNION {ToSet(queues'[u]) : u \in Session}
  <2>1. jobs = UNION {ToSet(queues[u]) : u \in Session}
    BY <1>0 DEF RotationIsComplete
  <2>2. \A u \in Session : ToSet(queues'[u]) = IF u = s THEN ToSet(queues[s]) \cup {j} ELSE ToSet(queues[u])
    BY <1>4, <1>5
  <2> QED
    BY <1>2, <2>1, <2>2
<1>8. queuedTotal' = Cardinality(jobs')
  <2>1. queuedTotal = Cardinality(jobs)
    BY <1>0 DEF RotationIsComplete
  <2> QED
    BY <1>2, <1>3, <2>1, FS_AddElement
<1>9. IsInjective(order') /\ ToSet(order') = {u \in Session : queues'[u] # <<>>}
  <2>1. IsInjective(order) /\ ToSet(order) = {u \in Session : queues[u] # <<>>}
    BY <1>0 DEF RotationIsComplete
  <2>2. CASE queues[s] = <<>>
    <3>1. ToSet(order') = ToSet(order) \cup {s} /\ IsInjective(order')
      BY <1>2, <1>4, <2>1, <2>2, AppendElements
    <3> QED
      BY <1>4, <1>5, <2>1, <3>1
  <2>3. CASE queues[s] # <<>>
    BY <1>2, <1>4, <1>5, <2>1, <2>3
  <2> QED
    BY <2>2, <2>3
<1>10. HandleIsExclusive'
  BY <1>0, <1>1, <1>2 DEF HandleIsExclusive
<1>11. RotationIsComplete'
  BY <1>6, <1>7, <1>8, <1>9 DEF RotationIsComplete
<1> QED
  BY <1>10, <1>11

LEMMA EnqueuePreserves ==
  ASSUME DispatchInv, NEW c \in Client, NEW s \in Session, NEW j \in Job, Enqueue(c, s, j)
  PROVE  DispatchInv'
<1>1. TypeOK /\ CountersExact
  BY DEF DispatchInv
<1>2. TypeOK' /\ CountersExact'
  BY <1>1, EnqueueType, EnqueueCounts
<1> QED
  BY <1>2, EnqueueTokens, EnqueueQueues DEF DispatchInv

-----------------------------------------------------------------------------
(* Steps of the table *)

\* What a step that leaves the reservations and the queues alone keeps.
LEMMA ReservationsKept ==
  ASSUME DispatchInv, UNCHANGED <<dispatchVars, counters>>
  PROVE  CountersExact' /\ RotationIsComplete' /\ HandleIsExclusive'
<1>1. UNCHANGED <<queues, order, jobs, reservations, selectedFiles, queuedTotal, selectedTotal,
                  queued, inFlight, processQueued, processInFlight>>
  BY DEF dispatchVars, counters
<1>2. \A s, phase : Of(s, phase)' = Of(s, phase) /\ InPhase(phase)' = InPhase(phase)
  BY <1>1 DEF Of, InPhase
<1> QED
  BY <1>1, <1>2 DEF DispatchInv, CountersExact, RotationIsComplete, HandleIsExclusive

LEMMA TeardownPreserves ==
  ASSUME DispatchInv, NEW c \in Client, NEW s \in Session, Teardown(c, s)
  PROVE  DispatchInv'
<1>0. TypeOK /\ TokensAreOwned /\ ReservationsLive
  BY DEF DispatchInv
<1>1. /\ stack[c] = <<>> /\ table[s] = "active" /\ table' = [table EXCEPT ![s] = "closing"]
      /\ stack' = [stack EXCEPT ![c] = <<NewPump>>] /\ UNCHANGED <<dispatchVars, counters, running, opens>>
  BY DEF Teardown
<1>2. UNCHANGED <<queues, order, jobs, reservations, selectedFiles, queuedTotal, selectedTotal,
                  queued, inFlight, processQueued, processInFlight, running, opens>>
  BY <1>1 DEF dispatchVars, counters
<1>3. c \in Thread /\ \A t \in Thread : t # c => stack'[t] = stack[t]
  BY <1>0, <1>1 DEF TypeOK, Thread
<1>4. stack'[c] = <<NewPump>> /\ <<NewPump>> \in Seq(Round) /\ \A i \in DOMAIN <<NewPump>> : i = 1 /\ <<NewPump>>[i] = NewPump
  BY <1>0, <1>1, <1>3, NewPumpApart, DispatchAssumption DEF TypeOK
<1>5. TypeOK'
  <2>1. table' \in [Session -> {"active", "closing", "gone"}]
    BY <1>0, <1>1 DEF TypeOK
  <2>2. stack' \in [Thread -> Seq([revoked : SUBSET Job, chosen : Job \cup {None}])]
    BY <1>0, <1>1, <1>4 DEF TypeOK, Round
  <2> QED
    BY <1>0, <1>2, <2>1, <2>2 DEF TypeOK
<1>6. \A round : HoldsItsJobs(round) => HoldsItsJobs(round)'
  <2>1. \A k : IsRevoked(k) => IsRevoked(k)'
    BY <1>0, <1>1, <1>2 DEF IsRevoked, TypeOK
  <2> QED
    BY <1>2, <2>1 DEF HoldsItsJobs, IsSelected
<1>7. RoundsHold'
  BY <1>0, <1>3, <1>4, <1>6, NewPumpApart, DispatchAssumption DEF RoundsHold, TokensAreOwned
<1>8. RoundsApart'
  BY <1>0, <1>1, <1>3, <1>4, 0 \in Int, NewPumpApart, DispatchAssumption, StayApart DEF TokensAreOwned
<1>9. TokensAreOwned'
  BY <1>0, <1>2, <1>7, <1>8 DEF TokensAreOwned, IsSelected
<1>10. ReservationsLive'
  <2>1. \A k \in DOMAIN reservations : k # c /\ k \in Thread
    BY <1>0, DispatchAssumption DEF TypeOK, Thread
  <2>2. \A k \in DOMAIN reservations : reservations[k].of \in Session
    BY <1>0 DEF TypeOK
  <2> QED
    BY <1>0, <1>1, <1>2, <1>3, <2>1, <2>2 DEF ReservationsLive, TypeOK
<1> QED
  BY <1>1, <1>5, <1>9, <1>10, ReservationsKept DEF DispatchInv

\* The table changes for a session that has no reservation.
LEMMA TableMoves ==
  ASSUME DispatchInv, NEW s \in Session, Of(s, "Queued") = {}, Of(s, "Selected") = {},
         NEW state \in {"active", "closing", "gone"}, table' = [table EXCEPT ![s] = state],
         opens' \in 0..MaxOpens, UNCHANGED <<dispatchVars, counters, running, stack>>
  PROVE  DispatchInv'
<1>0. TypeOK /\ TokensAreOwned /\ ReservationsLive
  BY DEF DispatchInv
<1>1. UNCHANGED <<queues, order, jobs, reservations, selectedFiles, queuedTotal, selectedTotal,
                  queued, inFlight, processQueued, processInFlight, running, stack>>
  BY DEF dispatchVars, counters
<1>2. TypeOK'
  <2>1. table' \in [Session -> {"active", "closing", "gone"}]
    BY <1>0 DEF TypeOK
  <2> QED
    BY <1>0, <1>1, <2>1 DEF TypeOK
<1>3. \A j \in DOMAIN reservations : table'[reservations[j].of] = table[reservations[j].of]
  <2> SUFFICES ASSUME NEW j \in DOMAIN reservations PROVE table'[reservations[j].of] = table[reservations[j].of]
    OBVIOUS
  <2>1. reservations[j] \in [of : Session, phase : {"Queued", "Selected"}]
    BY <1>0 DEF TypeOK
  <2>2. reservations[j].of # s
    BY <2>1 DEF Of
  <2> QED
    BY <1>0, <2>1, <2>2 DEF TypeOK
<1>4. \A round : HoldsItsJobs(round) => HoldsItsJobs(round)'
  <2>1. \A k : IsRevoked(k) => IsRevoked(k)'
    BY <1>1, <1>3 DEF IsRevoked
  <2> QED
    BY <1>1, <2>1 DEF HoldsItsJobs, IsSelected
<1>5. TokensAreOwned'
  BY <1>0, <1>1, <1>4 DEF TokensAreOwned, RoundsHold, RoundsApart, IsSelected
<1>6. ReservationsLive'
  BY <1>0, <1>1, <1>3 DEF ReservationsLive
<1> QED
  BY <1>2, <1>5, <1>6, ReservationsKept DEF DispatchInv

LEMMA ClosePreserves ==
  ASSUME DispatchInv, NEW s \in Session, Close(s)
  PROVE  DispatchInv'
<1>0. TypeOK /\ CountersExact
  BY DEF DispatchInv
<1>1. Cardinality(Of(s, "Queued")) = 0 /\ Cardinality(Of(s, "Selected")) = 0
  BY <1>0 DEF Close, CountersExact
<1>2. Of(s, "Queued") = {} /\ Of(s, "Selected") = {}
  BY <1>0, <1>1, OfMembers, FS_EmptySet
<1>3. opens' \in 0..MaxOpens
  BY <1>0 DEF Close, TypeOK
<1> QED
  BY <1>2, <1>3, TableMoves DEF Close

LEMMA OpenPreserves ==
  ASSUME DispatchInv, NEW s \in Session, Open(s)
  PROVE  DispatchInv'
<1>0. TypeOK /\ ReservationsLive
  BY DEF DispatchInv
<1>1. Of(s, "Queued") = {} /\ Of(s, "Selected") = {}
  BY <1>0 DEF Open, ReservationsLive, Of
<1>2. opens' \in 0..MaxOpens
  BY <1>0, DispatchAssumption DEF Open, TypeOK
<1> QED
  BY <1>1, <1>2, TableMoves DEF Open

-----------------------------------------------------------------------------
(* A round of a pump: what it revokes *)

\* The jobs that a round revokes wait in a queue, of a session on its way out of the table.
LEMMA RevokedJobs ==
  ASSUME DispatchInv
  PROVE  /\ jobs \subseteq Job /\ Revoked \subseteq jobs /\ IsFiniteSet(Revoked) /\ IsFiniteSet(jobs)
         /\ \A j \in jobs : reservations[j].phase = "Queued" /\ j \in DOMAIN reservations
         /\ \A j \in Revoked : table[reservations[j].of] = "closing"
<1>0. TypeOK /\ RotationIsComplete /\ ReservationsLive
  BY DEF DispatchInv
<1>1. jobs \subseteq Job /\ Revoked \subseteq jobs /\ jobs \subseteq DOMAIN reservations
  BY <1>0 DEF Revoked, TypeOK
<1>2. IsFiniteSet(Revoked) /\ IsFiniteSet(jobs)
  BY <1>1, DispatchAssumption, FS_Subset
<1>3. \A j \in jobs : reservations[j].phase = "Queued"
  <2> SUFFICES ASSUME NEW j \in jobs PROVE reservations[j].phase = "Queued"
    OBVIOUS
  <2>1. PICK s \in Session : j \in Of(s, "Queued")
    BY <1>0 DEF RotationIsComplete
  <2> QED
    BY <2>1 DEF Of
<1>4. \A j \in Revoked : table[reservations[j].of] = "closing"
  <2> SUFFICES ASSUME NEW j \in Revoked PROVE table[reservations[j].of] = "closing"
    OBVIOUS
  <2>1. /\ j \in DOMAIN reservations /\ table[reservations[j].of] # "active" /\ table[reservations[j].of] # "gone"
        /\ reservations[j].of \in Session
    BY <1>0, <1>1 DEF Revoked, ReservationsLive, TypeOK
  <2> QED
    BY <1>0, <2>1 DEF TypeOK
<1> QED
  BY <1>1, <1>2, <1>3, <1>4

\* The queues and the rotation that a revocation leaves fit together.
LEMMA RevokedQueuesSound ==
  ASSUME DispatchInv
  PROVE  LET qs == RevokedQueues
             ord == RevokedOrder(qs)
         IN /\ qs \in [Session -> Seq(Job)] /\ ord \in Seq(Session)
            /\ \A s \in Session : IsInjective(qs[s]) /\ ToSet(qs[s]) = ToSet(queues[s]) \cap (jobs \ Revoked)
            /\ IsInjective(ord) /\ ToSet(ord) = {s \in Session : qs[s] # <<>>}
            /\ UNION {ToSet(qs[s]) : s \in Session} = jobs \ Revoked
            /\ queuedTotal - Cardinality(Revoked) = Cardinality(jobs \ Revoked)
            /\ Cardinality(jobs \ Revoked) \in Nat /\ Cardinality(Revoked) \in Nat
<1> DEFINE qs == RevokedQueues
           ord == RevokedOrder(qs)
<1>0. TypeOK /\ RotationIsComplete
  BY DEF DispatchInv
<1>1. queues \in [Session -> Seq(Job)] /\ order \in Seq(Session)
  BY <1>0 DEF TypeOK
<1>2. \A s \in Session : /\ IsInjective(queues[s]) /\ ToSet(queues[s]) \subseteq jobs
                         /\ queues[s] # <<>> <=> s \in ToSet(order)
  BY <1>0 DEF RotationIsComplete
<1>3. ASSUME NEW s \in Session
      PROVE  /\ qs[s] \in Seq(Job) /\ IsInjective(qs[s])
             /\ ToSet(qs[s]) = ToSet(queues[s]) \cap (jobs \ Revoked)
  <2>1. qs[s] = Kept(queues[s], jobs \ Revoked)
    BY DEF RevokedQueues
  <2>2. queues[s] \in Seq(Job) /\ IsInjective(queues[s])
    BY <1>1, <1>2
  <2> QED
    BY <2>1, <2>2, KeptElements
<1>4. qs \in [Session -> Seq(Job)]
  BY <1>3 DEF RevokedQueues
<1>5. ord \in Seq(Session) /\ IsInjective(ord) /\ ToSet(ord) = ToSet(order) \cap {s \in Session : qs[s] # <<>>}
  <2>1. IsInjective(order)
    BY <1>0 DEF RotationIsComplete
  <2> HIDE DEF qs
  <2> QED
    BY <1>1, <2>1, KeptElements DEF RevokedOrder
<1> HIDE DEF qs, ord
<1>6. ToSet(ord) = {s \in Session : qs[s] # <<>>}
  <2>1. \A s \in Session : qs[s] # <<>> => ToSet(qs[s]) # {}
    BY <1>3, NoElements
  <2>2. \A s \in Session : ToSet(queues[s]) # {} => queues[s] # <<>>
    BY <1>1, NoElements
  <2>3. \A s \in Session : qs[s] # <<>> => queues[s] # <<>>
    BY <1>3, <2>1, <2>2
  <2> QED
    BY <1>2, <1>5, <2>3
<1>7. UNION {ToSet(qs[s]) : s \in Session} = jobs \ Revoked
  <2>1. jobs = UNION {ToSet(queues[s]) : s \in Session}
    BY <1>0 DEF RotationIsComplete
  <2> QED
    BY <1>3, <2>1
<1>8. /\ queuedTotal - Cardinality(Revoked) = Cardinality(jobs \ Revoked)
      /\ Cardinality(jobs \ Revoked) \in Nat /\ Cardinality(Revoked) \in Nat
  <2>1. Revoked \subseteq jobs /\ IsFiniteSet(jobs) /\ IsFiniteSet(Revoked) /\ IsFiniteSet(jobs \ Revoked)
    BY RevokedJobs, FS_Subset
  <2>2. /\ Cardinality(jobs) \in Nat /\ Cardinality(Revoked) \in Nat /\ Cardinality(jobs \ Revoked) \in Nat
    BY <2>1, FS_CardinalityType
  <2>3. Cardinality(jobs \ Revoked) = Cardinality(jobs) - Cardinality(jobs \cap Revoked)
    BY <2>1, FS_Difference
  <2>4. jobs \cap Revoked = Revoked /\ queuedTotal = Cardinality(jobs)
    BY <1>0, <2>1 DEF RotationIsComplete
  <2> QED
    BY <2>2, <2>3, <2>4
<1> QED
  BY <1>3, <1>4, <1>5, <1>6, <1>7, <1>8 DEF qs, ord

\* A round that finds nobody to serve, and one that serves the first it may.
Fruitless(t, qs, ord) ==
  /\ selectedTotal >= MaxProcessInFlight \/ \A i \in DOMAIN ord : ~Eligible(ord[i], qs)
  /\ SelectNobody(qs, ord) /\ RoundResult(t, Revoked, None)

Serving(t, i, qs, ord) ==
  /\ selectedTotal < MaxProcessInFlight /\ Eligible(ord[i], qs)
  /\ Select(i, qs, ord) /\ RoundResult(t, Revoked, Head(qs[ord[i]]))

LEMMA PumpRoundCases ==
  ASSUME DispatchInv, NEW t \in Thread, PumpRound(t)
  PROVE  LET qs == RevokedQueues
             ord == RevokedOrder(qs)
         IN /\ Pumping(t) /\ Top(t) = NewPump /\ UNCHANGED <<table, running, opens>>
            /\ Fruitless(t, qs, ord) \/ \E i \in DOMAIN ord : Serving(t, i, qs, ord)
<1> DEFINE qs == RevokedQueues
           ord == RevokedOrder(qs)
           may == IF selectedTotal >= MaxProcessInFlight THEN {}
                  ELSE {i \in DOMAIN ord : Eligible(ord[i], qs)}
           first == CHOOSE i \in may : \A k \in may : i <= k
<1>1. /\ Pumping(t) /\ Top(t) = NewPump /\ UNCHANGED <<table, running, opens>>
      /\ IF may = {} THEN SelectNobody(qs, ord) /\ RoundResult(t, Revoked, None)
         ELSE Select(first, qs, ord) /\ RoundResult(t, Revoked, Head(qs[ord[first]]))
  BY DEF PumpRound
<1>2. may \in SUBSET Nat
  <2>1. ord \in Seq(Session)
    BY RevokedQueuesSound
  <2> HIDE DEF ord
  <2>2. DOMAIN ord \subseteq Nat
    BY <2>1, LenProperties
  <2> QED
    BY <2>2
<1>3. selectedTotal \in Int /\ MaxProcessInFlight \in Int
  BY DispatchAssumption DEF DispatchInv, TypeOK
<1>4. CASE may = {}
  <2>1. selectedTotal >= MaxProcessInFlight \/ \A i \in DOMAIN ord : ~Eligible(ord[i], qs)
    BY <1>4
  <2> HIDE DEF qs, ord, may, first
  <2>2. Fruitless(t, qs, ord)
    BY <1>1, <1>4, <2>1 DEF Fruitless
  <2> QED
    BY <1>1, <2>2 DEF qs, ord
<1>5. CASE may # {}
  <2>1. first \in may
    <3> HIDE DEF may
    <3>1. \E i \in may : \A k \in may : i <= k
      BY <1>2, <1>5, LeastNumber
    <3> QED
      BY <3>1
  <2> HIDE DEF first
  <2>2. first \in DOMAIN ord /\ ~(selectedTotal >= MaxProcessInFlight) /\ Eligible(ord[first], qs)
    BY <2>1
  <2> HIDE DEF qs, ord, may
  <2>3. Serving(t, first, qs, ord)
    BY <1>1, <1>3, <1>5, <2>2 DEF Serving
  <2> QED
    BY <1>1, <2>2, <2>3 DEF qs, ord
<1> QED
  BY <1>4, <1>5

-----------------------------------------------------------------------------
(* A round of a pump: what it leaves *)

\* A round that leaves its pump jobs that waited until then keeps every token owned.
LEMMA RoundTokens ==
  ASSUME DispatchInv, NEW t \in Thread, Pumping(t), NEW chosen \in Job \cup {None},
         RoundResult(t, Revoked, chosen), chosen # None => chosen \in jobs,
         \A round : HoldsItsJobs(round) => HoldsItsJobs(round)',
         \A j \in Revoked : IsRevoked(j)',
         chosen # None => IsSelected(chosen)' /\ chosen \notin running'
  PROVE  /\ stack' \in [Thread -> Seq(Round)] /\ RoundsHold' /\ RoundsApart'
         /\ \A j \in DOMAIN reservations : j \in Thread /\ stack'[j] = <<>>
         /\ Revoked # {} \/ chosen # None => Pumping(t)'
<1>0. TypeOK /\ TokensAreOwned /\ ReservationsLive
  BY DEF DispatchInv
<1> DEFINE x == [revoked |-> Revoked, chosen |-> chosen]
           q == IF Revoked = {} /\ chosen = None THEN Tail(stack[t]) ELSE <<x>> \o Tail(stack[t])
<1>1. stack' = [stack EXCEPT ![t] = q] /\ stack[t] \in Seq(Round) /\ stack[t] # <<>>
  BY <1>0 DEF RoundResult, Pumping, TypeOK, Round
<1>2. x \in Round
  BY RevokedJobs DEF Round
<1>3. \A u \in Thread : \A i \in DOMAIN stack[u] : Apart(x, stack[u][i])
  <2> SUFFICES ASSUME NEW u \in Thread, NEW i \in DOMAIN stack[u] PROVE Apart(x, stack[u][i])
    OBVIOUS
  <2>1. HoldsItsJobs(stack[u][i])
    BY <1>0 DEF TokensAreOwned, RoundsHold
  <2>2. \A j \in stack[u][i].revoked : j \notin jobs
    BY <2>1 DEF HoldsItsJobs, IsRevoked
  <2>3. stack[u][i].chosen # None => stack[u][i].chosen \notin jobs
    <3>1. \A j \in jobs : reservations[j].phase = "Queued"
      BY RevokedJobs
    <3> QED
      BY <2>1, <3>1 DEF HoldsItsJobs, IsSelected
  <2> QED
    BY <2>2, <2>3, RevokedJobs DEF Apart
<1> HIDE DEF x
<1>4. CASE Revoked = {} /\ chosen = None
  <2>1. q = Tail(stack[t])
    BY <1>4
  <2> HIDE DEF q
  <2>2. q \in Seq(Round) /\ \A k \in DOMAIN q : k + 1 \in DOMAIN stack[t] /\ q[k] = stack[t][k + 1]
    BY <1>1, <2>1, TopEnded
  <2>3. stack'[t] = q /\ \A u \in Thread : u # t => stack'[u] = stack[u]
    BY <1>0, <1>1 DEF TypeOK
  <2>4. stack' \in [Thread -> Seq(Round)]
    BY <1>0, <1>1, <2>2 DEF TypeOK, Round
  <2>5. RoundsHold'
    BY <1>0, <2>2, <2>3 DEF TokensAreOwned, RoundsHold
  <2>6. RoundsApart'
    <3>1. -1 \in Int
      OBVIOUS
    <3>2. \A k \in DOMAIN q : k - (-1) \in DOMAIN stack[t] /\ Within(q[k], stack[t][k - (-1)])
      <4> SUFFICES ASSUME NEW k \in DOMAIN q
                   PROVE  k - (-1) \in DOMAIN stack[t] /\ Within(q[k], stack[t][k - (-1)])
        OBVIOUS
      <4>1. k \in Int
        BY <2>2, LenProperties
      <4>2. k - (-1) = k + 1
        BY <4>1
      <4> QED
        BY <2>2, <4>2 DEF Within
    <3> QED
      BY <1>0, <1>1, <2>2, <3>1, <3>2, StayApart DEF TokensAreOwned
  <2>7. \A j \in DOMAIN reservations : j \in Thread /\ stack'[j] = <<>>
    BY <1>0, <1>1, <2>3 DEF ReservationsLive, TypeOK, Thread
  <2> QED
    BY <1>4, <2>4, <2>5, <2>6, <2>7
<1>5. CASE ~(Revoked = {} /\ chosen = None)
  <2>1. q = <<x>> \o Tail(stack[t])
    BY <1>5
  <2> HIDE DEF q
  <2>2. /\ q \in Seq(Round) /\ q # <<>> /\ DOMAIN q = DOMAIN stack[t] /\ q[1] = x
        /\ \A k \in DOMAIN q : k # 1 => q[k] = stack[t][k]
    BY <1>1, <1>2, <2>1, TopReplaced
  <2>3. stack'[t] = q /\ \A u \in Thread : u # t => stack'[u] = stack[u]
    BY <1>0, <1>1 DEF TypeOK
  <2>4. stack' \in [Thread -> Seq(Round)]
    BY <1>0, <1>1, <2>2 DEF TypeOK, Round
  <2>5. RoundsHold'
    <3> SUFFICES ASSUME NEW u \in Thread, NEW i \in DOMAIN stack'[u] PROVE HoldsItsJobs(stack[u][i])'
      BY DEF RoundsHold
    <3>1. CASE u = t /\ i = 1
      <4>1. stack'[u][i].revoked = Revoked /\ stack'[u][i].chosen = chosen
        BY <2>2, <2>3, <3>1 DEF x
      <4> QED
        BY <4>1 DEF HoldsItsJobs
    <3>2. CASE ~(u = t /\ i = 1)
      <4>1. i \in DOMAIN stack[u] /\ stack'[u][i] = stack[u][i]
        BY <2>2, <2>3, <3>2
      <4>2. HoldsItsJobs(stack[u][i])
        BY <1>0, <4>1 DEF TokensAreOwned, RoundsHold
      <4> QED
        BY <4>1, <4>2
    <3> QED
      BY <3>1, <3>2
  <2>6. RoundsApart'
    <3>1. \A k \in DOMAIN q : k - 0 = k
      BY <2>2, LenProperties
    <3>2. \A k \in DOMAIN q : \/ k - 0 \in DOMAIN stack[t] /\ Within(q[k], stack[t][k - 0])
                              \/ k = 1 /\ \A u \in Thread : \A i \in DOMAIN stack[u] : Apart(q[1], stack[u][i])
      BY <1>3, <2>2, <3>1 DEF Within
    <3> QED
      BY <1>0, <1>1, <2>2, 0 \in Int, <3>2, StayApart DEF TokensAreOwned
  <2>7. \A j \in DOMAIN reservations : j \in Thread /\ stack'[j] = <<>>
    BY <1>0, <1>1, <2>3 DEF ReservationsLive, TypeOK, Thread
  <2> QED
    BY <2>2, <2>3, <2>4, <2>5, <2>6, <2>7 DEF Pumping
<1> QED
  BY <1>4, <1>5

LEMMA FruitlessPreserves ==
  ASSUME DispatchInv, NEW t \in Thread, Pumping(t), UNCHANGED <<table, running, opens>>,
         Fruitless(t, RevokedQueues, RevokedOrder(RevokedQueues))
  PROVE  DispatchInv'
<1> DEFINE qs == RevokedQueues
           ord == RevokedOrder(qs)
<1>0. TypeOK /\ TokensAreOwned /\ ReservationsLive /\ CountersExact /\ RotationIsComplete /\ HandleIsExclusive
  BY DEF DispatchInv
<1>1. /\ queues' = qs /\ order' = ord /\ jobs' = jobs \ Revoked
      /\ queuedTotal' = queuedTotal - Cardinality(Revoked)
      /\ UNCHANGED <<reservations, selectedFiles, selectedTotal, queued, inFlight, processQueued, processInFlight>>
      /\ RoundResult(t, Revoked, None)
  BY DEF Fruitless, SelectNobody, counters
<1>2. /\ qs \in [Session -> Seq(Job)] /\ ord \in Seq(Session)
      /\ \A s \in Session : IsInjective(qs[s]) /\ ToSet(qs[s]) = ToSet(queues[s]) \cap (jobs \ Revoked)
      /\ IsInjective(ord) /\ ToSet(ord) = {s \in Session : qs[s] # <<>>}
      /\ UNION {ToSet(qs[s]) : s \in Session} = jobs \ Revoked
      /\ queuedTotal - Cardinality(Revoked) = Cardinality(jobs \ Revoked)
      /\ Cardinality(jobs \ Revoked) \in Nat /\ Cardinality(Revoked) \in Nat
  BY RevokedQueuesSound
<1> HIDE DEF qs, ord
<1>3. \A s, phase : Of(s, phase)' = Of(s, phase) /\ InPhase(phase)' = InPhase(phase)
  BY <1>1 DEF Of, InPhase
<1>4. CountersExact' /\ HandleIsExclusive'
  BY <1>0, <1>1, <1>3 DEF CountersExact, HandleIsExclusive
<1>5. RotationIsComplete'
  BY <1>0, <1>1, <1>2, <1>3 DEF RotationIsComplete
<1>6. \A round : HoldsItsJobs(round) => HoldsItsJobs(round)'
  <2>1. \A k : IsRevoked(k) => IsRevoked(k)'
    BY <1>1 DEF IsRevoked
  <2> QED
    BY <1>1, <2>1 DEF HoldsItsJobs, IsSelected
<1>7. \A k \in Revoked : IsRevoked(k)'
  <2>1. \A k \in Revoked : /\ k \in DOMAIN reservations /\ reservations[k].phase = "Queued"
                           /\ table[reservations[k].of] = "closing"
    BY RevokedJobs
  <2> QED
    BY <1>1, <2>1 DEF IsRevoked
<1>8. /\ stack' \in [Thread -> Seq(Round)] /\ RoundsHold' /\ RoundsApart'
      /\ \A j \in DOMAIN reservations : j \in Thread /\ stack'[j] = <<>>
  BY <1>1, <1>6, <1>7, RoundTokens
<1>9. TypeOK'
  <2>1. queuedTotal' \in 0..MaxProcessQueue
    <3>1. queuedTotal \in 0..MaxProcessQueue /\ MaxProcessQueue \in Nat
      BY <1>0, DispatchAssumption DEF TypeOK
    <3> QED
      BY <1>1, <1>2, <3>1
  <2> QED
    BY <1>0, <1>1, <1>2, <1>8, <2>1 DEF TypeOK, Round
<1>10. TokensAreOwned' /\ ReservationsLive'
  BY <1>0, <1>1, <1>8 DEF TokensAreOwned, IsSelected, ReservationsLive
<1> QED
  BY <1>4, <1>5, <1>9, <1>10 DEF DispatchInv

\* The rotation after a session was served: the others, and it too if its queue goes on.
LEMMA RotatedElements ==
  ASSUME NEW qs, NEW ord \in Seq(Session), NEW i \in DOMAIN ord, IsInjective(ord)
  PROVE  /\ Rotated(i, qs, ord) \in Seq(Session) /\ IsInjective(Rotated(i, qs, ord))
         /\ ToSet(Rotated(i, qs, ord)) = IF Len(qs[ord[i]]) = 1 THEN ToSet(ord) \ {ord[i]} ELSE ToSet(ord)
<1> DEFINE n == Len(ord)
           after == SubSeq(ord, i + 1, n)
           before == SubSeq(ord, 1, i - 1)
           last == IF Len(qs[ord[i]]) = 1 THEN <<>> ELSE <<ord[i]>>
<1>1. n \in Nat /\ DOMAIN ord = 1..n /\ i \in 1..n /\ \A k \in 1..n : ord[k] \in Session
  BY LenProperties
<1>2. \A k, m \in 1..n : ord[k] = ord[m] => k = m
  BY <1>1 DEF IsInjective
<1>3. \A x : x \in ToSet(ord) <=> \E k \in 1..n : ord[k] = x
  BY <1>1 DEF ToSet
<1>4. /\ after \in Seq(Session) /\ IsInjective(after)
      /\ \A x : x \in ToSet(after) <=> \E k \in (i + 1)..n : ord[k] = x
  <2>1. i + 1 \in 1..(n + 1) /\ n \in ((i + 1) - 1)..n
    BY <1>1
  <2> QED
    BY <2>1, SubSeqElements
<1>5. /\ before \in Seq(Session) /\ IsInjective(before)
      /\ \A x : x \in ToSet(before) <=> \E k \in 1..(i - 1) : ord[k] = x
  <2>1. 1 \in 1..(n + 1) /\ i - 1 \in (1 - 1)..n
    BY <1>1
  <2> QED
    BY <2>1, SubSeqElements
<1>6. /\ last \in Seq(Session) /\ IsInjective(last)
      /\ ToSet(last) = IF Len(qs[ord[i]]) = 1 THEN {} ELSE {ord[i]}
  BY <1>1 DEF IsInjective, ToSet
<1> HIDE DEF after, before, last
<1>7. ToSet(after) \cap ToSet(before) = {}
  <2> SUFFICES ASSUME NEW k \in (i + 1)..n, NEW m \in 1..(i - 1), ord[k] = ord[m] PROVE FALSE
    BY <1>4, <1>5
  <2>1. k \in 1..n /\ m \in 1..n /\ k # m
    BY <1>1
  <2> QED
    BY <1>2, <2>1
<1>8. after \o before \in Seq(Session) /\ IsInjective(after \o before)
      /\ ToSet(after \o before) = ToSet(after) \cup ToSet(before)
  BY <1>4, <1>5, <1>7, ConcatElements
<1>9. ToSet(after \o before) = ToSet(ord) \ {ord[i]}
  <2>1. ASSUME NEW x PROVE x \in ToSet(after \o before) <=> x \in ToSet(ord) /\ x # ord[i]
    <3>1. x \in ToSet(after \o before) => \E k \in 1..n : ord[k] = x /\ k # i
      <4>1. \A k \in (i + 1)..n : k \in 1..n /\ k # i
        BY <1>1
      <4>2. \A k \in 1..(i - 1) : k \in 1..n /\ k # i
        BY <1>1
      <4> QED
        BY <1>4, <1>5, <1>8, <4>1, <4>2
    <3>2. (\E k \in 1..n : ord[k] = x /\ k # i) => x \in ToSet(after \o before)
      <4>1. \A k \in 1..n : k # i => k \in (i + 1)..n \/ k \in 1..(i - 1)
        BY <1>1
      <4> QED
        BY <1>4, <1>5, <1>8, <4>1
    <3>3. (\E k \in 1..n : ord[k] = x /\ k # i) <=> x \in ToSet(ord) /\ x # ord[i]
      BY <1>1, <1>2, <1>3
    <3> QED
      BY <3>1, <3>2, <3>3
  <2> QED
    BY <2>1
<1> DEFINE both == after \o before
<1>10. both \in Seq(Session) /\ IsInjective(both) /\ ToSet(both) = ToSet(ord) \ {ord[i]}
  BY <1>8, <1>9
<1>11. Rotated(i, qs, ord) = both \o last
  BY DEF Rotated, after, before, last
<1> HIDE DEF both
<1>12. /\ both \o last \in Seq(Session) /\ IsInjective(both \o last)
       /\ ToSet(both \o last) = ToSet(both) \cup ToSet(last)
  <2>1. ToSet(both) \cap ToSet(last) = {}
    BY <1>6, <1>10
  <2> QED
    BY <1>6, <1>10, <2>1, ConcatElements
<1>13. ord[i] \in ToSet(ord)
  BY <1>1, <1>3
<1> QED
  BY <1>6, <1>10, <1>11, <1>12, <1>13

\* The job that a round selects waited until then, and nobody uses its session's handle.
LEMMA ServedJob ==
  ASSUME DispatchInv, NEW i \in DOMAIN RevokedOrder(RevokedQueues),
         Eligible(RevokedOrder(RevokedQueues)[i], RevokedQueues)
  PROVE  LET qs == RevokedQueues
             s == RevokedOrder(qs)[i]
             j == Head(qs[s])
         IN /\ s \in Session /\ qs[s] # <<>> /\ j \in Job /\ j \in ToSet(qs[s]) /\ j \in jobs \ Revoked
            /\ j \in Of(s, "Queued") /\ Of(s, "Selected") = {}
            /\ j \in DOMAIN reservations /\ reservations[j] = [of |-> s, phase |-> "Queued"]
<1> DEFINE qs == RevokedQueues
           ord == RevokedOrder(qs)
           s == ord[i]
           j == Head(qs[s])
<1>0. TypeOK /\ RotationIsComplete /\ HandleIsExclusive
  BY DEF DispatchInv
<1>1. /\ qs \in [Session -> Seq(Job)] /\ ord \in Seq(Session)
      /\ \A u \in Session : ToSet(qs[u]) = ToSet(queues[u]) \cap (jobs \ Revoked)
  BY RevokedQueuesSound
<1>2. qs[s] # <<>> /\ s \notin selectedFiles
  BY DEF Eligible
<1>3. i \in DOMAIN ord
  OBVIOUS
<1> HIDE DEF qs, ord
<1>4. s \in Session
  BY <1>1, <1>3, LenProperties
<1> HIDE DEF s
<1>5. j \in Job /\ j \in ToSet(qs[s])
  BY <1>1, <1>2, <1>4, TailElements
<1>6. j \in jobs \ Revoked /\ j \in ToSet(queues[s])
  BY <1>1, <1>4, <1>5
<1>7. j \in Of(s, "Queued") /\ Of(s, "Selected") = {}
  BY <1>0, <1>2, <1>4, <1>6 DEF RotationIsComplete, HandleIsExclusive
<1>8. j \in DOMAIN reservations /\ reservations[j] = [of |-> s, phase |-> "Queued"]
  BY <1>7 DEF Of
<1> QED
  BY <1>2, <1>4, <1>5, <1>6, <1>7, <1>8 DEF qs, ord, s

\* A reservation goes from the queued to the selected.
LEMMA SelectedCounts ==
  ASSUME TypeOK, NEW s \in Session, NEW j \in Job, j \in DOMAIN reservations,
         reservations[j] = [of |-> s, phase |-> "Queued"],
         reservations' = [reservations EXCEPT ![j].phase = "Selected"]
  PROVE  /\ DOMAIN reservations' = DOMAIN reservations
         /\ \A k \in DOMAIN reservations : k # j => reservations'[k] = reservations[k]
         /\ reservations'[j] = [of |-> s, phase |-> "Selected"]
         /\ reservations' \in [DOMAIN reservations -> [of : Session, phase : {"Queued", "Selected"}]]
         /\ Of(s, "Queued")' = Of(s, "Queued") \ {j} /\ Of(s, "Selected")' = Of(s, "Selected") \cup {j}
         /\ \A u \in Session : u # s => Of(u, "Queued")' = Of(u, "Queued") /\ Of(u, "Selected")' = Of(u, "Selected")
         /\ InPhase("Queued")' = InPhase("Queued") \ {j} /\ InPhase("Selected")' = InPhase("Selected") \cup {j}
         /\ Cardinality(Of(s, "Queued")') = Cardinality(Of(s, "Queued")) - 1
         /\ Cardinality(Of(s, "Selected")') = Cardinality(Of(s, "Selected")) + 1
         /\ Cardinality(InPhase("Queued")') = Cardinality(InPhase("Queued")) - 1
         /\ Cardinality(InPhase("Selected")') = Cardinality(InPhase("Selected")) + 1
<1>1. /\ DOMAIN reservations' = DOMAIN reservations
      /\ \A k \in DOMAIN reservations : k # j => reservations'[k] = reservations[k]
      /\ reservations'[j] = [of |-> s, phase |-> "Selected"]
      /\ reservations' \in [DOMAIN reservations -> [of : Session, phase : {"Queued", "Selected"}]]
  BY DEF TypeOK
<1>2. /\ Of(s, "Queued")' = Of(s, "Queued") \ {j} /\ Of(s, "Selected")' = Of(s, "Selected") \cup {j}
      /\ j \in Of(s, "Queued") /\ j \notin Of(s, "Selected")
  BY <1>1 DEF Of
<1>3. \A u \in Session : u # s => Of(u, "Queued")' = Of(u, "Queued") /\ Of(u, "Selected")' = Of(u, "Selected")
  BY <1>1 DEF Of
<1>4. /\ InPhase("Queued")' = InPhase("Queued") \ {j} /\ InPhase("Selected")' = InPhase("Selected") \cup {j}
      /\ j \in InPhase("Queued") /\ j \notin InPhase("Selected")
  BY <1>1 DEF InPhase
<1>5. /\ IsFiniteSet(Of(s, "Queued")) /\ IsFiniteSet(Of(s, "Selected"))
      /\ IsFiniteSet(InPhase("Queued")) /\ IsFiniteSet(InPhase("Selected"))
  BY OfMembers
<1>6. /\ Cardinality(Of(s, "Queued") \ {j}) = Cardinality(Of(s, "Queued")) - 1
      /\ Cardinality(InPhase("Queued") \ {j}) = Cardinality(InPhase("Queued")) - 1
  BY <1>2, <1>4, <1>5, FS_RemoveElement
<1>7. /\ Cardinality(Of(s, "Selected") \cup {j}) = Cardinality(Of(s, "Selected")) + 1
      /\ Cardinality(InPhase("Selected") \cup {j}) = Cardinality(InPhase("Selected")) + 1
  BY <1>2, <1>4, <1>5, FS_AddElement
<1> QED
  BY <1>1, <1>2, <1>3, <1>4, <1>6, <1>7

LEMMA ServingQueues ==
  ASSUME DispatchInv, NEW i \in DOMAIN RevokedOrder(RevokedQueues), NEW t \in Thread,
         Serving(t, i, RevokedQueues, RevokedOrder(RevokedQueues))
  PROVE  /\ RotationIsComplete' /\ HandleIsExclusive' /\ CountersExact'
         /\ queues' \in [Session -> Seq(Job)] /\ order' \in Seq(Session)
<1> DEFINE qs == RevokedQueues
           ord == RevokedOrder(qs)
<1>0. TypeOK /\ CountersExact /\ RotationIsComplete /\ HandleIsExclusive
  BY DEF DispatchInv
<1>1. Eligible(ord[i], qs) /\ Select(i, qs, ord) /\ i \in DOMAIN ord
  BY DEF Serving
<1>2. PICK s \in Session, j \in Job :
        /\ s = ord[i] /\ j = Head(qs[s]) /\ qs[s] # <<>> /\ j \in ToSet(qs[s]) /\ j \in jobs \ Revoked
        /\ j \in Of(s, "Queued") /\ Of(s, "Selected") = {}
        /\ j \in DOMAIN reservations /\ reservations[j] = [of |-> s, phase |-> "Queued"]
  BY <1>1, ServedJob
<1>3. /\ queues' = [qs EXCEPT ![s] = Tail(@)] /\ order' = Rotated(i, qs, ord)
      /\ jobs' = jobs \ (Revoked \cup {j})
      /\ reservations' = [reservations EXCEPT ![j].phase = "Selected"]
      /\ selectedFiles' = selectedFiles \cup {s}
      /\ queuedTotal' = queuedTotal - Cardinality(Revoked) - 1
      /\ selectedTotal' = selectedTotal + 1
      /\ queued' = [queued EXCEPT ![s] = @ - 1] /\ processQueued' = processQueued - 1
      /\ inFlight' = [inFlight EXCEPT ![s] = @ + 1] /\ processInFlight' = processInFlight + 1
  BY <1>1, <1>2 DEF Select
<1>4. /\ qs \in [Session -> Seq(Job)] /\ ord \in Seq(Session)
      /\ \A u \in Session : IsInjective(qs[u]) /\ ToSet(qs[u]) = ToSet(queues[u]) \cap (jobs \ Revoked)
      /\ IsInjective(ord) /\ ToSet(ord) = {u \in Session : qs[u] # <<>>}
      /\ UNION {ToSet(qs[u]) : u \in Session} = jobs \ Revoked
      /\ queuedTotal - Cardinality(Revoked) = Cardinality(jobs \ Revoked)
      /\ Cardinality(jobs \ Revoked) \in Nat /\ Cardinality(Revoked) \in Nat
  BY RevokedQueuesSound
<1> HIDE DEF qs, ord
<1>5. /\ Of(s, "Queued")' = Of(s, "Queued") \ {j} /\ Of(s, "Selected")' = Of(s, "Selected") \cup {j}
      /\ \A u \in Session : u # s => Of(u, "Queued")' = Of(u, "Queued") /\ Of(u, "Selected")' = Of(u, "Selected")
      /\ InPhase("Queued")' = InPhase("Queued") \ {j} /\ InPhase("Selected")' = InPhase("Selected") \cup {j}
      /\ Cardinality(Of(s, "Queued")') = Cardinality(Of(s, "Queued")) - 1
      /\ Cardinality(Of(s, "Selected")') = Cardinality(Of(s, "Selected")) + 1
      /\ Cardinality(InPhase("Queued")') = Cardinality(InPhase("Queued")) - 1
      /\ Cardinality(InPhase("Selected")') = Cardinality(InPhase("Selected")) + 1
  BY <1>0, <1>3, <1>2, SelectedCounts
<1>6. CountersExact'
  <2>1. \A u \in Session : /\ queued'[u] = IF u = s THEN queued[u] - 1 ELSE queued[u]
                           /\ inFlight'[u] = IF u = s THEN inFlight[u] + 1 ELSE inFlight[u]
    BY <1>0, <1>3 DEF TypeOK
  <2> QED
    BY <1>0, <1>3, <1>5, <2>1 DEF CountersExact
<1>7. HandleIsExclusive'
  <2>1. Cardinality(Of(s, "Selected")') <= 1
    <3>1. Cardinality(Of(s, "Selected")) = 0
      BY <1>2, FS_EmptySet
    <3> QED
      BY <1>5, <3>1
  <2> QED
    BY <1>0, <1>3, <1>5, <2>1 DEF HandleIsExclusive
<1>8. \A u \in Session : /\ queues'[u] = IF u = s THEN Tail(qs[s]) ELSE qs[u]
                         /\ qs[u] \in Seq(Job)
  BY <1>3, <1>4
<1>9. /\ Tail(qs[s]) \in Seq(Job) /\ IsInjective(Tail(qs[s])) /\ ToSet(Tail(qs[s])) = ToSet(qs[s]) \ {j}
      /\ Tail(qs[s]) = <<>> <=> Len(qs[s]) = 1
  BY <1>2, <1>4, <1>8, TailElements
<1>10. queues' \in [Session -> Seq(Job)]
  BY <1>3, <1>4, <1>9
<1>11. \A u \in Session : /\ IsInjective(queues'[u])
                          /\ ToSet(queues'[u]) = ToSet(qs[u]) \ {j}
                          /\ ToSet(queues'[u]) \subseteq Of(u, "Queued")'
  <2> SUFFICES ASSUME NEW u \in Session
               PROVE  /\ IsInjective(queues'[u]) /\ ToSet(queues'[u]) = ToSet(qs[u]) \ {j}
                      /\ ToSet(queues'[u]) \subseteq Of(u, "Queued")'
    OBVIOUS
  <2>1. ToSet(qs[u]) \subseteq Of(u, "Queued")
    BY <1>0, <1>4 DEF RotationIsComplete
  <2>2. CASE u = s
    BY <1>5, <1>8, <1>9, <2>1, <2>2
  <2>3. CASE u # s
    <3>1. j \notin Of(u, "Queued")
      BY <1>2, <2>3 DEF Of
    <3> QED
      BY <1>4, <1>5, <1>8, <2>1, <2>3, <3>1
  <2> QED
    BY <2>2, <2>3
<1>12. jobs' = UNION {ToSet(queues'[u]) : u \in Session}
  BY <1>3, <1>4, <1>11
<1>13. queuedTotal' = Cardinality(jobs')
  <2>1. IsFiniteSet(jobs \ Revoked) /\ jobs' = (jobs \ Revoked) \ {j}
    BY <1>3, RevokedJobs, FS_Subset
  <2>2. Cardinality(jobs') = Cardinality(jobs \ Revoked) - 1
    BY <1>2, <2>1, FS_RemoveElement
  <2> QED
    BY <1>3, <1>4, <2>2
<1>14. /\ order' \in Seq(Session) /\ IsInjective(order')
       /\ ToSet(order') = IF Len(qs[s]) = 1 THEN ToSet(ord) \ {s} ELSE ToSet(ord)
  <2>1. /\ Rotated(i, qs, ord) \in Seq(Session) /\ IsInjective(Rotated(i, qs, ord))
        /\ ToSet(Rotated(i, qs, ord)) = IF Len(qs[ord[i]]) = 1 THEN ToSet(ord) \ {ord[i]} ELSE ToSet(ord)
    BY <1>1, <1>4, RotatedElements
  <2> QED
    BY <1>2, <1>3, <2>1
<1>15. ToSet(order') = {u \in Session : queues'[u] # <<>>}
  BY <1>2, <1>4, <1>8, <1>9, <1>14
<1> QED
  BY <1>6, <1>7, <1>10, <1>11, <1>12, <1>13, <1>14, <1>15 DEF RotationIsComplete

LEMMA ServingPreserves ==
  ASSUME DispatchInv, NEW t \in Thread, Pumping(t), UNCHANGED <<table, running, opens>>,
         NEW i \in DOMAIN RevokedOrder(RevokedQueues),
         Serving(t, i, RevokedQueues, RevokedOrder(RevokedQueues))
  PROVE  DispatchInv' /\ Pumping(t)'
<1> DEFINE qs == RevokedQueues
           ord == RevokedOrder(qs)
<1>0. TypeOK /\ TokensAreOwned /\ ReservationsLive /\ CountersExact
  BY DEF DispatchInv
<1>1. /\ RotationIsComplete' /\ HandleIsExclusive' /\ CountersExact'
      /\ queues' \in [Session -> Seq(Job)] /\ order' \in Seq(Session)
  BY ServingQueues
<1>2. Eligible(ord[i], qs) /\ Select(i, qs, ord) /\ i \in DOMAIN ord /\ selectedTotal < MaxProcessInFlight
  BY DEF Serving
<1>3. PICK s \in Session, j \in Job :
        /\ s = ord[i] /\ j = Head(qs[s]) /\ j \in jobs \ Revoked
        /\ j \in Of(s, "Queued")
        /\ j \in DOMAIN reservations /\ reservations[j] = [of |-> s, phase |-> "Queued"]
  BY <1>2, ServedJob
<1>4. /\ jobs' = jobs \ (Revoked \cup {j})
      /\ reservations' = [reservations EXCEPT ![j].phase = "Selected"]
      /\ selectedFiles' = selectedFiles \cup {s}
      /\ queuedTotal' = queuedTotal - Cardinality(Revoked) - 1
      /\ selectedTotal' = selectedTotal + 1
      /\ queued' = [queued EXCEPT ![s] = @ - 1] /\ processQueued' = processQueued - 1
      /\ inFlight' = [inFlight EXCEPT ![s] = @ + 1] /\ processInFlight' = processInFlight + 1
  BY <1>2, <1>3 DEF Select
<1>5. RoundResult(t, Revoked, j)
  BY <1>3 DEF Serving
<1>6. inFlight[s] < MaxSessionInFlight /\ processInFlight < MaxProcessInFlight
  BY <1>2, <1>3 DEF Eligible
<1> HIDE DEF qs, ord
<1>7. /\ DOMAIN reservations' = DOMAIN reservations
      /\ \A k \in DOMAIN reservations : k # j => reservations'[k] = reservations[k]
      /\ reservations'[j] = [of |-> s, phase |-> "Selected"]
      /\ reservations' \in [DOMAIN reservations -> [of : Session, phase : {"Queued", "Selected"}]]
  BY <1>0, <1>3, <1>4, SelectedCounts
<1>8. \A k : IsRevoked(k) => IsRevoked(k)'
  BY <1>3, <1>4, <1>7 DEF IsRevoked
<1>9. \A k : IsSelected(k) => IsSelected(k)'
  BY <1>7 DEF IsSelected
<1>10. \A round : HoldsItsJobs(round) => HoldsItsJobs(round)'
  BY <1>8, <1>9 DEF HoldsItsJobs
<1>11. \A k \in Revoked : IsRevoked(k)'
  <2>1. \A k \in Revoked : /\ k \in DOMAIN reservations /\ reservations[k].phase = "Queued"
                           /\ table[reservations[k].of] = "closing" /\ k # j
    BY <1>3, RevokedJobs
  <2> QED
    BY <1>4, <1>7, <2>1 DEF IsRevoked
<1>12. j \in jobs /\ j # None /\ IsSelected(j)' /\ j \notin running'
  <2>1. j \notin running
    BY <1>0, <1>3 DEF TokensAreOwned, IsSelected
  <2>2. j \in jobs /\ j # None
    BY <1>3, DispatchAssumption
  <2> QED
    BY <1>3, <1>7, <2>1, <2>2 DEF IsSelected
<1>13. /\ stack' \in [Thread -> Seq(Round)] /\ RoundsHold' /\ RoundsApart'
       /\ \A k \in DOMAIN reservations : k \in Thread /\ stack'[k] = <<>>
       /\ Pumping(t)'
  BY <1>5, <1>10, <1>11, <1>12, RoundTokens
<1>14. TypeOK'
  <2>1. Cardinality(Of(s, "Queued")) \in Nat \ {0} /\ Cardinality(InPhase("Queued")) \in Nat \ {0}
    <3>1. j \in Of(s, "Queued") /\ j \in InPhase("Queued")
      BY <1>3 DEF InPhase
    <3>2. IsFiniteSet(Of(s, "Queued")) /\ IsFiniteSet(InPhase("Queued"))
      BY <1>0, OfMembers
    <3> QED
      BY <3>1, <3>2, FS_CardinalityType, FS_EmptySet
  <2>2. queued' \in [Session -> 0..MaxSessionQueue]
    <3>1. queued[s] \in 0..MaxSessionQueue /\ queued[s] # 0 /\ MaxSessionQueue \in Nat
      BY <1>0, <2>1, DispatchAssumption DEF CountersExact, TypeOK
    <3>2. queued[s] - 1 \in 0..MaxSessionQueue
      BY <3>1
    <3> QED
      BY <1>0, <1>4, <3>2 DEF TypeOK
  <2>3. inFlight' \in [Session -> 0..MaxSessionInFlight]
    <3>1. inFlight[s] \in 0..MaxSessionInFlight /\ MaxSessionInFlight \in Nat
      BY <1>0, DispatchAssumption DEF TypeOK
    <3>2. inFlight[s] + 1 \in 0..MaxSessionInFlight
      BY <1>6, <3>1
    <3> QED
      BY <1>0, <1>4, <3>2 DEF TypeOK
  <2>4. processQueued' \in 0..MaxProcessQueue
    <3>1. processQueued \in 0..MaxProcessQueue /\ processQueued # 0 /\ MaxProcessQueue \in Nat
      BY <1>0, <2>1, DispatchAssumption DEF CountersExact, TypeOK
    <3> QED
      BY <1>4, <3>1
  <2>5. processInFlight' \in 0..MaxProcessInFlight /\ selectedTotal' \in 0..MaxProcessInFlight
    <3>1. /\ processInFlight \in 0..MaxProcessInFlight /\ selectedTotal \in 0..MaxProcessInFlight
          /\ MaxProcessInFlight \in Nat
      BY <1>0, DispatchAssumption DEF TypeOK
    <3> QED
      BY <1>2, <1>4, <1>6, <3>1
  <2>6. queuedTotal' \in 0..MaxProcessQueue
    <3>1. queuedTotal \in 0..MaxProcessQueue /\ MaxProcessQueue \in Nat
      BY <1>0, DispatchAssumption DEF TypeOK
    <3>2. queuedTotal - Cardinality(Revoked) = Cardinality(jobs \ Revoked) /\ Cardinality(Revoked) \in Nat
          /\ Cardinality(jobs \ Revoked) \in Nat
      BY RevokedQueuesSound
    <3>3. Cardinality(jobs \ Revoked) # 0
      <4>1. IsFiniteSet(jobs \ Revoked)
        BY RevokedJobs, FS_Subset
      <4> QED
        BY <1>3, <4>1, FS_EmptySet
    <3> QED
      BY <1>4, <3>1, <3>2, <3>3
  <2>7. jobs' \subseteq DOMAIN reservations' /\ DOMAIN reservations' \subseteq Job /\ selectedFiles' \subseteq Session
    BY <1>0, <1>4, <1>7 DEF TypeOK
  <2> QED
    BY <1>0, <1>1, <1>7, <1>13, <2>2, <2>3, <2>4, <2>5, <2>6, <2>7 DEF TypeOK, Round
<1>15. TokensAreOwned'
  BY <1>0, <1>9, <1>13 DEF TokensAreOwned
<1>16. ReservationsLive'
  <2>1. \A k \in DOMAIN reservations : reservations'[k].of = reservations[k].of
    BY <1>3, <1>7
  <2> QED
    BY <1>0, <1>7, <1>13, <2>1 DEF ReservationsLive
<1> QED
  BY <1>1, <1>13, <1>14, <1>15, <1>16 DEF DispatchInv

LEMMA PumpRoundPreserves ==
  ASSUME DispatchInv, NEW t \in Thread, PumpRound(t)
  PROVE  DispatchInv'
<1>1. /\ Pumping(t) /\ Top(t) = NewPump /\ UNCHANGED <<table, running, opens>>
      /\ \/ Fruitless(t, RevokedQueues, RevokedOrder(RevokedQueues))
         \/ \E i \in DOMAIN RevokedOrder(RevokedQueues) : Serving(t, i, RevokedQueues, RevokedOrder(RevokedQueues))
  BY PumpRoundCases
<1>2. CASE Fruitless(t, RevokedQueues, RevokedOrder(RevokedQueues))
  BY <1>1, <1>2, FruitlessPreserves
<1>3. CASE \E i \in DOMAIN RevokedOrder(RevokedQueues) : Serving(t, i, RevokedQueues, RevokedOrder(RevokedQueues))
  <2>1. PICK i \in DOMAIN RevokedOrder(RevokedQueues) : Serving(t, i, RevokedQueues, RevokedOrder(RevokedQueues))
    BY <1>3
  <2> QED
    BY <1>1, <2>1, ServingPreserves
<1> QED
  BY <1>1, <1>2, <1>3

-----------------------------------------------------------------------------
(* Spawning and answering *)

\* The innermost round of a thread that pumps.
LEMMA TopRound ==
  ASSUME TypeOK, NEW t \in Thread, Pumping(t)
  PROVE  /\ stack[t] \in Seq(Round) /\ stack[t] # <<>> /\ 1 \in DOMAIN stack[t]
         /\ Top(t) = stack[t][1] /\ Top(t) \in Round
<1>1. stack[t] \in Seq(Round) /\ stack[t] # <<>>
  BY DEF TypeOK, Round, Pumping
<1>2. Len(stack[t]) \in Nat /\ DOMAIN stack[t] = 1..Len(stack[t]) /\ Len(stack[t]) # 0
      /\ \A i \in 1..Len(stack[t]) : stack[t][i] \in Round
  BY <1>1, LenProperties, EmptySeq
<1>3. Head(stack[t]) = stack[t][1]
  BY <1>1, HeadTailProperties
<1> QED
  BY <1>1, <1>2, <1>3 DEF Top

LEMMA SpawnPreserves ==
  ASSUME DispatchInv, NEW t \in Thread, Spawn(t)
  PROVE  DispatchInv' /\ Pumping(t)'
<1>0. TypeOK /\ TokensAreOwned /\ ReservationsLive
  BY DEF DispatchInv
<1> DEFINE q == <<NewPump>> \o Tail(stack[t])
<1>1. /\ Pumping(t) /\ Top(t).revoked = {} /\ Top(t).chosen # None /\ running' = running \cup {Top(t).chosen}
      /\ stack' = [stack EXCEPT ![t] = q]
      /\ UNCHANGED <<table, dispatchVars, counters, opens>>
  BY DEF Spawn
<1>2. /\ stack[t] \in Seq(Round) /\ stack[t] # <<>> /\ 1 \in DOMAIN stack[t]
      /\ Top(t) = stack[t][1] /\ Top(t) \in Round
  BY <1>0, <1>1, TopRound
<1>3. UNCHANGED <<queues, order, jobs, reservations, selectedFiles, queuedTotal, selectedTotal,
                  queued, inFlight, processQueued, processInFlight>>
  BY <1>1 DEF dispatchVars, counters
<1>4. /\ q \in Seq(Round) /\ q # <<>> /\ DOMAIN q = DOMAIN stack[t] /\ q[1] = NewPump
      /\ \A k \in DOMAIN q : k # 1 => q[k] = stack[t][k]
  BY <1>2, DispatchAssumption, NewPumpApart, TopReplaced
<1> HIDE DEF q
<1>5. stack'[t] = q /\ \A u \in Thread : u # t => stack'[u] = stack[u]
  BY <1>0, <1>1 DEF TypeOK
<1>6. PICK c \in Job : c = Top(t).chosen /\ c # None /\ IsSelected(c)
  <2>1. Top(t).chosen \in Job
    BY <1>1, <1>2 DEF Round
  <2>2. HoldsItsJobs(Top(t))
    BY <1>0, <1>2 DEF TokensAreOwned, RoundsHold
  <2> QED
    BY <1>1, <2>1, <2>2 DEF HoldsItsJobs
<1>7. RoundsHold'
  <2> SUFFICES ASSUME NEW u \in Thread, NEW i \in DOMAIN stack'[u] PROVE HoldsItsJobs(stack[u][i])'
    BY DEF RoundsHold
  <2>1. CASE u = t /\ i = 1
    BY <1>4, <1>5, <2>1 DEF HoldsItsJobs, NewPump
  <2>2. CASE ~(u = t /\ i = 1)
    <3>1. i \in DOMAIN stack[u] /\ stack'[u][i] = stack[u][i]
      BY <1>4, <1>5, <2>2
    <3>2. HoldsItsJobs(stack[u][i]) /\ Apart(stack[u][i], stack[t][1])
      BY <1>0, <1>2, <2>2, <3>1 DEF TokensAreOwned, RoundsHold, RoundsApart
    <3>3. stack[u][i].chosen # None => stack[u][i].chosen \notin running'
      BY <1>1, <1>2, <3>2 DEF HoldsItsJobs, Apart
    <3>4. \A k : (IsRevoked(k) => IsRevoked(k)') /\ (IsSelected(k) => IsSelected(k)')
      BY <1>1, <1>3 DEF IsRevoked, IsSelected
    <3> QED
      BY <3>1, <3>2, <3>3, <3>4 DEF HoldsItsJobs
  <2> QED
    BY <2>1, <2>2
<1>8. RoundsApart'
  <2>1. \A k \in DOMAIN q : k - 0 = k
    BY <1>4, LenProperties
  <2>2. \A k \in DOMAIN q : \/ k - 0 \in DOMAIN stack[t] /\ Within(q[k], stack[t][k - 0])
                            \/ k = 1 /\ \A u \in Thread : \A i \in DOMAIN stack[u] : Apart(q[1], stack[u][i])
    BY <1>4, <2>1, DispatchAssumption, NewPumpApart DEF Within
  <2> QED
    BY <1>0, <1>1, <1>4, 0 \in Int, <2>2, StayApart DEF TokensAreOwned
<1>9. TokensAreOwned'
  <2>1. \A k \in running' : IsSelected(k)'
    BY <1>0, <1>1, <1>3, <1>6 DEF TokensAreOwned, IsSelected
  <2> QED
    BY <1>7, <1>8, <2>1 DEF TokensAreOwned
<1>10. TypeOK'
  <2>1. stack' \in [Thread -> Seq(Round)]
    BY <1>0, <1>1, <1>4 DEF TypeOK, Round
  <2>2. running' \subseteq Job
    BY <1>0, <1>1, <1>6 DEF TypeOK
  <2> QED
    BY <1>0, <1>1, <1>3, <2>1, <2>2 DEF TypeOK, Round
<1>11. ReservationsLive'
  <2>1. \A k \in DOMAIN reservations : k \in Thread /\ k # t
    BY <1>0, <1>2 DEF ReservationsLive, TypeOK, Thread
  <2> QED
    BY <1>0, <1>1, <1>3, <1>5, <2>1 DEF ReservationsLive
<1> QED
  BY <1>1, <1>4, <1>5, <1>9, <1>10, <1>11, ReservationsKept DEF DispatchInv, Pumping

\* A reservation ends: it is counted no more, and no queue is concerned.
LEMMA DropCounts ==
  ASSUME DispatchInv, NEW j \in Job, j \in DOMAIN reservations, j \notin jobs, Release(j), Settle(j),
         UNCHANGED <<queues, order, jobs, queuedTotal>>
  PROVE  /\ DOMAIN reservations' = DOMAIN reservations \ {j}
         /\ \A k \in DOMAIN reservations' : reservations'[k] = reservations[k]
         /\ RotationIsComplete' /\ HandleIsExclusive' /\ CountersExact'
<1>0. TypeOK /\ CountersExact /\ RotationIsComplete /\ HandleIsExclusive
  BY DEF DispatchInv
<1>1. /\ DOMAIN reservations' = DOMAIN reservations \ {j}
      /\ \A k \in DOMAIN reservations' : reservations'[k] = reservations[k]
  BY DEF Release
<1>2. PICK s \in Session, phase \in {"Queued", "Selected"} : reservations[j] = [of |-> s, phase |-> phase]
  BY <1>0 DEF TypeOK
<1>3. /\ reservations[j].of = s /\ reservations[j].phase = phase
      /\ j \in Of(s, phase) /\ j \in InPhase(phase)
  BY <1>2 DEF Of, InPhase
<1>4. /\ \A u \in Session : Of(u, "Queued")' = Of(u, "Queued") \ {j} /\ Of(u, "Selected")' = Of(u, "Selected") \ {j}
      /\ InPhase("Queued")' = InPhase("Queued") \ {j} /\ InPhase("Selected")' = InPhase("Selected") \ {j}
  BY <1>1 DEF Of, InPhase
<1>5. \A u \in Session : (u # s \/ phase # "Queued" => j \notin Of(u, "Queued"))
                         /\ (u # s \/ phase # "Selected" => j \notin Of(u, "Selected"))
  BY <1>2 DEF Of
<1>6. (phase # "Queued" => j \notin InPhase("Queued")) /\ (phase # "Selected" => j \notin InPhase("Selected"))
  BY <1>3 DEF InPhase
<1>7. /\ IsFiniteSet(Of(s, phase)) /\ IsFiniteSet(InPhase(phase))
      /\ Cardinality(Of(s, phase) \ {j}) = Cardinality(Of(s, phase)) - 1
      /\ Cardinality(InPhase(phase) \ {j}) = Cardinality(InPhase(phase)) - 1
  BY <1>0, <1>3, OfMembers, FS_RemoveElement
<1>8. ASSUME phase = "Queued" PROVE HandleIsExclusive' /\ CountersExact'
  <2>1. /\ queued' = [queued EXCEPT ![s] = @ - 1] /\ processQueued' = processQueued - 1
        /\ UNCHANGED <<inFlight, processInFlight, selectedTotal, selectedFiles>>
    BY <1>3, <1>8 DEF Settle, Release
  <2>2. \A u \in Session : queued'[u] = IF u = s THEN queued[u] - 1 ELSE queued[u]
    BY <1>0, <2>1 DEF TypeOK
  <2>3. \A u \in Session : Of(u, "Selected")' = Of(u, "Selected") /\ (u # s => Of(u, "Queued")' = Of(u, "Queued"))
    <3> SUFFICES ASSUME NEW u \in Session
                 PROVE  /\ Of(u, "Selected")' = Of(u, "Selected")
                        /\ u # s => Of(u, "Queued")' = Of(u, "Queued")
      OBVIOUS
    <3>1. j \notin Of(u, "Selected") /\ (u # s => j \notin Of(u, "Queued"))
      BY <1>5, <1>8
    <3>2. Of(u, "Queued")' = Of(u, "Queued") \ {j} /\ Of(u, "Selected")' = Of(u, "Selected") \ {j}
      BY <1>4
    <3> QED
      BY <3>1, <3>2
  <2>4. InPhase("Selected")' = InPhase("Selected")
    BY <1>4, <1>6, <1>8
  <2>5. CountersExact'
    BY <1>0, <1>4, <1>7, <1>8, <2>1, <2>2, <2>3, <2>4 DEF CountersExact
  <2>6. HandleIsExclusive'
    BY <1>0, <2>1, <2>3 DEF HandleIsExclusive
  <2> QED
    BY <2>5, <2>6
<1>9. ASSUME phase = "Selected" PROVE HandleIsExclusive' /\ CountersExact'
  <2>1. /\ inFlight' = [inFlight EXCEPT ![s] = @ - 1] /\ processInFlight' = processInFlight - 1
        /\ selectedTotal' = selectedTotal - 1 /\ selectedFiles' = selectedFiles \ {s}
        /\ UNCHANGED <<queued, processQueued>>
    BY <1>3, <1>9 DEF Settle, Release
  <2>2. \A u \in Session : inFlight'[u] = IF u = s THEN inFlight[u] - 1 ELSE inFlight[u]
    BY <1>0, <2>1 DEF TypeOK
  <2>3. \A u \in Session : Of(u, "Queued")' = Of(u, "Queued") /\ (u # s => Of(u, "Selected")' = Of(u, "Selected"))
    BY <1>4, <1>5, <1>9
  <2>4. InPhase("Queued")' = InPhase("Queued")
    BY <1>4, <1>6, <1>9
  <2>5. CountersExact'
    BY <1>0, <1>4, <1>7, <1>9, <2>1, <2>2, <2>3, <2>4 DEF CountersExact
  <2>6. Of(s, "Selected")' = {}
    <3>1. Cardinality(Of(s, "Selected")) <= 1
      BY <1>0 DEF HandleIsExclusive
    <3>2. Cardinality(Of(s, "Selected")) \in Nat
      BY <1>7, <1>9, FS_CardinalityType
    <3>3. IsFiniteSet(Of(s, "Selected") \ {j}) /\ Cardinality(Of(s, "Selected") \ {j}) \in Nat
      BY <1>7, <1>9, FS_Subset, FS_CardinalityType
    <3>4. Cardinality(Of(s, "Selected") \ {j}) = 0
      BY <1>7, <1>9, <3>1, <3>2, <3>3
    <3> QED
      BY <1>4, <3>3, <3>4, FS_EmptySet
  <2>7. HandleIsExclusive'
    <3>1. Cardinality({}) = 0
      BY FS_EmptySet
    <3> QED
      <4> SUFFICES ASSUME NEW u \in Session
                   PROVE  /\ Cardinality(Of(u, "Selected")') <= 1
                          /\ u \in selectedFiles' <=> Of(u, "Selected")' # {}
        BY DEF HandleIsExclusive
      <4>1. CASE u = s
        BY <2>1, <2>6, <3>1, <4>1
      <4>2. CASE u # s
        BY <1>0, <2>1, <2>3, <4>2 DEF HandleIsExclusive
      <4> QED
        BY <4>1, <4>2
  <2> QED
    BY <2>5, <2>7
<1>10. RotationIsComplete'
  <2>1. \A u \in Session : ToSet(queues[u]) \subseteq Of(u, "Queued") \ {j}
    BY <1>0 DEF RotationIsComplete
  <2> QED
    BY <1>0, <1>4, <2>1 DEF RotationIsComplete
<1> QED
  BY <1>1, <1>8, <1>9, <1>10

LEMMA DropType ==
  ASSUME DispatchInv, NEW j \in Job, j \in DOMAIN reservations, j \notin jobs, Release(j), Settle(j),
         UNCHANGED <<table, queues, order, jobs, queuedTotal, opens>>,
         running' \subseteq running, stack' \in [Thread -> Seq(Round)]
  PROVE  TypeOK'
<1>0. TypeOK /\ CountersExact
  BY DEF DispatchInv
<1>1. /\ DOMAIN reservations' = DOMAIN reservations \ {j}
      /\ \A k \in DOMAIN reservations' : reservations'[k] = reservations[k]
  BY DropCounts
<1>2. reservations' \in [DOMAIN reservations' -> [of : Session, phase : {"Queued", "Selected"}]]
  BY <1>0, <1>1 DEF Release, TypeOK
<1>3. PICK s \in Session, phase \in {"Queued", "Selected"} : reservations[j] = [of |-> s, phase |-> phase]
  BY <1>0 DEF TypeOK
<1>4. reservations[j].of = s /\ reservations[j].phase = phase
  BY <1>3
<1>5. Cardinality(Of(s, phase)) \in Nat \ {0} /\ Cardinality(InPhase(phase)) \in Nat \ {0}
  <2>1. j \in Of(s, phase) /\ j \in InPhase(phase)
    BY <1>3 DEF Of, InPhase
  <2>2. IsFiniteSet(Of(s, phase)) /\ IsFiniteSet(InPhase(phase))
    BY <1>0, OfMembers
  <2> QED
    BY <2>1, <2>2, FS_CardinalityType, FS_EmptySet
<1>6. /\ MaxProcessQueue \in Nat /\ MaxProcessInFlight \in Nat /\ MaxSessionQueue \in Nat /\ MaxSessionInFlight \in Nat
      /\ processQueued \in 0..MaxProcessQueue /\ processInFlight \in 0..MaxProcessInFlight
      /\ selectedTotal \in 0..MaxProcessInFlight
      /\ queued[s] \in 0..MaxSessionQueue /\ inFlight[s] \in 0..MaxSessionInFlight
  BY <1>0, DispatchAssumption DEF TypeOK
<1>7. ASSUME phase = "Queued"
      PROVE  /\ queued' \in [Session -> 0..MaxSessionQueue] /\ processQueued' \in 0..MaxProcessQueue
             /\ UNCHANGED <<inFlight, processInFlight, selectedTotal, selectedFiles>>
  <2>1. /\ queued' = [queued EXCEPT ![s] = @ - 1] /\ processQueued' = processQueued - 1
        /\ UNCHANGED <<inFlight, processInFlight, selectedTotal, selectedFiles>>
    BY <1>4, <1>7 DEF Settle, Release
  <2>2. queued[s] # 0 /\ processQueued # 0
    BY <1>0, <1>5, <1>7 DEF CountersExact
  <2>3. queued[s] - 1 \in 0..MaxSessionQueue /\ processQueued - 1 \in 0..MaxProcessQueue
    BY <1>6, <2>2
  <2> QED
    BY <1>0, <2>1, <2>3 DEF TypeOK
<1>8. ASSUME phase = "Selected"
      PROVE  /\ inFlight' \in [Session -> 0..MaxSessionInFlight] /\ processInFlight' \in 0..MaxProcessInFlight
             /\ selectedTotal' \in 0..MaxProcessInFlight /\ selectedFiles' \subseteq Session
             /\ UNCHANGED <<queued, processQueued>>
  <2>1. /\ inFlight' = [inFlight EXCEPT ![s] = @ - 1] /\ processInFlight' = processInFlight - 1
        /\ selectedTotal' = selectedTotal - 1 /\ selectedFiles' = selectedFiles \ {s}
        /\ UNCHANGED <<queued, processQueued>>
    BY <1>4, <1>8 DEF Settle, Release
  <2>2. inFlight[s] # 0 /\ processInFlight # 0 /\ selectedTotal # 0
    BY <1>0, <1>5, <1>8 DEF CountersExact
  <2>3. /\ inFlight[s] - 1 \in 0..MaxSessionInFlight /\ processInFlight - 1 \in 0..MaxProcessInFlight
        /\ selectedTotal - 1 \in 0..MaxProcessInFlight
    BY <1>6, <2>2
  <2> QED
    BY <1>0, <2>1, <2>3 DEF TypeOK
<1>9. jobs' \subseteq DOMAIN reservations' /\ DOMAIN reservations' \subseteq Job
  BY <1>0, <1>1 DEF TypeOK
<1>10. /\ queued' \in [Session -> 0..MaxSessionQueue] /\ processQueued' \in 0..MaxProcessQueue
       /\ inFlight' \in [Session -> 0..MaxSessionInFlight] /\ processInFlight' \in 0..MaxProcessInFlight
       /\ selectedTotal' \in 0..MaxProcessInFlight /\ selectedFiles' \subseteq Session
  <2>1. phase = "Queued" \/ phase = "Selected"
    OBVIOUS
  <2>2. CASE phase = "Queued"
    BY <1>0, <1>7, <2>2 DEF TypeOK
  <2>3. CASE phase = "Selected"
    BY <1>0, <1>8, <2>3 DEF TypeOK
  <2> QED
    BY <2>1, <2>2, <2>3
<1> QED
  BY <1>0, <1>2, <1>9, <1>10 DEF TypeOK, Round

\* A token is dropped: no other round holds its job, and a pump begins on its thread.
LEMMA DropPreserves ==
  ASSUME DispatchInv, NEW t \in Thread, NEW j \in Job, j \in DOMAIN reservations, j \notin jobs, Release(j), Settle(j),
         UNCHANGED <<table, queues, order, jobs, queuedTotal, opens>>,
         running' \subseteq running, j \notin running', t \notin DOMAIN reservations \ {j},
         NEW q \in Seq(Round), stack' = [stack EXCEPT ![t] = q], RoundsApart',
         \A u \in Thread : \A i \in DOMAIN stack'[u] :
           /\ j \notin stack'[u][i].revoked /\ (stack'[u][i].chosen # None => stack'[u][i].chosen # j)
           /\ \/ stack'[u][i] = NewPump
              \/ \E k \in DOMAIN stack[u] : Within(stack'[u][i], stack[u][k])
  PROVE  DispatchInv'
<1>0. TypeOK /\ TokensAreOwned /\ ReservationsLive
  BY DEF DispatchInv
<1>1. /\ DOMAIN reservations' = DOMAIN reservations \ {j}
      /\ \A k \in DOMAIN reservations' : reservations'[k] = reservations[k]
      /\ RotationIsComplete' /\ HandleIsExclusive' /\ CountersExact'
  BY DropCounts
<1>2. stack' \in [Thread -> Seq(Round)] /\ \A u \in Thread : u # t => stack'[u] = stack[u]
  BY <1>0 DEF TypeOK, Round
<1>3. TypeOK'
  BY <1>2, DropType
<1>4. \A k : k # j => (IsRevoked(k) => IsRevoked(k)') /\ (IsSelected(k) => IsSelected(k)')
  BY <1>1 DEF IsRevoked, IsSelected
<1>5. RoundsHold'
  <2> SUFFICES ASSUME NEW u \in Thread, NEW i \in DOMAIN stack'[u] PROVE HoldsItsJobs(stack[u][i])'
    BY DEF RoundsHold
  <2>1. CASE stack'[u][i] = NewPump
    BY <2>1 DEF HoldsItsJobs, NewPump
  <2>2. CASE \E k \in DOMAIN stack[u] : Within(stack'[u][i], stack[u][k])
    <3>1. PICK k \in DOMAIN stack[u] : Within(stack'[u][i], stack[u][k])
      BY <2>2
    <3>2. HoldsItsJobs(stack[u][k])
      BY <1>0 DEF TokensAreOwned, RoundsHold
    <3>3. \A m \in stack'[u][i].revoked : IsRevoked(m)'
      BY <1>4, <3>1, <3>2 DEF HoldsItsJobs, Within
    <3>4. stack'[u][i].chosen # None => IsSelected(stack[u][i].chosen)' /\ stack'[u][i].chosen \notin running'
      <4> SUFFICES ASSUME NEW m, m = stack'[u][i].chosen, m # None PROVE IsSelected(m)' /\ m \notin running'
        BY DEF IsSelected
      <4>1. m = stack[u][k].chosen /\ IsSelected(m) /\ m \notin running /\ m # j
        BY <3>1, <3>2 DEF HoldsItsJobs, Within
      <4> QED
        BY <1>4, <4>1
    <3> QED
      BY <3>3, <3>4 DEF HoldsItsJobs
  <2> QED
    BY <2>1, <2>2
<1>6. TokensAreOwned'
  <2>1. \A k \in running' : IsSelected(k)'
    BY <1>0, <1>4 DEF TokensAreOwned
  <2> QED
    BY <1>5, <2>1 DEF TokensAreOwned
<1>7. ReservationsLive'
  <2>1. \A k \in DOMAIN reservations' : k \in Thread /\ k # t /\ k \in DOMAIN reservations
    BY <1>0, <1>1 DEF TypeOK, Thread
  <2> QED
    BY <1>0, <1>1, <1>2, <2>1 DEF ReservationsLive
<1> QED
  BY <1>1, <1>3, <1>6, <1>7 DEF DispatchInv

LEMMA CompletePreserves ==
  ASSUME DispatchInv, NEW j \in Job, Complete(j)
  PROVE  DispatchInv' /\ Pumping(j)'
<1>0. TypeOK /\ TokensAreOwned /\ ReservationsLive
  BY DEF DispatchInv
<1>1. /\ j \in running /\ running' = running \ {j} /\ Release(j) /\ Settle(j)
      /\ stack' = [stack EXCEPT ![j] = <<NewPump>> \o <<>>]
      /\ UNCHANGED <<table, queues, order, jobs, queuedTotal, opens>>
  BY DEF Complete, DropToken
<1>2. j \in DOMAIN reservations /\ reservations[j].phase = "Selected" /\ stack[j] = <<>> /\ j \in Thread
  BY <1>0, <1>1 DEF TokensAreOwned, IsSelected, ReservationsLive, Thread
<1>3. j \notin jobs
  BY <1>2, RevokedJobs
<1>4. /\ <<NewPump>> \o <<>> = <<NewPump>> /\ <<NewPump>> \in Seq(Round) /\ <<NewPump>> # <<>>
      /\ \A i \in DOMAIN <<NewPump>> : i = 1 /\ <<NewPump>>[i] = NewPump
  BY DispatchAssumption, NewPumpApart
<1>5. stack'[j] = <<NewPump>> /\ \A u \in Thread : u # j => stack'[u] = stack[u]
  BY <1>0, <1>1, <1>2, <1>4 DEF TypeOK
<1>6. RoundsApart'
  BY <1>0, <1>1, <1>2, <1>4, 0 \in Int, DispatchAssumption, NewPumpApart, StayApart DEF TokensAreOwned
<1>7. ASSUME NEW u \in Thread, NEW i \in DOMAIN stack'[u]
      PROVE  /\ j \notin stack'[u][i].revoked /\ (stack'[u][i].chosen # None => stack'[u][i].chosen # j)
             /\ \/ stack'[u][i] = NewPump
                \/ \E k \in DOMAIN stack[u] : Within(stack'[u][i], stack[u][k])
  <2>1. CASE u = j
    BY <1>4, <1>5, <2>1 DEF NewPump
  <2>2. CASE u # j
    <3>1. stack'[u] = stack[u] /\ HoldsItsJobs(stack[u][i])
      BY <1>0, <1>5, <2>2 DEF TokensAreOwned, RoundsHold
    <3>2. j \notin stack[u][i].revoked /\ (stack[u][i].chosen # None => stack[u][i].chosen # j)
      BY <1>1, <1>2, <3>1 DEF HoldsItsJobs, IsRevoked
    <3> QED
      BY <3>1, <3>2 DEF Within
  <2> QED
    BY <2>1, <2>2
<1>8. running' \subseteq running /\ j \notin running' /\ stack' = [stack EXCEPT ![j] = <<NewPump>>]
  BY <1>1, <1>4
<1>9. DispatchInv'
  BY <1>1, <1>2, <1>3, <1>4, <1>6, <1>7, <1>8, DropPreserves
<1> QED
  BY <1>4, <1>5, <1>9 DEF Pumping

LEMMA AnswerPreserves ==
  ASSUME DispatchInv, NEW t \in Thread, NEW j \in Job, AnswerRevoked(t, j)
  PROVE  DispatchInv' /\ Pumping(t)' /\ IsRevoked(j)
<1>0. TypeOK /\ TokensAreOwned /\ ReservationsLive
  BY DEF DispatchInv
<1> DEFINE x == [Top(t) EXCEPT !.revoked = @ \ {j}]
           p == <<x>> \o Tail(stack[t])
           q == <<NewPump>> \o p
<1>1. /\ Pumping(t) /\ j \in Top(t).revoked /\ Release(j) /\ Settle(j)
      /\ stack' = [stack EXCEPT ![t] = q]
      /\ UNCHANGED <<table, queues, order, jobs, queuedTotal, opens, running>>
  BY DEF AnswerRevoked, DropToken
<1>2. /\ stack[t] \in Seq(Round) /\ stack[t] # <<>> /\ 1 \in DOMAIN stack[t]
      /\ Top(t) = stack[t][1] /\ Top(t) \in Round
  BY <1>0, <1>1, TopRound
<1>3. x \in Round /\ x.revoked = Top(t).revoked \ {j} /\ x.chosen = Top(t).chosen
  BY <1>2 DEF Round
<1> HIDE DEF x
<1>4. /\ p \in Seq(Round) /\ p # <<>> /\ DOMAIN p = DOMAIN stack[t] /\ p[1] = x
      /\ \A k \in DOMAIN p : k # 1 => p[k] = stack[t][k]
  BY <1>2, <1>3, TopReplaced
<1> HIDE DEF p
<1>5. /\ q \in Seq(Round) /\ q # <<>> /\ q[1] = NewPump
      /\ \A k \in DOMAIN q : k # 1 => k - 1 \in DOMAIN p /\ q[k] = p[k - 1]
  BY <1>4, DispatchAssumption, NewPumpApart, TopNested
<1> HIDE DEF q
<1>6. stack'[t] = q /\ \A u \in Thread : u # t => stack'[u] = stack[u]
  BY <1>0, <1>1 DEF TypeOK
<1>7. HoldsItsJobs(stack[t][1]) /\ IsRevoked(j) /\ j \notin jobs /\ j \in DOMAIN reservations
      /\ reservations[j].phase = "Queued"
  <2>1. HoldsItsJobs(stack[t][1])
    BY <1>0, <1>2 DEF TokensAreOwned, RoundsHold
  <2>2. IsRevoked(j)
    BY <1>1, <1>2, <2>1 DEF HoldsItsJobs
  <2> QED
    BY <2>1, <2>2 DEF IsRevoked
<1>8. \A k \in DOMAIN p : Within(p[k], stack[t][k])
  BY <1>2, <1>3, <1>4 DEF Within
<1>9. RoundsApart'
  <2>1. \A k \in DOMAIN q : \/ k - 1 \in DOMAIN stack[t] /\ Within(q[k], stack[t][k - 1])
                            \/ k = 1 /\ \A u \in Thread : \A i \in DOMAIN stack[u] : Apart(q[1], stack[u][i])
    BY <1>4, <1>5, <1>8, DispatchAssumption, NewPumpApart
  <2> QED
    BY <1>0, <1>1, <1>5, 1 \in Int, <2>1, StayApart DEF TokensAreOwned
\* No other place holds the job.
<1>10. ASSUME NEW u \in Thread, NEW k \in DOMAIN stack[u]
       PROVE  /\ u # t \/ k # 1 => j \notin stack[u][k].revoked
              /\ stack[u][k].chosen # None => stack[u][k].chosen # j
  <2>1. HoldsItsJobs(stack[u][k])
    BY <1>0 DEF TokensAreOwned, RoundsHold
  <2>2. u # t \/ k # 1 => Apart(stack[u][k], stack[t][1])
    BY <1>0, <1>2 DEF TokensAreOwned, RoundsApart
  <2> QED
    BY <1>1, <1>2, <1>7, <2>1, <2>2 DEF HoldsItsJobs, IsSelected, Apart
<1>11. ASSUME NEW u \in Thread, NEW i \in DOMAIN stack'[u]
       PROVE  /\ j \notin stack'[u][i].revoked /\ (stack'[u][i].chosen # None => stack'[u][i].chosen # j)
              /\ \/ stack'[u][i] = NewPump
                 \/ \E k \in DOMAIN stack[u] : Within(stack'[u][i], stack[u][k])
  <2>1. CASE u # t
    BY <1>6, <1>10, <2>1 DEF Within
  <2>2. CASE u = t /\ i = 1
    BY <1>5, <1>6, <2>2 DEF NewPump
  <2>3. CASE u = t /\ i # 1
    <3>1. i - 1 \in DOMAIN p /\ stack'[u][i] = p[i - 1]
      BY <1>5, <1>6, <2>3
    <3>2. i - 1 \in DOMAIN stack[t] /\ Within(p[i - 1], stack[t][i - 1])
      BY <1>4, <1>8, <3>1
    <3>3. j \notin p[i - 1].revoked
      <4>1. CASE i - 1 = 1
        BY <1>3, <1>4, <4>1
      <4>2. CASE i - 1 # 1
        BY <1>4, <1>10, <3>1, <3>2, <4>2
      <4> QED
        BY <4>1, <4>2
    <3>4. p[i - 1].chosen # None => p[i - 1].chosen # j
      BY <1>10, <3>2 DEF Within
    <3> QED
      BY <2>3, <3>1, <3>2, <3>3, <3>4
  <2> QED
    BY <2>1, <2>2, <2>3
<1>12. running' \subseteq running /\ j \notin running' /\ t \notin DOMAIN reservations \ {j}
  <2>1. j \notin running
    BY <1>0, <1>7 DEF TokensAreOwned, IsSelected
  <2>2. t \notin DOMAIN reservations
    BY <1>0, <1>2 DEF ReservationsLive
  <2> QED
    BY <1>1, <2>1, <2>2
<1>13. DispatchInv'
  BY <1>1, <1>5, <1>7, <1>9, <1>11, <1>12, DropPreserves
<1> QED
  BY <1>5, <1>6, <1>7, <1>13 DEF Pumping

-----------------------------------------------------------------------------
(* The invariant *)

LEMMA DispatchInit ==
  Init => DispatchInv
<1> SUFFICES ASSUME Init PROVE DispatchInv
  OBVIOUS
<1>1. DOMAIN reservations = {} /\ running = {} /\ jobs = {}
  BY DEF Init
<1>2. TypeOK
  <2>1. /\ table \in [Session -> {"active", "closing", "gone"}]
        /\ queues \in [Session -> Seq(Job)] /\ order \in Seq(Session)
        /\ selectedFiles \subseteq Session
        /\ stack \in [Thread -> Seq([revoked : SUBSET Job, chosen : Job \cup {None}])]
    BY DEF Init
  <2>2. reservations \in [DOMAIN reservations -> [of : Session, phase : {"Queued", "Selected"}]]
    BY DEF Init
  <2>3. /\ queuedTotal \in 0..MaxProcessQueue /\ selectedTotal \in 0..MaxProcessInFlight
        /\ processQueued \in 0..MaxProcessQueue /\ processInFlight \in 0..MaxProcessInFlight
        /\ opens \in 0..MaxOpens
    BY DispatchAssumption DEF Init
  <2>4. queued \in [Session -> 0..MaxSessionQueue] /\ inFlight \in [Session -> 0..MaxSessionInFlight]
    BY DispatchAssumption DEF Init
  <2> QED
    BY <1>1, <2>1, <2>2, <2>3, <2>4 DEF TypeOK
<1>3. /\ \A s, phase : Of(s, phase) = {} /\ InPhase(phase) = {}
      /\ Cardinality({}) = 0
  BY <1>1, FS_EmptySet DEF Of, InPhase
<1>4. CountersExact
  BY <1>3 DEF Init, CountersExact
<1>5. TokensAreOwned /\ ReservationsLive
  <2>1. \A t \in Thread : DOMAIN stack[t] = {}
    BY DEF Init
  <2> QED
    BY <1>1, <2>1 DEF TokensAreOwned, RoundsHold, RoundsApart, ReservationsLive
<1>6. RotationIsComplete
  <2>1. order = <<>> /\ \A s \in Session : queues[s] = <<>>
    BY DEF Init
  <2>2. IsInjective(<<>>) /\ ToSet(<<>>) = {}
    BY DEF IsInjective, ToSet
  <2>3. queuedTotal = 0
    BY DEF Init
  <2> QED
    BY <1>1, <1>3, <2>1, <2>2, <2>3 DEF RotationIsComplete
<1>7. HandleIsExclusive
  <2>1. selectedFiles = {}
    BY DEF Init
  <2> QED
    BY <1>3, <2>1 DEF HandleIsExclusive
<1> QED
  BY <1>2, <1>4, <1>5, <1>6, <1>7 DEF DispatchInv

LEMMA DispatchNext ==
  DispatchInv /\ [Next]_vars => DispatchInv'
<1> SUFFICES ASSUME DispatchInv, [Next]_vars PROVE DispatchInv'
  OBVIOUS
<1>1. ASSUME NEW c \in Client, NEW s \in Session, Teardown(c, s) PROVE DispatchInv'
  BY <1>1, TeardownPreserves
<1>2. ASSUME NEW c \in Client, NEW s \in Session, NEW j \in Job, Enqueue(c, s, j) PROVE DispatchInv'
  BY <1>2, EnqueuePreserves
<1>3. ASSUME NEW s \in Session, Close(s) PROVE DispatchInv'
  BY <1>3, ClosePreserves
<1>4. ASSUME NEW s \in Session, Open(s) PROVE DispatchInv'
  BY <1>4, OpenPreserves
<1>5. ASSUME NEW t \in Thread, PumpRound(t) PROVE DispatchInv'
  BY <1>5, PumpRoundPreserves
<1>6. ASSUME NEW t \in Thread, Spawn(t) PROVE DispatchInv'
  BY <1>6, SpawnPreserves
<1>7. ASSUME NEW t \in Thread, NEW j \in Job, AnswerRevoked(t, j) PROVE DispatchInv'
  BY <1>7, AnswerPreserves
<1>8. ASSUME NEW j \in Job, Complete(j) PROVE DispatchInv'
  BY <1>8, CompletePreserves
<1>9. CASE UNCHANGED vars
  <2>1. UNCHANGED <<table, dispatchVars, counters, running, stack, opens>>
    BY <1>9 DEF vars
  <2>2. UNCHANGED <<queues, order, jobs, reservations, selectedFiles, queuedTotal, selectedTotal,
                    queued, inFlight, processQueued, processInFlight>>
    BY <2>1 DEF dispatchVars, counters
  <2>3. TypeOK'
    BY ONLY <2>1, <2>2, DispatchInv DEF DispatchInv, TypeOK
  <2>4. ReservationsLive'
    BY ONLY <2>1, <2>2, DispatchInv DEF DispatchInv, ReservationsLive
  <2>5. RoundsHold' /\ RoundsApart'
    BY ONLY <2>1, <2>2, DispatchInv DEF DispatchInv, TokensAreOwned, RoundsHold, RoundsApart, HoldsItsJobs,
                                        IsRevoked, IsSelected, Apart
  <2>6. TokensAreOwned'
    BY ONLY <2>1, <2>2, <2>5, DispatchInv DEF DispatchInv, TokensAreOwned, IsSelected
  <2> QED
    BY <2>1, <2>3, <2>4, <2>6, ReservationsKept DEF DispatchInv
<1> QED
  BY <1>1, <1>2, <1>3, <1>4, <1>5, <1>6, <1>7, <1>8, <1>9 DEF Next, PumpNext

\* Every reservation has exactly one place that will drop its token, the counters are what they
\* count, and the queues, the rotation and the handles in use fit together.
THEOREM DispatchCorrect == Spec => []DispatchInv
  BY DispatchInit, DispatchNext, PTL DEF Spec

\* Every field of the dispatcher is in the range its type allows: no counter underflows, and no
\* limit is passed.
THEOREM DispatchTypeCorrect == Spec => []TypeOK
<1>1. DispatchInv => TypeOK
  BY DEF DispatchInv
<1> QED
  BY <1>1, DispatchCorrect, PTL

\* The queues, the rotation and the handles in use always fit together.
THEOREM DispatchQueuesSound == Spec => []QueuesAreSound
<1>1. DispatchInv => QueuesAreSound
  BY DEF DispatchInv, QueuesAreSound
<1> QED
  BY <1>1, DispatchCorrect, PTL

-----------------------------------------------------------------------------
(* No job is stranded *)

\* A round that leaves nothing to its pump leaves nothing to any pump.
LEMMA FruitlessLeavesNothing ==
  ASSUME DispatchInv, NEW t \in Thread, Pumping(t), UNCHANGED <<table, running, opens>>,
         Fruitless(t, RevokedQueues, RevokedOrder(RevokedQueues)), ~Pumping(t)'
  PROVE  Revoked' = {} /\ \A s \in Session : ~Eligible(s, queues)'
<1> DEFINE qs == RevokedQueues
           ord == RevokedOrder(qs)
<1>0. TypeOK /\ CountersExact
  BY DEF DispatchInv
<1>1. /\ selectedTotal >= MaxProcessInFlight \/ \A i \in DOMAIN ord : ~Eligible(ord[i], qs)
      /\ queues' = qs /\ jobs' = jobs \ Revoked
      /\ UNCHANGED <<reservations, selectedFiles, selectedTotal, queued, inFlight, processQueued, processInFlight>>
  BY DEF Fruitless, SelectNobody, counters
<1>2. \A s \in Session : qs[s] # <<>> => s \in ToSet(ord)
  BY RevokedQueuesSound
<1> HIDE DEF qs, ord
<1>3. Revoked' = {}
  BY <1>1 DEF Revoked
<1>4. \A s \in Session : ~Eligible(s, qs)
  <2>1. CASE selectedTotal >= MaxProcessInFlight
    <3>1. processInFlight \in Int /\ MaxProcessInFlight \in Int /\ selectedTotal = processInFlight
      BY <1>0, DispatchAssumption DEF TypeOK, CountersExact
    <3>2. ~(processInFlight < MaxProcessInFlight)
      BY <2>1, <3>1
    <3> QED
      BY <3>2 DEF Eligible
  <2>2. CASE \A i \in DOMAIN ord : ~Eligible(ord[i], qs)
    <3> SUFFICES ASSUME NEW s \in Session, Eligible(s, qs) PROVE FALSE
      OBVIOUS
    <3>1. s \in ToSet(ord)
      BY <1>2 DEF Eligible
    <3>2. PICK i \in DOMAIN ord : ord[i] = s
      BY <3>1 DEF ToSet
    <3> QED
      BY <2>2, <3>2
  <2> QED
    BY <1>1, <2>1, <2>2
<1>5. ASSUME NEW s \in Session PROVE Eligible(s, queues)' => Eligible(s, qs)
  BY <1>1 DEF Eligible
<1> QED
  BY <1>3, <1>4, <1>5

\* While the table changes for a session that is not active, before or after, and has no waiting
\* job, nothing becomes eligible and nothing revoked.
LEMMA TableMovesStrandNothing ==
  ASSUME DispatchInv, NEW s \in Session, Of(s, "Queued") = {}, NEW state \in {"active", "closing", "gone"},
         table' = [table EXCEPT ![s] = state], UNCHANGED <<dispatchVars, counters, stack>>, NoStrandedJob
  PROVE  NoStrandedJob'
<1>0. TypeOK /\ RotationIsComplete
  BY DEF DispatchInv
<1>1. UNCHANGED <<queues, order, jobs, reservations, selectedFiles, queuedTotal, selectedTotal,
                  queued, inFlight, processQueued, processInFlight, stack>>
  BY DEF dispatchVars, counters
<1>2. queues[s] = <<>>
  <2>1. ToSet(queues[s]) = {} /\ queues[s] \in Seq(Job)
    BY <1>0 DEF RotationIsComplete, TypeOK
  <2> QED
    BY <2>1, NoElements
<1>3. \A u \in Session : u # s => table'[u] = table[u]
  BY <1>0 DEF TypeOK
<1>4. \A j \in jobs : reservations[j].of \in Session /\ reservations[j].of # s
  <2> SUFFICES ASSUME NEW j \in jobs PROVE reservations[j].of \in Session /\ reservations[j].of # s
    OBVIOUS
  <2>1. j \in DOMAIN reservations /\ reservations[j].phase = "Queued"
    BY RevokedJobs
  <2>2. reservations[j] \in [of : Session, phase : {"Queued", "Selected"}]
    BY <1>0, <2>1 DEF TypeOK
  <2> QED
    BY <2>1, <2>2 DEF Of
<1>5. Revoked' = Revoked
  BY <1>1, <1>3, <1>4 DEF Revoked
<1>6. \A u \in Session : Eligible(u, queues)' => Eligible(u, queues)
  BY <1>1, <1>2, <1>3 DEF Eligible
<1>7. \A t \in Thread : Pumping(t)' <=> Pumping(t)
  BY <1>1 DEF Pumping
<1> QED
  BY <1>5, <1>6, <1>7 DEF NoStrandedJob

LEMMA StrandedNext ==
  DispatchInv /\ NoStrandedJob /\ [Next]_vars => NoStrandedJob'
<1> SUFFICES ASSUME DispatchInv, NoStrandedJob, [Next]_vars PROVE NoStrandedJob'
  OBVIOUS
<1>0. TypeOK /\ CountersExact /\ ReservationsLive
  BY DEF DispatchInv
<1>1. ASSUME NEW t \in Thread, Pumping(t)' PROVE NoStrandedJob'
  BY <1>1 DEF NoStrandedJob
<1>2. ASSUME NEW c \in Client, stack' = [stack EXCEPT ![c] = <<NewPump>>] PROVE NoStrandedJob'
  <2>1. c \in Thread /\ stack'[c] = <<NewPump>> /\ <<NewPump>> # <<>>
    BY <1>0, <1>2 DEF TypeOK, Thread
  <2> QED
    BY <1>1, <2>1 DEF Pumping
<1>3. ASSUME NEW c \in Client, NEW s \in Session, Teardown(c, s) PROVE NoStrandedJob'
  BY <1>2, <1>3 DEF Teardown
<1>4. ASSUME NEW c \in Client, NEW s \in Session, NEW j \in Job, Enqueue(c, s, j) PROVE NoStrandedJob'
  BY <1>2, <1>4 DEF Enqueue
<1>5. ASSUME NEW s \in Session, Close(s) PROVE NoStrandedJob'
  <2>1. Cardinality(Of(s, "Queued")) = 0 /\ IsFiniteSet(Of(s, "Queued"))
    BY <1>0, <1>5, OfMembers DEF Close, CountersExact
  <2>2. Of(s, "Queued") = {}
    BY <2>1, FS_EmptySet
  <2> QED
    BY <1>5, <2>2, TableMovesStrandNothing DEF Close
<1>6. ASSUME NEW s \in Session, Open(s) PROVE NoStrandedJob'
  <2>1. Of(s, "Queued") = {}
    BY <1>0, <1>6 DEF Open, ReservationsLive, Of
  <2> QED
    BY <1>6, <2>1, TableMovesStrandNothing DEF Open
<1>7. ASSUME NEW t \in Thread, PumpRound(t) PROVE NoStrandedJob'
  <2>1. /\ Pumping(t) /\ UNCHANGED <<table, running, opens>>
        /\ \/ Fruitless(t, RevokedQueues, RevokedOrder(RevokedQueues))
           \/ \E i \in DOMAIN RevokedOrder(RevokedQueues) : Serving(t, i, RevokedQueues, RevokedOrder(RevokedQueues))
    BY <1>7, PumpRoundCases
  <2>2. CASE Fruitless(t, RevokedQueues, RevokedOrder(RevokedQueues))
    BY <1>1, <2>1, <2>2, FruitlessLeavesNothing DEF NoStrandedJob
  <2>3. CASE \E i \in DOMAIN RevokedOrder(RevokedQueues) : Serving(t, i, RevokedQueues, RevokedOrder(RevokedQueues))
    <3>1. PICK i \in DOMAIN RevokedOrder(RevokedQueues) : Serving(t, i, RevokedQueues, RevokedOrder(RevokedQueues))
      BY <2>3
    <3>2. Pumping(t)'
      BY <2>1, <3>1, ServingPreserves
    <3> QED
      BY <1>1, <3>2
  <2> QED
    BY <2>1, <2>2, <2>3
<1>8. ASSUME NEW t \in Thread, Spawn(t) PROVE NoStrandedJob'
  <2>1. Pumping(t)'
    BY <1>8, SpawnPreserves
  <2> QED
    BY <1>1, <2>1
<1>9. ASSUME NEW t \in Thread, NEW j \in Job, AnswerRevoked(t, j) PROVE NoStrandedJob'
  <2>1. Pumping(t)'
    BY <1>9, AnswerPreserves
  <2> QED
    BY <1>1, <2>1
<1>10. ASSUME NEW j \in Job, Complete(j) PROVE NoStrandedJob'
  <2>1. Pumping(j)' /\ j \in Thread
    BY <1>10, CompletePreserves DEF Thread
  <2> QED
    BY <1>1, <2>1
<1>11. CASE UNCHANGED vars
  <2>1. UNCHANGED <<table, dispatchVars, counters, running, stack, opens>>
    BY <1>11 DEF vars
  <2>2. UNCHANGED <<table, queues, jobs, reservations, selectedFiles, inFlight, processInFlight, stack>>
    BY <2>1 DEF dispatchVars, counters
  <2> QED
    BY <2>2 DEF NoStrandedJob, Revoked, Eligible, Pumping
<1> QED
  BY <1>3, <1>4, <1>5, <1>6, <1>7, <1>8, <1>9, <1>10, <1>11 DEF Next, PumpNext

\* Nobody waits for nothing: when no pump is running, no queued job is one that a pump would
\* select or revoke.
THEOREM DispatchStrandsNothing == Spec => []NoStrandedJob
<1>1. Init => NoStrandedJob
  BY DEF Init, NoStrandedJob, Revoked, Eligible
<1> QED
  BY <1>1, DispatchInit, DispatchNext, StrandedNext, PTL DEF Spec

-----------------------------------------------------------------------------
(* The counters of the session manager *)

LEMMA CountersStep ==
  DispatchInv /\ [Next]_vars => [Manager!CountersNext]_(Manager!counters)
<1> SUFFICES ASSUME DispatchInv, [Next]_vars
             PROVE  Manager!CountersNext \/ UNCHANGED <<queued, inFlight, processQueued, processInFlight>>
  BY DEF Manager!counters
<1>0. TypeOK /\ CountersExact /\ TokensAreOwned
  BY DEF DispatchInv
<1>1. UNCHANGED counters => UNCHANGED <<queued, inFlight, processQueued, processInFlight>>
  BY DEF counters
\* What is counted is there.
<1>2. ASSUME NEW s \in Session, NEW phase \in {"Queued", "Selected"}, NEW j \in Of(s, phase)
      PROVE  Cardinality(Of(s, phase)) \in Nat /\ Cardinality(Of(s, phase)) > 0
  <2>1. IsFiniteSet(Of(s, phase))
    BY <1>0, OfMembers
  <2>2. Cardinality(Of(s, phase)) \in Nat /\ Cardinality(Of(s, phase)) # 0
    BY <1>2, <2>1, FS_CardinalityType, FS_EmptySet
  <2> QED
    BY <2>2
<1>3. ASSUME NEW c \in Client, NEW s \in Session, NEW j \in Job, Enqueue(c, s, j) PROVE Manager!QueueJob(s)
  BY <1>3 DEF Enqueue, Manager!QueueJob
<1>4. ASSUME NEW t \in Thread, PumpRound(t)
      PROVE  (\E s \in Session : Manager!SelectJob(s)) \/ UNCHANGED counters
  <2>1. \/ Fruitless(t, RevokedQueues, RevokedOrder(RevokedQueues))
        \/ \E i \in DOMAIN RevokedOrder(RevokedQueues) : Serving(t, i, RevokedQueues, RevokedOrder(RevokedQueues))
    BY <1>4, PumpRoundCases
  <2>2. CASE Fruitless(t, RevokedQueues, RevokedOrder(RevokedQueues))
    BY <2>2 DEF Fruitless, SelectNobody
  <2>3. ASSUME NEW i \in DOMAIN RevokedOrder(RevokedQueues), Serving(t, i, RevokedQueues, RevokedOrder(RevokedQueues))
        PROVE  \E s \in Session : Manager!SelectJob(s)
    <3>1. Eligible(RevokedOrder(RevokedQueues)[i], RevokedQueues) /\ Select(i, RevokedQueues, RevokedOrder(RevokedQueues))
      BY <2>3 DEF Serving
    <3>2. PICK s \in Session, j \in Job :
            s = RevokedOrder(RevokedQueues)[i] /\ j \in Of(s, "Queued") /\ Of(s, "Selected") = {}
      BY <3>1, ServedJob
    <3>3. queued[s] > 0 /\ inFlight[s] = 0
      BY <1>0, <1>2, <3>2, FS_EmptySet DEF CountersExact
    <3>4. /\ table[s] = "active" /\ processInFlight < MaxProcessInFlight /\ inFlight[s] < MaxSessionInFlight
      BY <3>1, <3>2 DEF Eligible
    <3>5. /\ queued' = [queued EXCEPT ![s] = @ - 1] /\ processQueued' = processQueued - 1
          /\ inFlight' = [inFlight EXCEPT ![s] = @ + 1] /\ processInFlight' = processInFlight + 1
      BY <3>1, <3>2 DEF Select
    <3> QED
      BY <3>3, <3>4, <3>5 DEF Manager!SelectJob
  <2> QED
    BY <2>1, <2>2, <2>3
<1>5. ASSUME NEW t \in Thread, NEW j \in Job, AnswerRevoked(t, j)
      PROVE  \E s \in Session : Manager!SettleRevoked(s)
  <2>1. IsRevoked(j) /\ Settle(j)
    BY <1>5, AnswerPreserves DEF AnswerRevoked, DropToken
  <2>2. PICK s \in Session : j \in Of(s, "Queued") /\ s = reservations[j].of /\ table[s] = "closing"
                             /\ reservations[j].phase = "Queued"
    BY <1>0, <2>1, OfMembers DEF IsRevoked, TypeOK
  <2>3. queued[s] > 0
    BY <1>0, <1>2, <2>2 DEF CountersExact
  <2> QED
    BY <2>1, <2>2, <2>3 DEF Settle, Manager!SettleRevoked
<1>6. ASSUME NEW j \in Job, Complete(j) PROVE \E s \in Session : Manager!SettleSelected(s)
  <2>1. IsSelected(j) /\ Settle(j)
    BY <1>0, <1>6 DEF Complete, DropToken, TokensAreOwned
  <2>2. PICK s \in Session : j \in Of(s, "Selected") /\ s = reservations[j].of /\ reservations[j].phase = "Selected"
    BY <1>0, <2>1, OfMembers DEF IsSelected, TypeOK
  <2>3. inFlight[s] > 0
    BY <1>0, <1>2, <2>2 DEF CountersExact
  <2> QED
    BY <2>1, <2>2, <2>3 DEF Settle, Manager!SettleSelected
<1>7. ASSUME NEW s \in Session,
             (\E c \in Client : Teardown(c, s)) \/ Close(s) \/ Open(s) \/ \E t \in Thread : Spawn(t)
      PROVE  UNCHANGED counters
  BY <1>7 DEF Teardown, Close, Open, Spawn
<1>8. ASSUME NEW t \in Thread, Spawn(t) PROVE UNCHANGED counters
  BY <1>8 DEF Spawn
<1>9. CASE UNCHANGED vars
  BY <1>9 DEF vars, counters
<1> QED
  BY <1>1, <1>3, <1>4, <1>5, <1>6, <1>7, <1>8, <1>9 DEF Next, PumpNext, Manager!CountersNext

\* The dispatcher changes the manager's counters only the way PdfSession does: the sections that
\* it runs under its own mutex compose with the manager's.
THEOREM DispatchImplementsCounters == Spec => CountersImplemented
<1>1. Init => Manager!CountersInit
  BY DEF Init, Manager!CountersInit
<1> QED
  BY <1>1, DispatchCorrect, CountersStep, PTL DEF Spec, CountersImplemented, Manager!CountersSpec
=============================================================================
