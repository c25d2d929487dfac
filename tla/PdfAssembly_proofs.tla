-------------------------- MODULE PdfAssembly_proofs --------------------------
(***************************************************************************)
(* Proofs that the assembly ledger is exact, serves its queue in strict    *)
(* turn and is what the session manager takes it for, for any number of    *)
(* documents, windows and lease ids, every budget and every order of the   *)
(* calls.                                                                  *)
(*                                                                         *)
(* The charge is a sum over the documents, which the model takes from the  *)
(* library's fold.  Its definition by recursion over sets is unfolded here *)
(* into the one fact the ledger needs: a document can be taken out of the  *)
(* sum, whichever it is.                                                   *)
(*                                                                         *)
(* A call changes the ledger in several steps, and the pump in a number of *)
(* rounds that only the queue bounds.  What a call does is proved as       *)
(* relations between two ledgers that compose: Serving of the queue, and   *)
(* the change of Views for what the manager sees.                          *)
(***************************************************************************)
EXTENDS PdfAssembly, SequencesExt, SequenceTheorems, FiniteSetTheorems, WellFoundedInduction, TLAPS

-----------------------------------------------------------------------------
(* Numbers and sequences *)

\* Numbers have a least one.
LEMMA LeastNumber ==
    ASSUME NEW T \in SUBSET Nat, T # {}
    PROVE  \E x \in T : \A y \in T : x <= y
<1>1. IsWellFoundedOn(OpToRel(<, Nat), Nat)
  BY NatLessThanWellFounded
<1>2. \E x \in T : \A y \in T : ~ (<<y, x>> \in OpToRel(<, Nat))
  BY ONLY <1>1, T \subseteq Nat, T # {}, WFMin
<1>3. PICK x \in T : \A y \in T : ~(y < x)
  BY <1>2 DEF OpToRel
<1> QED
  BY <1>3

\* Induction over the numbers, stated of a set of them.
LEMMA NumbersInduction ==
    ASSUME NEW P, 0 \in P, \A n \in Nat : n \in P => n + 1 \in P
    PROVE  Nat \subseteq P
<1> DEFINE T == Nat \ P
<1> SUFFICES ASSUME T # {} PROVE FALSE
  OBVIOUS
<1>1. PICK x \in T : \A y \in T : x <= y
  <2>1. T \in SUBSET Nat
    OBVIOUS
  <2> HIDE DEF T
  <2> QED
    BY <2>1, LeastNumber
<1>2. x - 1 \in T /\ ~(x <= x - 1)
  BY <1>1
<1> QED
  BY <1>1, <1>2

\* A sequence is empty when it has no elements.
LEMMA NoElements ==
    ASSUME NEW T, NEW seq \in Seq(T)
    PROVE  seq = <<>> <=> ToSet(seq) = {}
<1>1. Len(seq) \in Nat /\ DOMAIN seq = 1..Len(seq)
  BY LenProperties
<1>2. seq # <<>> => seq[1] \in ToSet(seq)
  BY <1>1, EmptySeq DEF ToSet
<1>3. seq = <<>> => ToSet(seq) = {}
  BY DEF ToSet
<1> QED
  BY <1>2, <1>3

\* One more element at the end.
LEMMA AppendElements ==
    ASSUME NEW T, NEW seq \in Seq(T), NEW e \in T
    PROVE  /\ Append(seq, e) \in Seq(T) /\ Append(seq, e) # <<>>
           /\ ToSet(Append(seq, e)) = ToSet(seq) \cup {e}
           /\ IsInjective(seq) /\ e \notin ToSet(seq) => IsInjective(Append(seq, e))
<1> DEFINE a == Append(seq, e)
<1>1. /\ a \in Seq(T) /\ Len(a) = Len(seq) + 1 /\ a[Len(seq) + 1] = e
      /\ \A i \in 1..Len(seq) : a[i] = seq[i]
  BY AppendProperties
<1>2. Len(seq) \in Nat /\ DOMAIN seq = 1..Len(seq) /\ DOMAIN a = 1..Len(a)
  BY <1>1, LenProperties
<1> HIDE DEF a
<1>3. a # <<>>
  BY <1>1, <1>2, EmptySeq
<1>4. ToSet(a) = ToSet(seq) \cup {e}
  BY <1>1, <1>2 DEF ToSet
<1>5. ASSUME IsInjective(seq), e \notin ToSet(seq) PROVE IsInjective(a)
  <2>1. \A i \in 1..Len(seq) : seq[i] # e
    BY <1>2, <1>5 DEF ToSet
  <2>2. \A i, k \in 1..Len(seq) : seq[i] = seq[k] => i = k
    BY <1>2, <1>5 DEF IsInjective
  <2> QED
    BY <1>1, <1>2, <2>1, <2>2 DEF IsInjective
<1> QED
  BY <1>1, <1>3, <1>4, <1>5 DEF a

\* The elements of the tail.
LEMMA TailElements ==
    ASSUME NEW T, NEW seq \in Seq(T), seq # <<>>
    PROVE  /\ Tail(seq) \in Seq(T) /\ Head(seq) \in T /\ Head(seq) \in ToSet(seq)
           /\ Tail(seq) = <<>> <=> Len(seq) = 1
           /\ ToSet(seq) = ToSet(Tail(seq)) \cup {Head(seq)}
           /\ IsInjective(seq) => IsInjective(Tail(seq)) /\ ToSet(Tail(seq)) = ToSet(seq) \ {Head(seq)}
<1> DEFINE t == Tail(seq)
           h == Head(seq)
<1>1. /\ t \in Seq(T) /\ Len(t) = Len(seq) - 1 /\ h = seq[1]
      /\ \A i \in 1..Len(t) : t[i] = seq[i + 1]
  BY HeadTailProperties
<1>2. /\ Len(seq) \in Nat /\ Len(seq) # 0 /\ DOMAIN seq = 1..Len(seq) /\ DOMAIN t = 1..Len(t)
      /\ \A i \in 1..Len(seq) : seq[i] \in T
  BY <1>1, LenProperties, EmptySeq
<1> HIDE DEF t, h
<1>3. t = <<>> <=> Len(seq) = 1
  BY <1>1, <1>2, EmptySeq
<1>4. /\ \A x : x \in ToSet(seq) <=> \E i \in 1..Len(seq) : seq[i] = x
      /\ \A x : x \in ToSet(t) <=> \E i \in 1..Len(t) : t[i] = x
  BY <1>2 DEF ToSet
<1>5. ASSUME NEW x PROVE x \in ToSet(seq) <=> x = h \/ x \in ToSet(t)
  <2>1. (\E i \in 1..Len(seq) : seq[i] = x) <=> x = seq[1] \/ \E i \in 1..Len(t) : seq[i + 1] = x
    <3>1. ASSUME NEW i \in 1..Len(seq) PROVE i = 1 \/ (i - 1 \in 1..Len(t) /\ (i - 1) + 1 = i)
      BY <1>1, <1>2
    <3>2. \A i \in 1..Len(t) : i + 1 \in 1..Len(seq)
      BY <1>1, <1>2
    <3>3. 1 \in 1..Len(seq)
      BY <1>2
    <3> QED
      BY <3>1, <3>2, <3>3
  <2> QED
    BY <1>1, <1>4, <2>1
<1>6. ASSUME IsInjective(seq) PROVE IsInjective(t) /\ h \notin ToSet(t)
  <2>1. \A i, k \in 1..Len(seq) : seq[i] = seq[k] => i = k
    BY <1>2, <1>6 DEF IsInjective
  <2>2. IsInjective(t)
    <3> SUFFICES ASSUME NEW i \in 1..Len(t), NEW k \in 1..Len(t), t[i] = t[k] PROVE i = k
      BY <1>2 DEF IsInjective
    <3>1. i + 1 \in 1..Len(seq) /\ k + 1 \in 1..Len(seq) /\ seq[i + 1] = seq[k + 1]
      BY <1>1, <1>2
    <3>2. i + 1 = k + 1
      BY <2>1, <3>1
    <3> QED
      BY <3>2
  <2>3. \A i \in 1..Len(t) : t[i] # h
    BY <1>1, <1>2, <2>1
  <2> QED
    BY <1>4, <2>2, <2>3
<1>7. h \in T /\ h \in ToSet(seq)
  BY <1>1, <1>2, <1>4
<1> QED
  BY <1>1, <1>3, <1>5, <1>6, <1>7 DEF t, h

\* A part of a sequence.
LEMMA SubSeqElements ==
    ASSUME NEW T, NEW seq \in Seq(T), NEW m \in 1..(Len(seq) + 1), NEW n \in (m - 1)..Len(seq)
    PROVE  /\ SubSeq(seq, m, n) \in Seq(T)
           /\ \A x : x \in ToSet(SubSeq(seq, m, n)) <=> \E i \in m..n : seq[i] = x
           /\ IsInjective(seq) => IsInjective(SubSeq(seq, m, n))
<1> DEFINE p == SubSeq(seq, m, n)
<1>1. Len(seq) \in Nat /\ DOMAIN seq = 1..Len(seq) /\ m \in Nat /\ n \in Int
  BY LenProperties
<1>2. p \in Seq(T) /\ Len(p) = n - m + 1 /\ \A i \in 1..(n - m + 1) : p[i] = seq[m + i - 1]
  BY SubSeqProperties
<1>3. DOMAIN p = 1..(n - m + 1)
  BY <1>2, LenProperties
<1> HIDE DEF p
<1>4. ASSUME NEW i \in 1..(n - m + 1) PROVE m + i - 1 \in m..n /\ p[i] = seq[m + i - 1]
  BY <1>1, <1>2
<1>5. ASSUME NEW x PROVE x \in ToSet(p) <=> \E i \in m..n : seq[i] = x
  <2>1. x \in ToSet(p) <=> \E i \in 1..(n - m + 1) : p[i] = x
    BY <1>3 DEF ToSet
  <2>2. ASSUME NEW i \in m..n PROVE i - m + 1 \in 1..(n - m + 1) /\ p[i - m + 1] = seq[i]
    <3>1. i - m + 1 \in 1..(n - m + 1) /\ m + (i - m + 1) - 1 = i
      BY <1>1
    <3> QED
      BY <1>2, <3>1
  <2> QED
    BY <1>4, <2>1, <2>2
<1>6. ASSUME IsInjective(seq), NEW i \in 1..(n - m + 1), NEW k \in 1..(n - m + 1), p[i] = p[k]
      PROVE  i = k
  <2>1. m + i - 1 \in 1..Len(seq) /\ m + k - 1 \in 1..Len(seq) /\ seq[m + i - 1] = seq[m + k - 1]
    BY <1>1, <1>4, <1>6
  <2>2. m + i - 1 = m + k - 1
    BY <1>1, <1>6, <2>1 DEF IsInjective
  <2> QED
    BY <1>1, <2>2
<1>7. IsInjective(seq) => IsInjective(p)
  BY <1>3, <1>6 DEF IsInjective
<1> QED
  BY <1>2, <1>5, <1>7 DEF p

-----------------------------------------------------------------------------
(* Sums *)

Total(docs, S) == MapThenSumSet(LAMBDA d : docs[d].active.bytes, S)
Chosen(s) == CHOOSE x \in s : TRUE

\* What the function that the fold defines by recursion is at each of the sets of T.
Summing(it, docs, T) ==
  it = [s \in T |-> IF s = {} THEN 0 ELSE docs[Chosen(s)].active.bytes + it[s \ {Chosen(s)}]]

LEMMA TotalIs ==
  ASSUME NEW docs, NEW S
  PROVE  Total(docs, S) = (CHOOSE it : Summing(it, docs, SUBSET S))[S]
  BY DEF Total, MapThenSumSet, MapThenFoldSet, Summing, Chosen

\* The function at one set.
LEMMA SummingAt ==
  ASSUME NEW it, NEW docs, NEW T, Summing(it, docs, T), NEW s \in T
  PROVE  it[s] = IF s = {} THEN 0 ELSE docs[Chosen(s)].active.bytes + it[s \ {Chosen(s)}]
  BY Zenon DEF Summing

\* The chosen element is one.
LEMMA ChosenIs ==
  ASSUME NEW S, IsFiniteSet(S), NEW s \in SUBSET S
  PROVE  /\ IsFiniteSet(s) /\ Cardinality(s) \in Nat /\ (Cardinality(s) = 0 <=> s = {})
         /\ s # {} => /\ Chosen(s) \in s /\ s \ {Chosen(s)} \in SUBSET S
                      /\ Cardinality(s \ {Chosen(s)}) = Cardinality(s) - 1
<1>1. IsFiniteSet(s)
  BY FS_Subset
<1>2. Cardinality(s) \in Nat /\ (Cardinality(s) = 0 <=> s = {})
  BY <1>1, FS_CardinalityType, FS_EmptySet
<1>3. ASSUME s # {}
      PROVE  Chosen(s) \in s
  BY <1>3, Zenon DEF Chosen
<1>4. ASSUME s # {}
      PROVE  Cardinality(s \ {Chosen(s)}) = Cardinality(s) - 1
  BY <1>1, <1>3, <1>4, FS_RemoveElement
<1> QED
  BY <1>1, <1>2, <1>3, <1>4

\* There is such a function: the definition of the fold by recursion is one.
LEMMA SummingExists ==
  ASSUME NEW docs, NEW S, IsFiniteSet(S)
  PROVE  \E it : Summing(it, docs, SUBSET S)
<1> DEFINE Level(n) == {s \in SUBSET S : Cardinality(s) <= n}
           P == {n \in Nat : \E it : Summing(it, docs, Level(n))}
<1>1. 0 \in P
  <2> DEFINE f == [s \in Level(0) |-> 0]
  <2>1. ASSUME NEW s \in Level(0)
        PROVE  s = {}
    <3>1. Cardinality(s) \in Nat /\ (Cardinality(s) = 0 <=> s = {})
      BY ChosenIs
    <3>2. Cardinality(s) <= 0
      OBVIOUS
    <3> QED
      BY <3>1, <3>2
  <2>2. Summing(f, docs, Level(0))
    BY <2>1 DEF Summing
  <2> QED
    BY <2>2
<1>2. ASSUME NEW k \in Nat, k \in P PROVE k + 1 \in P
  <2>1. PICK g : Summing(g, docs, Level(k))
    BY <1>2
  <2> DEFINE f == [s \in Level(k + 1) |-> IF s \in Level(k) THEN g[s]
                                          ELSE docs[Chosen(s)].active.bytes + g[s \ {Chosen(s)}]]
  <2>2. ASSUME NEW s \in Level(k + 1)
        PROVE  f[s] = IF s = {} THEN 0 ELSE docs[Chosen(s)].active.bytes + f[s \ {Chosen(s)}]
    <3>1. Cardinality(s) \in Nat /\ (Cardinality(s) = 0 <=> s = {})
      BY ChosenIs
    <3>2. CASE s = {}
      <4>1. s \in Level(k)
        BY <3>1, <3>2
      <4>2. g[s] = 0
        BY <2>1, <3>2, <4>1, SummingAt
      <4> QED
        BY <3>2, <4>1, <4>2
    <3>3. CASE s # {}
      <4>1. s \ {Chosen(s)} \in Level(k) /\ s \ {Chosen(s)} \in Level(k + 1)
        BY <3>1, <3>3, ChosenIs
      <4>2. f[s \ {Chosen(s)}] = g[s \ {Chosen(s)}]
        BY <4>1
      <4>3. s \in Level(k) => g[s] = docs[Chosen(s)].active.bytes + g[s \ {Chosen(s)}]
        BY <2>1, <3>3, SummingAt
      <4>4. f[s] = docs[Chosen(s)].active.bytes + g[s \ {Chosen(s)}]
        BY <4>3
      <4> QED
        BY <3>3, <4>2, <4>4
    <3> QED
      BY <3>2, <3>3
  <2>3. Summing(f, docs, Level(k + 1))
    <3> HIDE DEF Level
    <3>1. f = [s \in Level(k + 1) |-> f[s]]
      OBVIOUS
    <3> HIDE DEF f
    <3> QED
      BY <2>2, <3>1 DEF Summing
  <2> QED
    BY <2>3
<1>3. Nat \subseteq P
  <2> HIDE DEF P
  <2> QED
    BY <1>1, <1>2, NumbersInduction
<1>4. Cardinality(S) \in Nat /\ \A s \in SUBSET S : Cardinality(s) <= Cardinality(S)
  BY FS_CardinalityType, FS_Subset
<1>5. Level(Cardinality(S)) = SUBSET S
  BY <1>4
<1>6. Cardinality(S) \in P
  BY <1>3, <1>4
<1> QED
  BY <1>5, <1>6

SameBytes(docs1, docs2, r) == \A d \in r : docs1[d].active.bytes = docs2[d].active.bytes
SumsSubsets(it, docs, S) == Summing(it, docs, SUBSET S)

\* What it is at a set depends on the bytes of the documents of that set only.
LEMMA SumsAgree ==
  ASSUME NEW it1, NEW docs1, NEW S1, IsFiniteSet(S1), SumsSubsets(it1, docs1, S1),
         NEW it2, NEW docs2, NEW S2, SumsSubsets(it2, docs2, S2),
         NEW r, r \subseteq S1, r \subseteq S2, SameBytes(docs1, docs2, r)
  PROVE  it1[r] = it2[r]
<1> DEFINE P == {n \in Nat : \A s \in SUBSET r : Cardinality(s) = n => it1[s] = it2[s]}
<1>1. \A s \in SUBSET r : s \in SUBSET S1 /\ s \in SUBSET S2
  OBVIOUS
<1>a. Summing(it1, docs1, SUBSET S1) /\ Summing(it2, docs2, SUBSET S2)
  BY DEF SumsSubsets
<1>2. 0 \in P
  <2>1. ASSUME NEW s \in SUBSET r, Cardinality(s) = 0
        PROVE  it1[s] = it2[s]
    <3>1. s = {}
      BY <1>1, <2>1, ChosenIs
    <3> QED
      BY <1>1, <1>a, <3>1, SummingAt
  <2> QED
    BY <2>1
<1>3. ASSUME NEW k \in Nat, k \in P PROVE k + 1 \in P
  <2>1. ASSUME NEW s \in SUBSET r, Cardinality(s) = k + 1
        PROVE  it1[s] = it2[s]
    <3>1. /\ s # {} /\ Chosen(s) \in s /\ s \ {Chosen(s)} \in SUBSET r
          /\ Cardinality(s \ {Chosen(s)}) = k
      <4>1. s \in SUBSET S1 /\ Cardinality(s) # 0
        BY <1>1, <2>1
      <4>2. s # {} /\ Chosen(s) \in s /\ Cardinality(s \ {Chosen(s)}) = Cardinality(s) - 1
        BY <4>1, ChosenIs
      <4> QED
        BY <2>1, <4>2
    <3>2. it1[s \ {Chosen(s)}] = it2[s \ {Chosen(s)}]
      BY <1>3, <3>1
    <3>3. it1[s] = docs1[Chosen(s)].active.bytes + it1[s \ {Chosen(s)}]
      BY <1>1, <1>a, <3>1, SummingAt
    <3>4. it2[s] = docs2[Chosen(s)].active.bytes + it2[s \ {Chosen(s)}]
      BY <1>1, <1>a, <3>1, SummingAt
    <3> QED
      BY <3>1, <3>2, <3>3, <3>4 DEF SameBytes
  <2> QED
    BY <2>1
<1>4. Nat \subseteq P
  <2> HIDE DEF P
  <2> QED
    BY <1>2, <1>3, NumbersInduction
<1>5. Cardinality(r) \in Nat
  BY ChosenIs
<1> QED
  BY <1>4, <1>5

\* The sum, taken apart at the element the fold takes first.
LEMMA TotalFirst ==
  ASSUME NEW docs, NEW S, IsFiniteSet(S)
  PROVE  /\ Total(docs, {}) = 0
         /\ S # {} => Total(docs, S) = docs[Chosen(S)].active.bytes + Total(docs, S \ {Chosen(S)})
<1>1. ASSUME NEW T, IsFiniteSet(T)
      PROVE  \E it : Summing(it, docs, SUBSET T) /\ Total(docs, T) = it[T]
  BY <1>1, SummingExists, TotalIs
<1>2. Total(docs, {}) = 0
  <2>1. PICK it : Summing(it, docs, SUBSET {}) /\ Total(docs, {}) = it[{}]
    BY <1>1, FS_EmptySet
  <2> QED
    BY <2>1, SummingAt
<1>3. ASSUME S # {}
      PROVE  Total(docs, S) = docs[Chosen(S)].active.bytes + Total(docs, S \ {Chosen(S)})
  <2>1. PICK T : T = S \ {Chosen(S)}
    OBVIOUS
  <2>2. IsFiniteSet(T) /\ T \subseteq S
    BY <2>1, FS_Subset
  <2>3. PICK it1 : Summing(it1, docs, SUBSET S) /\ Total(docs, S) = it1[S]
    BY <1>1
  <2>4. PICK it2 : Summing(it2, docs, SUBSET T) /\ Total(docs, T) = it2[T]
    BY <1>1, <2>2
  <2>5. it1[S] = docs[Chosen(S)].active.bytes + it1[T]
    BY <1>3, <2>1, <2>3, SummingAt
  <2>6. it1[T] = it2[T]
    <3>1. SameBytes(docs, docs, T)
      BY DEF SameBytes
    <3>2. SumsSubsets(it1, docs, S) /\ SumsSubsets(it2, docs, T)
      BY <2>3, <2>4 DEF SumsSubsets
    <3> QED
      BY <2>2, <3>1, <3>2, SumsAgree
  <2> QED
    BY <2>1, <2>3, <2>4, <2>5, <2>6
<1> QED
  BY <1>2, <1>3

\* The sum depends on the bytes only.
LEMMA TotalSame ==
  ASSUME NEW docs1, NEW docs2, NEW S, IsFiniteSet(S), SameBytes(docs1, docs2, S)
  PROVE  Total(docs1, S) = Total(docs2, S)
<1>1. PICK it1 : Summing(it1, docs1, SUBSET S) /\ Total(docs1, S) = it1[S]
  BY SummingExists, TotalIs
<1>2. PICK it2 : Summing(it2, docs2, SUBSET S) /\ Total(docs2, S) = it2[S]
  BY SummingExists, TotalIs
<1>3. it1[S] = it2[S]
  <2>1. SumsSubsets(it1, docs1, S) /\ SumsSubsets(it2, docs2, S) /\ SameBytes(docs1, docs2, S)
    BY <1>1, <1>2 DEF SumsSubsets
  <2> QED
    BY <2>1, SumsAgree
<1> QED
  BY <1>1, <1>2, <1>3

\* The sum is a number.
LEMMA TotalNat ==
  ASSUME NEW docs, NEW S, IsFiniteSet(S), \A d \in S : docs[d].active.bytes \in Nat
  PROVE  \A s \in SUBSET S : Total(docs, s) \in Nat
<1> DEFINE P == {n \in Nat : \A s \in SUBSET S : Cardinality(s) = n => Total(docs, s) \in Nat}
<1>1. 0 \in P
  <2>1. ASSUME NEW s \in SUBSET S, Cardinality(s) = 0
        PROVE  Total(docs, s) \in Nat
    <3>1. s = {}
      BY <2>1, ChosenIs
    <3>2. Total(docs, {}) = 0
      BY TotalFirst
    <3> QED
      BY <3>1, <3>2
  <2> QED
    BY <2>1
<1>2. ASSUME NEW k \in Nat, k \in P PROVE k + 1 \in P
  <2>1. ASSUME NEW s \in SUBSET S, Cardinality(s) = k + 1
        PROVE  Total(docs, s) \in Nat
    <3>1. Cardinality(s) # 0
      BY <2>1
    <3>2. PICK c : c = Chosen(s)
      OBVIOUS
    <3>3. s # {} /\ c \in s /\ IsFiniteSet(s) /\ s \ {c} \in SUBSET S /\ Cardinality(s \ {c}) = k
      BY <2>1, <3>1, <3>2, ChosenIs
    <3>4. Total(docs, s) = docs[c].active.bytes + Total(docs, s \ {c})
      BY <3>2, <3>3, TotalFirst
    <3>5. Total(docs, s \ {c}) \in Nat /\ docs[c].active.bytes \in Nat
      BY <1>2, <3>3
    <3> QED
      BY <3>4, <3>5
  <2> QED
    BY <2>1
<1>3. Nat \subseteq P
  <2> HIDE DEF P
  <2> QED
    BY <1>1, <1>2, NumbersInduction
<1>4. \A s \in SUBSET S : Cardinality(s) \in Nat
  BY ChosenIs
<1> QED
  BY <1>3, <1>4

\* Any document can be taken out of the sum.
LEMMA TotalWithout ==
  ASSUME NEW docs, NEW S, IsFiniteSet(S), \A d \in S : docs[d].active.bytes \in Nat, NEW y \in S
  PROVE  Total(docs, S) = docs[y].active.bytes + Total(docs, S \ {y})
<1> DEFINE Right(s) == \A x \in s : Total(docs, s) = docs[x].active.bytes + Total(docs, s \ {x})
           P == {n \in Nat : \A s \in SUBSET S : Cardinality(s) = n => Right(s)}
<1>0. \A s \in SUBSET S : Total(docs, s) \in Nat
  BY TotalNat
<1>1. 0 \in P
  <2>1. ASSUME NEW s \in SUBSET S, Cardinality(s) = 0
        PROVE  s = {}
    BY <2>1, ChosenIs
  <2> QED
    BY <2>1
<1>2. ASSUME NEW k \in Nat, k \in P PROVE k + 1 \in P
  <2>0. ASSUME NEW t \in SUBSET S, Cardinality(t) = k
        PROVE  Right(t)
    BY <1>2, <2>0
  <2>1. ASSUME NEW s \in SUBSET S, Cardinality(s) = k + 1
        PROVE  Right(s)
    <3>1. Cardinality(s) # 0
      BY <2>1
    <3>2. PICK c : c = Chosen(s)
      OBVIOUS
    <3>3. s # {} /\ c \in s /\ IsFiniteSet(s) /\ s \ {c} \in SUBSET S /\ Cardinality(s \ {c}) = k
      BY <2>1, <3>1, <3>2, ChosenIs
    <3>4. Total(docs, s) = docs[c].active.bytes + Total(docs, s \ {c})
      BY <3>2, <3>3, TotalFirst
    <3>5. Right(s \ {c})
      BY <2>0, <3>3
    <3>6. ASSUME NEW x \in s, x # c
          PROVE  Total(docs, s) = docs[x].active.bytes + Total(docs, s \ {x})
      <4>1. s \ {x} \in SUBSET S /\ Cardinality(s \ {x}) = k
        BY <2>1, <3>3, FS_RemoveElement
      <4>2. Right(s \ {x})
        BY <2>0, <4>1
      <4>3. PICK t : t = (s \ {c}) \ {x}
        OBVIOUS
      <4>4. t = (s \ {x}) \ {c} /\ x \in s \ {c} /\ c \in s \ {x} /\ t \in SUBSET S
        BY <3>3, <3>6, <4>3
      <4>5. Total(docs, s \ {c}) = docs[x].active.bytes + Total(docs, t)
        BY <3>5, <4>3, <4>4
      <4>6. Total(docs, s \ {x}) = docs[c].active.bytes + Total(docs, t)
        BY <4>2, <4>4
      <4>7. docs[x].active.bytes \in Nat /\ docs[c].active.bytes \in Nat /\ Total(docs, t) \in Nat
        BY <1>0, <3>3, <4>4
      <4> QED
        BY <3>4, <4>5, <4>6, <4>7
    <3> QED
      BY <3>4, <3>6
  <2> QED
    BY <2>1
<1>3. Nat \subseteq P
  <2> HIDE DEF P
  <2> QED
    BY <1>1, <1>2, NumbersInduction
<1>4. Cardinality(S) \in Nat
  BY FS_CardinalityType
<1>5. Right(S)
  BY <1>3, <1>4
<1> QED
  BY <1>5

-----------------------------------------------------------------------------
(* The inductive invariant, as a predicate of a ledger *)

Documented == [cancelThrough : 0..Everything, active : [id : 0..MaxLease, bytes : 0..MaxBytes],
               waiting : [sequence : 0..MaxSequence, bytes : 0..MaxBytes],
               finished : BOOLEAN, released : Seq(1..MaxLease), last : 0..MaxLease]
Documents == UNION {[D -> Documented] : D \in SUBSET Doc}
Book == [documents : Documents, pending : Seq(Doc), closed : Seq(Doc), bytes : Nat, next : 1..MaxLease]

\* What is right with one document: a lease is the last one granted, and a release of the last
\* one is remembered; a request is beyond the watermark; one that is finished has neither.
Promise(doc) ==
  /\ HasLease(doc) => doc.active.id = doc.last /\ doc.last # 0 /\ ~doc.finished
  /\ HasRequest(doc) => doc.waiting.sequence > doc.cancelThrough /\ ~doc.finished
  /\ doc.last # 0 /\ ~HasLease(doc) => Contains(doc.released, doc.last)

HoldersOf(docs) == {d \in DOMAIN docs : HasLease(docs[d])}
Owed(docs) == Total(docs, HoldersOf(docs))

Sound(st) == st \in Book /\ \A d \in DOMAIN st.documents : Promise(st.documents[d])
Exact(st) == st.bytes = Owed(st.documents) /\ st.bytes <= MaxBytes

LedgerInv == Sound(Ledger) /\ Exact(Ledger)

-----------------------------------------------------------------------------
(* Documents *)

LEMMA Constants ==
  /\ IsFiniteSet(Doc) /\ MaxBytes \in Nat /\ Sizes \subseteq 1..MaxBytes /\ MaxSequence \in Nat
  /\ MaxLease \in Nat /\ MaxLease # 0 /\ MaxReleased \in Nat /\ MaxReleased # 0 /\ MaxClosed \in Nat
  /\ Everything = MaxSequence + 1
  BY LedgerAssumption DEF LedgerAssumption, Everything

LEMMA NothingIs ==
  /\ NoLease \in [id : 0..MaxLease, bytes : 0..MaxBytes]
  /\ NoRequest \in [sequence : 0..MaxSequence, bytes : 0..MaxBytes]
  BY Constants DEF NoLease, NoRequest

LEMMA DocumentsAre ==
  ASSUME NEW docs
  PROVE  docs \in Documents <=> DOMAIN docs \subseteq Doc /\ docs \in [DOMAIN docs -> Documented]
<1>1. ASSUME docs \in Documents
      PROVE  DOMAIN docs \subseteq Doc /\ docs \in [DOMAIN docs -> Documented]
  <2>1. PICK D \in SUBSET Doc : docs \in [D -> Documented]
    BY <1>1 DEF Documents
  <2> QED
    BY <2>1
<1>2. ASSUME DOMAIN docs \subseteq Doc, docs \in [DOMAIN docs -> Documented]
      PROVE  docs \in Documents
  BY <1>2 DEF Documents
<1> QED
  BY <1>1, <1>2

\* A document the ledger does not know is new.
LEMMA DocumentIs ==
  ASSUME NEW st, Sound(st), NEW d
  PROVE  DocumentOr(st.documents, d) \in Documented /\ Promise(DocumentOr(st.documents, d))
<1>1. CASE d \in DOMAIN st.documents
  <2>1. st.documents \in [DOMAIN st.documents -> Documented]
    BY DocumentsAre DEF Sound, Book
  <2> QED
    BY <1>1, <2>1 DEF DocumentOr, Sound
<1>2. CASE d \notin DOMAIN st.documents
  <2>1. DocumentOr(st.documents, d) = NewDocument
    BY <1>2 DEF DocumentOr
  <2>2. <<>> \in Seq(1..MaxLease)
    OBVIOUS
  <2>3. NewDocument \in Documented
    BY <2>2, Constants DEF NewDocument, Documented, NoLease, NoRequest
  <2>4. Promise(NewDocument)
    BY DEF NewDocument, Promise, HasLease, HasRequest
  <2> QED
    BY <2>1, <2>3, <2>4
<1> QED
  BY <1>1, <1>2

\* The bytes of a document without a lease.
LEMMA BytesAre ==
  ASSUME NEW doc \in Documented
  PROVE  doc.active.bytes \in Nat /\ (~HasLease(doc) => doc.active.bytes = 0)
  BY Constants DEF Documented, HasLease, NoLease

\* What is owed changes by the bytes of the document that changes.
LEMMA OwedAfter ==
  ASSUME NEW docs \in Documents, NEW d \in Doc, NEW doc \in Documented,
         NEW new, new = [k \in DOMAIN docs \cup {d} |-> IF k = d THEN doc ELSE docs[k]]
  PROVE  /\ new \in Documents /\ Owed(docs) \in Nat /\ Owed(new) \in Nat
         /\ Owed(new) + DocumentOr(docs, d).active.bytes = Owed(docs) + doc.active.bytes
<1>1. DOMAIN docs \subseteq Doc /\ docs \in [DOMAIN docs -> Documented]
  BY DocumentsAre
<1>2. /\ DOMAIN new = DOMAIN docs \cup {d} /\ new[d] = doc
      /\ \A k \in DOMAIN docs : k # d => new[k] = docs[k]
  OBVIOUS
<1>3. DOMAIN new \subseteq Doc /\ new \in [DOMAIN new -> Documented]
  BY <1>1
<1>4. new \in Documents
  BY <1>3, DocumentsAre
<1>5. PICK H : H = HoldersOf(docs)
  OBVIOUS
<1>6. PICK N : N = HoldersOf(new)
  OBVIOUS
<1>7. IsFiniteSet(H) /\ IsFiniteSet(N)
  <2>1. H \in SUBSET Doc /\ N \in SUBSET Doc
    BY <1>1, <1>3, <1>5, <1>6 DEF HoldersOf
  <2> QED
    BY <2>1, Constants, FS_Subset
<1>8. (\A k \in H : docs[k].active.bytes \in Nat) /\ (\A k \in N : new[k].active.bytes \in Nat)
  BY <1>1, <1>3, <1>5, <1>6, BytesAre DEF HoldersOf
<1>9. PICK R : R = H \ {d}
  OBVIOUS
<1>10. R = N \ {d} /\ IsFiniteSet(R) /\ SameBytes(docs, new, R)
  <2>1. R = N \ {d} /\ \A k \in R : docs[k] = new[k]
    BY <1>2, <1>5, <1>6, <1>9 DEF HoldersOf
  <2>2. IsFiniteSet(R)
    BY <1>7, <1>9, FS_RemoveElement
  <2> QED
    BY <2>1, <2>2 DEF SameBytes
<1>11. Total(docs, R) = Total(new, R)
  BY <1>10, TotalSame
<1>12. Total(docs, R) \in Nat /\ Total(docs, H) \in Nat /\ Total(new, N) \in Nat
  BY <1>7, <1>8, <1>9, TotalNat
<1>13. Total(docs, H) = DocumentOr(docs, d).active.bytes + Total(docs, R)
  <2>1. CASE d \in H
    BY <1>5, <1>7, <1>8, <1>9, <2>1, TotalWithout DEF HoldersOf, DocumentOr
  <2>2. CASE d \notin H
    <3>1. R = H
      BY <1>9, <2>2
    <3>2. DocumentOr(docs, d).active.bytes = 0
      <4>1. CASE d \in DOMAIN docs
        BY <1>1, <1>5, <2>2, <4>1, BytesAre DEF HoldersOf, DocumentOr
      <4>2. CASE d \notin DOMAIN docs
        BY <4>2 DEF DocumentOr, NewDocument, NoLease
      <4> QED
        BY <4>1, <4>2
    <3> QED
      BY <1>12, <3>1, <3>2
  <2> QED
    BY <2>1, <2>2
<1>14. Total(new, N) = doc.active.bytes + Total(new, R)
  <2>1. CASE d \in N
    BY <1>2, <1>7, <1>8, <1>10, <2>1, TotalWithout
  <2>2. CASE d \notin N
    <3>1. R = N
      BY <1>10, <2>2
    <3>2. doc.active.bytes = 0
      BY <1>2, <1>6, <2>2, BytesAre DEF HoldersOf
    <3> QED
      BY <1>12, <3>1, <3>2
  <2> QED
    BY <2>1, <2>2
<1>15. doc.active.bytes \in Nat /\ DocumentOr(docs, d).active.bytes \in Nat
  <2>1. d \in DOMAIN docs => docs[d].active.bytes \in Nat
    BY <1>1, BytesAre
  <2> QED
    BY <2>1, BytesAre DEF DocumentOr, NewDocument, NoLease
<1> QED
  BY <1>4, <1>5, <1>6, <1>11, <1>12, <1>13, <1>14, <1>15 DEF Owed

-----------------------------------------------------------------------------
(* What the functions of a ledger keep *)

\* A document is replaced, and the charge has been changed by as much.
LEMMA PutKeeps ==
  ASSUME NEW st, Sound(st), NEW d \in Doc, NEW doc \in Documented, Promise(doc), st.bytes <= MaxBytes,
         st.bytes + DocumentOr(st.documents, d).active.bytes = Owed(st.documents) + doc.active.bytes
  PROVE  /\ Sound(Put(st, d, doc)) /\ Exact(Put(st, d, doc))
         /\ Put(st, d, doc) = [st EXCEPT !.documents = Put(st, d, doc).documents]
         /\ d \in DOMAIN Put(st, d, doc).documents
<1>1. st \in Book
  BY DEF Sound
<1>2. PICK new : new = [k \in DOMAIN st.documents \cup {d} |-> IF k = d THEN doc ELSE st.documents[k]]
  OBVIOUS
<1>3. /\ new \in Documents /\ Owed(new) \in Nat /\ Owed(st.documents) \in Nat
      /\ Owed(new) + DocumentOr(st.documents, d).active.bytes = Owed(st.documents) + doc.active.bytes
  <2>1. st.documents \in Documents
    BY <1>1 DEF Book
  <2> QED
    BY <1>2, <2>1, OwedAfter
<1>4. PICK t : t = Put(st, d, doc)
  OBVIOUS
<1>5. t = [st EXCEPT !.documents = new]
  BY <1>1, <1>2, <1>4 DEF Put, Book
<1>6. t \in Book /\ t.documents = new /\ t.bytes = st.bytes
  BY <1>1, <1>3, <1>5 DEF Book
<1>7. \A k \in DOMAIN new : Promise(new[k])
  BY <1>2 DEF Sound
<1>8. st.bytes = Owed(new)
  <2>1. DocumentOr(st.documents, d).active.bytes \in Nat /\ st.bytes \in Nat /\ doc.active.bytes \in Nat
    BY <1>1, DocumentIs, BytesAre DEF Book
  <2> QED
    BY <1>3, <2>1
<1>9. Sound(t) /\ Exact(t)
  BY <1>6, <1>7, <1>8 DEF Sound, Exact
<1>10. d \in DOMAIN new
  BY <1>2
<1> QED
  BY <1>4, <1>5, <1>6, <1>9, <1>10

\* A lease is granted to a document that has none, does not wait any more, and fits.
LEMMA GrantKeeps ==
  ASSUME NEW st, Sound(st), Exact(st), NEW d \in Doc, NEW doc \in Documented,
         ~HasLease(doc), ~HasRequest(doc), ~doc.finished,
         DocumentOr(st.documents, d).active.bytes = 0, NEW n \in Nat, st.bytes + n <= MaxBytes
  PROVE  Sound(Grant(st, d, doc, n)) /\ Exact(Grant(st, d, doc, n))
<1>1. st \in Book /\ st.next \in 1..MaxLease /\ st.bytes \in Nat
  BY DEF Sound, Book
<1>2. PICK u : u = [st EXCEPT !.bytes = @ + n, !.next = (@ % MaxLease) + 1]
  OBVIOUS
<1>3. (st.next % MaxLease) + 1 \in 1..MaxLease /\ st.bytes + n \in Nat
  BY <1>1, Constants
<1>4. /\ u \in Book /\ u.documents = st.documents /\ u.bytes = st.bytes + n
  BY <1>1, <1>2, <1>3 DEF Book
<1>5. Sound(u)
  BY <1>4 DEF Sound
<1>6. PICK new : new = [doc EXCEPT !.active = [id |-> st.next, bytes |-> n], !.last = st.next]
  OBVIOUS
<1>7. n \in 0..MaxBytes
  BY <1>1, Constants
<1>8. [id |-> st.next, bytes |-> n] \in [id : 0..MaxLease, bytes : 0..MaxBytes] /\ st.next \in 0..MaxLease
  BY <1>1, <1>7
<1>9. /\ new \in Documented /\ new.active = [id |-> st.next, bytes |-> n] /\ new.last = st.next
      /\ new.waiting = doc.waiting /\ new.finished = doc.finished
  BY <1>6, <1>8 DEF Documented
<1>10. HasLease(new) /\ new.active.id = st.next /\ st.next # 0 /\ new.active.bytes = n
  BY <1>1, <1>9 DEF HasLease, NoLease
<1>11. Promise(new)
  BY <1>9, <1>10 DEF Promise, HasRequest
<1>12. u.bytes + DocumentOr(u.documents, d).active.bytes = Owed(u.documents) + new.active.bytes
  <2>1. st.bytes = Owed(st.documents)
    BY DEF Exact
  <2> QED
    BY <1>1, <1>4, <1>10, <2>1
<1>13. Grant(st, d, doc, n) = Put(u, d, new)
  BY <1>2, <1>6 DEF Grant
<1>14. u.bytes <= MaxBytes
  BY <1>4
<1> QED
  BY <1>5, <1>9, <1>11, <1>12, <1>13, <1>14, PutKeeps

\* What is neither the documents nor the charge does not matter.
LEMMA OthersDoNotMatter ==
  ASSUME NEW st, Sound(st), Exact(st), NEW t \in Book, t.documents = st.documents, t.bytes = st.bytes
  PROVE  Sound(t) /\ Exact(t)
  BY DEF Sound, Exact

LEMMA NewestIs ==
  ASSUME NEW S, NEW s \in Seq(S), NEW n \in Nat
  PROVE  /\ Newest(s, n) \in Seq(S)
         /\ n # 0 => \A x \in S : Contains(Newest(Append(s, x), n), x)
<1>1. ASSUME NEW r \in Seq(S)
      PROVE  Newest(r, n) \in Seq(S)
  <2>1. Len(r) \in Nat
    OBVIOUS
  <2>2. CASE Len(r) <= n
    BY <2>2 DEF Newest
  <2>3. CASE ~(Len(r) <= n)
    <3>1. Len(r) - n + 1 \in 1..Len(r) + 1 /\ Len(r) \in Int /\ Len(r) - n + 1 \in Int
      BY <2>1, <2>3
    <3>2. \A i \in (Len(r) - n + 1)..Len(r) : r[i] \in S
      BY <2>1, <3>1
    <3>3. SubSeq(r, Len(r) - n + 1, Len(r)) \in Seq(S)
      BY <3>1, <3>2, SubSeqProperties
    <3> QED
      BY <2>3, <3>3 DEF Newest
  <2> QED
    BY <2>2, <2>3
<1>2. ASSUME n # 0, NEW x \in S
      PROVE  Contains(Newest(Append(s, x), n), x)
  <2>1. PICK r \in Seq(S) : r = Append(s, x) /\ Len(r) \in Nat /\ Len(r) > 0 /\ r[Len(r)] = x
    <3>1. /\ Append(s, x) \in Seq(S) /\ Len(Append(s, x)) = Len(s) + 1 /\ Len(s) \in Nat
          /\ Append(s, x)[Len(s) + 1] = x
      OBVIOUS
    <3>2. Len(Append(s, x)) \in Nat /\ Len(Append(s, x)) > 0 /\ Append(s, x)[Len(Append(s, x))] = x
      BY <3>1
    <3> QED
      BY <3>1, <3>2, Zenon
  <2>2. CASE Len(r) <= n
    <3>1. Newest(r, n) = r /\ Len(r) \in 1..Len(r)
      BY <2>1, <2>2 DEF Newest
    <3> QED
      BY <2>1, <3>1 DEF Contains
  <2>3. CASE ~(Len(r) <= n)
    <3>1. PICK m \in Int : m = Len(r) - n + 1
      BY <2>1
    <3>2. m >= 1 /\ m <= Len(r) /\ Len(r) - m + 1 = n
      BY <1>2, <2>1, <2>3, <3>1
    <3>3. PICK u : u = SubSeq(r, m, Len(r))
      OBVIOUS
    <3>4. Len(u) = n /\ u[n] = r[Len(r)]
      <4>1. Len(r) \in Int /\ \A i \in m..Len(r) : r[i] \in S
        BY <2>1, <3>2
      <4>2. Len(u) = Len(r) - m + 1 /\ \A i \in 1..(Len(r) - m + 1) : u[i] = r[m + i - 1]
        BY <3>2, <3>3, <4>1, SubSeqProperties
      <4>3. n \in 1..(Len(r) - m + 1) /\ m + n - 1 = Len(r)
        BY <1>2, <2>1, <3>1, <3>2
      <4> QED
        BY <3>2, <4>2, <4>3
    <3>5. Newest(r, n) = u
      BY <2>3, <3>1, <3>3 DEF Newest
    <3>6. n \in 1..Len(u) /\ u[n] = x
      BY <1>2, <2>1, <3>4
    <3> QED
      BY <2>1, <3>5, <3>6 DEF Contains
  <2> QED
    BY <2>2, <2>3
<1> QED
  BY <1>1, <1>2

\* The newest elements are among the elements.
LEMMA NewestContains ==
  ASSUME NEW S, NEW s \in Seq(S), NEW n \in Nat, NEW x, Contains(Newest(s, n), x)
  PROVE  Contains(s, x)
<1>1. Len(s) \in Nat
  OBVIOUS
<1>2. CASE Len(s) <= n
  BY <1>2 DEF Newest
<1>3. CASE ~(Len(s) <= n)
  <2>a. Len(s) - n + 1 \in Int
    BY <1>1
  <2>1. PICK m \in Int : m = Len(s) - n + 1
    BY <2>a
  <2>2. m \in 1..(Len(s) + 1) /\ Len(s) \in (m - 1)..Len(s) /\ Newest(s, n) = SubSeq(s, m, Len(s))
    BY <1>1, <1>3, <2>1 DEF Newest
  <2>3. PICK u : u = SubSeq(s, m, Len(s)) /\ u \in Seq(S) /\ (x \in ToSet(u) => \E i \in m..Len(s) : s[i] = x)
    BY <1>1, <2>2, SubSeqElements
  <2>4. x \in ToSet(u)
    BY <2>2, <2>3, LenProperties DEF Contains, ToSet
  <2>5. PICK i \in m..Len(s) : s[i] = x
    BY <2>3, <2>4
  <2>6. i \in 1..Len(s)
    BY <1>1, <2>1, <2>2
  <2> QED
    BY <2>5, <2>6 DEF Contains
<1> QED
  BY <1>2, <1>3


\* The release of a lease is remembered, and nothing else changes.
LEMMA RecordReleaseIs ==
  ASSUME NEW doc \in Documented, Promise(doc), HasLease(doc)
  PROVE  /\ RecordRelease(doc) \in Documented
         /\ RecordRelease(doc) = [doc EXCEPT !.released = RecordRelease(doc).released]
         /\ Contains(RecordRelease(doc).released, doc.last)
<1>1. /\ doc.active.id = doc.last /\ doc.last \in 1..MaxLease /\ doc.released \in Seq(1..MaxLease)
  BY Constants DEF Promise, Documented
<1>2. CASE Contains(doc.released, doc.active.id)
  <2>1. RecordRelease(doc) = doc
    BY <1>2 DEF RecordRelease
  <2>2. doc = [doc EXCEPT !.released = doc.released]
    BY DEF Documented
  <2> QED
    BY <1>1, <1>2, <2>1, <2>2
<1>3. CASE ~Contains(doc.released, doc.active.id)
  <2>1. PICK rel : rel = Newest(Append(doc.released, doc.last), MaxReleased)
    OBVIOUS
  <2>2. Append(doc.released, doc.last) \in Seq(1..MaxLease)
    BY <1>1
  <2>3. rel \in Seq(1..MaxLease)
    BY <2>1, <2>2, Constants, NewestIs
  <2>4. Contains(rel, doc.last)
    BY <1>1, <2>1, Constants, NewestIs
  <2>5. RecordRelease(doc) = [doc EXCEPT !.released = rel]
    BY <1>1, <1>3, <2>1 DEF RecordRelease, Documented
  <2>6. RecordRelease(doc) \in Documented /\ RecordRelease(doc).released = rel
    BY <2>3, <2>5 DEF Documented
  <2> QED
    BY <2>4, <2>5, <2>6
<1> QED
  BY <1>2, <1>3

\* r is what is left of s, in its order.
Embeds(r, s) ==
  \E g \in [1..Len(r) -> 1..Len(s)] :
    /\ \A i, j \in 1..Len(r) : i < j => g[i] < g[j]
    /\ \A i \in 1..Len(r) : r[i] = s[g[i]]

\* x comes before y.
Ahead(s, x, y) == \E i, j \in 1..Len(s) : i < j /\ s[i] = x /\ s[j] = y

LEMMA EmbedsKeeps ==
  ASSUME NEW S, NEW s \in Seq(S), NEW r \in Seq(S), Embeds(r, s)
  PROVE  /\ ToSet(r) \subseteq ToSet(s)
         /\ IsInjective(s) => IsInjective(r)
         /\ \A x, y : Ahead(r, x, y) => Ahead(s, x, y)
<1>1. PICK g \in [1..Len(r) -> 1..Len(s)] :
        /\ \A i, j \in 1..Len(r) : i < j => g[i] < g[j]
        /\ \A i \in 1..Len(r) : r[i] = s[g[i]]
  BY DEF Embeds
<1>2. Len(r) \in Nat /\ Len(s) \in Nat /\ DOMAIN r = 1..Len(r) /\ DOMAIN s = 1..Len(s)
  BY LenProperties
<1>3. ToSet(r) \subseteq ToSet(s)
  BY <1>1, <1>2 DEF ToSet
<1>4. ASSUME IsInjective(s)
      PROVE  IsInjective(r)
  <2>1. ASSUME NEW i \in 1..Len(r), NEW j \in 1..Len(r), r[i] = r[j]
        PROVE  i = j
    <3>1. g[i] \in 1..Len(s) /\ g[j] \in 1..Len(s) /\ s[g[i]] = s[g[j]]
      BY <1>1, <2>1
    <3>2. g[i] = g[j]
      BY <1>2, <1>4, <3>1 DEF IsInjective
    <3>3. ~(g[i] < g[j]) /\ ~(g[j] < g[i])
      BY <1>2, <3>1, <3>2
    <3>4. ~(i < j) /\ ~(j < i)
      BY <1>1, <3>3
    <3> QED
      BY <1>2, <3>4
  <2> QED
    BY <1>2, <2>1 DEF IsInjective
<1>5. ASSUME NEW x, NEW y, Ahead(r, x, y)
      PROVE  Ahead(s, x, y)
  BY <1>1, <1>5 DEF Ahead
<1> QED
  BY <1>3, <1>4, <1>5

LEMMA EmbedsItself ==
  ASSUME NEW S, NEW s \in Seq(S)
  PROVE  Embeds(s, s)
<1>1. Len(s) \in Nat
  OBVIOUS
<1>2. PICK g : g = [i \in 1..Len(s) |-> i]
  OBVIOUS
<1>3. g \in [1..Len(s) -> 1..Len(s)] /\ \A i \in 1..Len(s) : g[i] = i
  BY <1>2
<1> QED
  BY <1>3 DEF Embeds

LEMMA EmbedsTransitive ==
  ASSUME NEW S, NEW r \in Seq(S), NEW s \in Seq(S), NEW t \in Seq(S), Embeds(r, s), Embeds(s, t)
  PROVE  Embeds(r, t)
<1>1. PICK g \in [1..Len(r) -> 1..Len(s)] :
        /\ \A i, j \in 1..Len(r) : i < j => g[i] < g[j]
        /\ \A i \in 1..Len(r) : r[i] = s[g[i]]
  BY DEF Embeds
<1>2. PICK h \in [1..Len(s) -> 1..Len(t)] :
        /\ \A i, j \in 1..Len(s) : i < j => h[i] < h[j]
        /\ \A i \in 1..Len(s) : s[i] = t[h[i]]
  BY DEF Embeds
<1>3. PICK f : f = [i \in 1..Len(r) |-> h[g[i]]]
  OBVIOUS
<1>4. f \in [1..Len(r) -> 1..Len(t)] /\ \A i \in 1..Len(r) : g[i] \in 1..Len(s) /\ f[i] = h[g[i]]
  BY <1>1, <1>2, <1>3
<1>5. (\A i, j \in 1..Len(r) : i < j => f[i] < f[j]) /\ \A i \in 1..Len(r) : r[i] = t[f[i]]
  BY <1>1, <1>2, <1>4
<1> QED
  BY <1>4, <1>5 DEF Embeds

LEMMA TailEmbeds ==
  ASSUME NEW S, NEW s \in Seq(S), s # <<>>
  PROVE  Embeds(Tail(s), s)
<1>1. PICK t \in Seq(S) : t = Tail(s)
  BY HeadTailProperties
<1>2. /\ Len(t) = Len(s) - 1 /\ Len(s) \in Nat /\ Len(s) # 0
      /\ \A i \in 1..Len(t) : t[i] = s[i + 1]
  BY <1>1, HeadTailProperties, EmptySeq
<1>3. PICK g : g = [i \in 1..Len(t) |-> i + 1]
  OBVIOUS
<1>4. g \in [1..Len(t) -> 1..Len(s)] /\ \A i \in 1..Len(t) : g[i] = i + 1
  BY <1>2, <1>3
<1>5. (\A i, j \in 1..Len(t) : i < j => g[i] < g[j]) /\ \A i \in 1..Len(t) : t[i] = s[g[i]]
  BY <1>2, <1>4
<1> QED
  BY <1>1, <1>4, <1>5 DEF Embeds

\* What is left of a queue without one of its elements.
LEMMA RemoveFirstIs ==
  ASSUME NEW S, NEW s \in Seq(S), NEW e
  PROVE  /\ RemoveFirst(s, e) \in Seq(S) /\ Embeds(RemoveFirst(s, e), s)
         /\ IsInjective(s) => ToSet(RemoveFirst(s, e)) = ToSet(s) \ {e}
<1>0. Len(s) \in Nat /\ DOMAIN s = 1..Len(s)
  BY LenProperties
<1>1. CASE \E i \in 1..Len(s) : s[i] = e
  <2>1. PICK I : I = {i \in 1..Len(s) : s[i] = e}
    OBVIOUS
  <2>2. I \in SUBSET Nat /\ I # {} /\ I \subseteq 1..Len(s)
    BY <1>1, <2>1
  <2>3. \E x \in I : \A y \in I : x <= y
    BY <2>2, LeastNumber
  <2>4. PICK m : m = Min(I)
    OBVIOUS
  <2>5. m \in I
    BY <2>3, <2>4, Zenon DEF Min
  <2>6. RemoveFirst(s, e) = SubSeq(s, 1, m - 1) \o SubSeq(s, m + 1, Len(s))
    BY <1>1, <2>1, <2>2, <2>4 DEF RemoveFirst, RemoveAt, SelectInSeq
  <2>7. m \in 1..Len(s) /\ m - 1 \in Int /\ m + 1 \in Int /\ Len(s) \in Int /\ s[m] = e
    BY <1>0, <2>1, <2>2, <2>5
  <2>8. (\A i \in 1..(m - 1) : s[i] \in S) /\ (\A i \in (m + 1)..Len(s) : s[i] \in S)
    BY <1>0, <2>7
  <2>9. PICK p \in Seq(S) : p = SubSeq(s, 1, m - 1)
    <3>1. SubSeq(s, 1, m - 1) \in Seq(S)
      BY <2>7, <2>8, SubSeqProperties
    <3> QED
      BY <3>1
  <2>10. PICK q \in Seq(S) : q = SubSeq(s, m + 1, Len(s))
    BY <2>7, <2>8, SubSeqProperties
  <2>11. Len(p) = m - 1 /\ \A i \in 1..(m - 1) : p[i] = s[i]
    <3>1. Len(p) = (IF 1 <= m - 1 THEN m - 1 - 1 + 1 ELSE 0) /\ \A i \in 1..(m - 1 - 1 + 1) : p[i] = s[1 + i - 1]
      BY <2>7, <2>8, <2>9, SubSeqProperties
    <3> QED
      BY <2>7, <3>1
  <2>12. Len(q) = Len(s) - m /\ \A i \in 1..(Len(s) - m) : q[i] = s[m + i]
    <3>1. /\ Len(q) = (IF m + 1 <= Len(s) THEN Len(s) - (m + 1) + 1 ELSE 0)
          /\ \A i \in 1..(Len(s) - (m + 1) + 1) : q[i] = s[(m + 1) + i - 1]
      BY <2>7, <2>8, <2>10, SubSeqProperties
    <3> QED
      BY <2>7, <3>1
  <2>13. PICK r \in Seq(S) : r = RemoveFirst(s, e) /\ r = p \o q
    BY <2>6, <2>9, <2>10, ConcatProperties
  <2>14. PICK g : g = [i \in 1..(Len(s) - 1) |-> IF i < m THEN i ELSE i + 1]
    OBVIOUS
  <2>15. Len(r) = Len(s) - 1 /\ \A i \in 1..Len(r) : r[i] = s[g[i]]
    <3>1. Len(r) = Len(p) + Len(q)
      BY <2>13, ConcatProperties
    <3>2. \A i \in 1..(Len(p) + Len(q)) : r[i] = IF i <= Len(p) THEN p[i] ELSE q[i - Len(p)]
      BY <2>13, ConcatProperties
    <3>3. Len(r) = Len(s) - 1
      BY <2>7, <2>11, <2>12, <3>1
    <3>4. ASSUME NEW i \in 1..Len(r)
          PROVE  r[i] = s[g[i]]
      <4>1. g[i] = IF i < m THEN i ELSE i + 1
        BY <2>14, <3>3
      <4>2. CASE i < m
        BY <2>7, <2>11, <3>1, <3>2, <4>1, <4>2
      <4>3. CASE ~(i < m)
        <5>1. ~(i <= Len(p)) /\ i - Len(p) \in 1..(Len(s) - m) /\ m + (i - Len(p)) = i + 1
          BY <2>7, <2>11, <3>3, <4>3
        <5>2. r[i] = q[i - Len(p)]
          BY <3>1, <3>2, <5>1
        <5> QED
          BY <2>12, <4>1, <4>3, <5>1, <5>2
      <4> QED
        BY <4>2, <4>3
    <3> QED
      BY <3>3, <3>4
  <2>16. /\ g \in [1..Len(r) -> 1..Len(s)] /\ \A i, j \in 1..Len(r) : i < j => g[i] < g[j]
         /\ \A i \in 1..Len(r) : g[i] # m
         /\ \A k \in 1..Len(s) : k # m => \E i \in 1..Len(r) : g[i] = k
    <3>1. \A i \in 1..Len(r) : g[i] = IF i < m THEN i ELSE i + 1
      BY <2>14, <2>15
    <3>2. g \in [1..Len(r) -> 1..Len(s)]
      BY <1>0, <2>7, <2>14, <2>15
    <3>3. ASSUME NEW k \in 1..Len(s), k # m
          PROVE  \E i \in 1..Len(r) : g[i] = k
      <4>1. CASE k < m
        <5>1. k \in 1..Len(r)
          BY <1>0, <2>7, <2>15, <4>1
        <5>2. g[k] = k
          BY <3>1, <4>1, <5>1
        <5> QED
          BY <5>1, <5>2
      <4>2. CASE ~(k < m)
        <5>1. k - 1 \in 1..Len(r) /\ ~(k - 1 < m) /\ (k - 1) + 1 = k
          BY <2>7, <2>15, <3>3, <4>2
        <5> QED
          BY <3>1, <5>1
      <4> QED
        BY <4>1, <4>2
    <3>4. ASSUME NEW i \in 1..Len(r)
          PROVE  g[i] # m /\ g[i] \in Int /\ \A j \in 1..Len(r) : i < j => g[i] < g[j]
      BY <2>7, <3>1
    <3> QED
      BY <3>2, <3>3, <3>4
  <2>17. Embeds(r, s)
    BY <2>15, <2>16 DEF Embeds
  <2>18. ASSUME IsInjective(s)
         PROVE  ToSet(r) = ToSet(s) \ {e}
    <3>1. DOMAIN r = 1..Len(r)
      BY LenProperties
    <3>2. \A i \in 1..Len(r) : s[g[i]] # e
      BY <1>0, <2>7, <2>16, <2>18 DEF IsInjective
    <3>3. ToSet(r) \subseteq ToSet(s) \ {e}
      BY <1>0, <2>15, <2>16, <3>1, <3>2 DEF ToSet
    <3>4. ASSUME NEW x \in ToSet(s), x # e
          PROVE  x \in ToSet(r)
      <4>1. PICK k \in 1..Len(s) : s[k] = x
        BY <1>0 DEF ToSet
      <4>2. PICK i \in 1..Len(r) : g[i] = k
        BY <2>7, <2>16, <3>4, <4>1
      <4> QED
        BY <2>15, <3>1, <4>1, <4>2 DEF ToSet
    <3> QED
      BY <3>3, <3>4
  <2> QED
    BY <2>13, <2>17, <2>18
<1>2. CASE ~(\E i \in 1..Len(s) : s[i] = e)
  <2>1. RemoveFirst(s, e) = s
    BY <1>2 DEF RemoveFirst
  <2>2. e \notin ToSet(s)
    BY <1>0, <1>2 DEF ToSet
  <2> QED
    BY <2>1, <2>2, EmbedsItself
<1> QED
  BY <1>1, <1>2

LEMMA MarkClosedKeeps ==
  ASSUME NEW st, Sound(st), Exact(st), NEW d \in Doc
  PROVE  Sound(MarkClosed(st, d)) /\ Exact(MarkClosed(st, d))
<1>1. st \in Book /\ st.closed \in Seq(Doc)
  BY DEF Sound, Book
<1>2. PICK t : t = MarkClosed(st, d)
  OBVIOUS
<1>3. t \in Book /\ t.documents = st.documents /\ t.bytes = st.bytes
  <2>1. Append(st.closed, d) \in Seq(Doc)
    BY <1>1
  <2> QED
    BY <1>1, <1>2, <2>1 DEF MarkClosed, Book
<1> QED
  BY <1>2, <1>3, OthersDoNotMatter

\* Only documents without a lease are forgotten.
LEMMA PruneKeeps ==
  ASSUME NEW st, Sound(st), Exact(st)
  PROVE  Sound(PruneClosed(st)) /\ Exact(PruneClosed(st))
<1>1. st \in Book /\ st.closed \in Seq(Doc) /\ st.documents \in Documents
  BY DEF Sound, Book
<1>2. PICK kept : kept = Newest(st.closed, MaxClosed)
  OBVIOUS
<1>3. PICK R : R = {d \in DOMAIN st.documents :
                     /\ d \in DOMAIN st.documents /\ Contains(st.closed, d) /\ ~Contains(kept, d)
                     /\ st.documents[d].finished
                     /\ ~HasLease(st.documents[d]) /\ ~HasRequest(st.documents[d])}
  OBVIOUS
<1>4. PICK new : new = [d \in DOMAIN st.documents \ R |-> st.documents[d]]
  OBVIOUS
<1>5. PruneClosed(st) = [st EXCEPT !.closed = kept, !.documents = new]
  <2>1. {k \in DOMAIN st.documents :
           ~(/\ k \in DOMAIN st.documents /\ Contains(st.closed, k) /\ ~Contains(kept, k)
             /\ st.documents[k].finished
             /\ ~HasLease(st.documents[k]) /\ ~HasRequest(st.documents[k]))} = DOMAIN st.documents \ R
    BY <1>3
  <2> QED
    BY <1>1, <1>2, <1>4, <2>1 DEF PruneClosed, Book
<1>6. DOMAIN st.documents \subseteq Doc /\ st.documents \in [DOMAIN st.documents -> Documented]
  BY <1>1, DocumentsAre
<1>7. /\ DOMAIN new \subseteq Doc /\ new \in [DOMAIN new -> Documented]
      /\ DOMAIN new = DOMAIN st.documents \ R /\ \A d \in DOMAIN new : new[d] = st.documents[d]
  BY <1>4, <1>6
<1>8. new \in Documents
  BY <1>7, DocumentsAre
<1>9. Owed(new) = Owed(st.documents)
  <2>1. PICK H : H = HoldersOf(st.documents)
    OBVIOUS
  <2>2. H = HoldersOf(new) /\ H \subseteq Doc /\ H \subseteq DOMAIN new
    BY <1>3, <1>6, <1>7, <2>1 DEF HoldersOf
  <2>3. IsFiniteSet(H) /\ SameBytes(new, st.documents, H)
    BY <1>7, <2>2, Constants, FS_Subset DEF SameBytes
  <2> QED
    BY <2>1, <2>2, <2>3, TotalSame DEF Owed
<1>10. kept \in Seq(Doc)
  BY <1>1, <1>2, Constants, NewestIs
<1>11. PICK t : t = PruneClosed(st)
  OBVIOUS
<1>12. t \in Book /\ t.documents = new /\ t.bytes = st.bytes
  BY <1>1, <1>5, <1>8, <1>10, <1>11 DEF Book
<1>13. Sound(t)
  BY <1>7, <1>12 DEF Sound
<1>14. Exact(t)
  BY <1>9, <1>12 DEF Exact
<1> QED
  BY <1>11, <1>13, <1>14

LEMMA PumpOnceKeeps ==
  ASSUME NEW st, Sound(st), Exact(st)
  PROVE  Sound(PumpOnce(st)) /\ Exact(PumpOnce(st))
<1>1. CASE st.pending = <<>>
  BY <1>1 DEF PumpOnce
<1>2. CASE st.pending # <<>>
  <2>1. st \in Book /\ st.pending \in Seq(Doc) /\ st.bytes \in Nat
    BY DEF Sound, Book
  <2>2. Tail(st.pending) \in Seq(Doc) /\ Head(st.pending) \in Doc
    BY <1>2, <2>1, TailElements
  <2>3. PICK d \in Doc : d = Head(st.pending)
    BY <2>2
  <2>4. PICK doc : doc = DocumentOr(st.documents, d)
    OBVIOUS
  <2>5. PICK rest : rest = [st EXCEPT !.pending = Tail(@)]
    OBVIOUS
  <2>6. rest \in Book /\ rest.documents = st.documents /\ rest.bytes = st.bytes
    BY <2>1, <2>2, <2>5 DEF Book
  <2>7. Sound(rest) /\ Exact(rest)
    BY <2>6, OthersDoNotMatter
  <2>8. doc \in Documented
    BY <2>4, DocumentIs
  <2>9. CASE ~HasRequest(doc)
    <3>1. PumpOnce(st) = rest
      BY <1>2, <2>3, <2>4, <2>5, <2>9 DEF PumpOnce
    <3> QED
      BY <2>7, <3>1
  <2>10. CASE HasRequest(doc) /\ (doc.finished \/ HasLease(doc) \/ st.bytes + doc.waiting.bytes > MaxBytes)
    <3>1. PumpOnce(st) = st
      BY <1>2, <2>3, <2>4, <2>10 DEF PumpOnce
    <3> QED
      BY <3>1
  <2>11. CASE HasRequest(doc) /\ ~(doc.finished \/ HasLease(doc) \/ st.bytes + doc.waiting.bytes > MaxBytes)
    <3>1. PICK new : new = [doc EXCEPT !.waiting = NoRequest]
      OBVIOUS
    <3>2. PICK n : n = doc.waiting.bytes
      OBVIOUS
    <3>a. /\ new.active = doc.active /\ new.waiting = NoRequest /\ new.finished = doc.finished
          /\ new \in Documented
      BY <2>8, <3>1, NothingIs DEF Documented
    <3>b. n \in Nat /\ st.bytes + n <= MaxBytes
      BY <2>1, <2>8, <2>11, <3>2, Constants DEF Documented
    <3>3. ~HasLease(new) /\ ~HasRequest(new) /\ ~new.finished
      BY <2>11, <3>a DEF HasLease, HasRequest
    <3>4. DocumentOr(rest.documents, d).active.bytes = 0
      BY <2>4, <2>6, <2>8, <2>11, BytesAre
    <3>5. Sound(Grant(rest, d, new, n)) /\ Exact(Grant(rest, d, new, n))
      BY <2>6, <2>7, <3>a, <3>b, <3>3, <3>4, GrantKeeps
    <3>6. PumpOnce(st) = Grant(rest, d, new, n)
      BY <1>2, <2>3, <2>4, <2>5, <2>11, <3>1, <3>2 DEF PumpOnce
    <3> QED
      BY <3>5, <3>6
  <2> QED
    BY <2>9, <2>10, <2>11
<1> QED
  BY <1>1, <1>2

\* The ledgers that are right.
Right == {st \in Book : Sound(st) /\ Exact(st)}

LEMMA RightIs ==
  ASSUME NEW st
  PROVE  st \in Right <=> Sound(st) /\ Exact(st)
  BY DEF Right, Sound

Stepping(f, first, step, m) ==
  \A n \in 0..m : f[n] = IF n = 0 THEN first ELSE step[n][f[n - 1]]

\* A function that a recursion over numbers defines exists.
LEMMA RoundsExist ==
  ASSUME NEW S, NEW first \in S, NEW m \in Nat, NEW step \in [1..m -> [S -> S]]
  PROVE  \E f \in [0..m -> S] : Stepping(f, first, step, m)
<1> DEFINE Good(f, k) == /\ f \in [0..k -> S]
                         /\ \A n \in 0..k : f[n] = IF n = 0 THEN first ELSE step[n][f[n - 1]]
           P == {k \in Nat : k <= m => \E f : Good(f, k)}
<1>1. 0 \in P
  <2>1. Good([n \in 0..0 |-> first], 0)
    OBVIOUS
  <2> QED
    BY <2>1
<1>2. ASSUME NEW k \in Nat, k \in P PROVE k + 1 \in P
  <2>1. ASSUME k + 1 <= m
        PROVE  \E f : Good(f, k + 1)
    <3>1. PICK g : Good(g, k)
      BY <1>2, <2>1
    <3>2. k + 1 \in 1..m /\ g[k] \in S
      BY <2>1, <3>1
    <3>3. step[k + 1][g[k]] \in S
      BY <3>2
    <3>4. PICK f : f = [n \in 0..(k + 1) |-> IF n <= k THEN g[n] ELSE step[k + 1][g[k]]]
      OBVIOUS
    <3>5. f \in [0..(k + 1) -> S]
      BY <3>1, <3>3, <3>4
    <3>6. ASSUME NEW n \in 0..(k + 1)
          PROVE  f[n] = IF n = 0 THEN first ELSE step[n][f[n - 1]]
      <4>1. CASE n <= k
        <5>1. n \in 0..k /\ (n # 0 => n - 1 \in 0..(k + 1) /\ n - 1 <= k)
          BY <4>1
        <5>2. f[n] = g[n] /\ (n # 0 => f[n - 1] = g[n - 1])
          BY <3>4, <5>1
        <5>3. g[n] = IF n = 0 THEN first ELSE step[n][g[n - 1]]
          BY <3>1, <5>1
        <5> QED
          BY <5>2, <5>3
      <4>2. CASE n = k + 1
        <5>1. n # 0 /\ ~(n <= k) /\ n - 1 = k /\ k \in 0..(k + 1)
          BY <4>2
        <5>2. f[n] = step[k + 1][g[k]] /\ f[k] = g[k]
          BY <3>4, <5>1
        <5> QED
          BY <4>2, <5>1, <5>2
      <4> QED
        BY <4>1, <4>2
    <3> QED
      BY <3>5, <3>6
  <2> QED
    BY <2>1
<1>3. Nat \subseteq P
  <2> HIDE DEF P
  <2> QED
    BY <1>1, <1>2, NumbersInduction
<1>4. m \in P
  BY <1>3
<1>5. PICK f : Good(f, m)
  BY <1>4
<1> QED
  BY <1>5 DEF Stepping

Pumping(f, st, m) == f = [n \in 0..m |-> IF n = 0 THEN st ELSE PumpOnce(f[n - 1])]

\* The function at one number.
LEMMA PumpingAt ==
  ASSUME NEW f, NEW st, NEW m, Pumping(f, st, m), NEW n \in 0..m
  PROVE  f[n] = IF n = 0 THEN st ELSE PumpOnce(f[n - 1])
  BY Zenon DEF Pumping

\* The pump is its rounds, all of them with ledgers that are right.
LEMMA PumpRounds ==
  ASSUME NEW st, Sound(st), Exact(st), NEW m \in Nat, m = Len(st.pending)
  PROVE  \E f : /\ Pumping(f, st, m) /\ Pump(st) = f[m]
                /\ \A n \in Nat : n <= m => Sound(f[n]) /\ Exact(f[n])
<1>2. st \in Right
  BY RightIs
<1>3. \E f : Pumping(f, st, m)
  <2>1. PICK one : one = [s \in Right |-> PumpOnce(s)]
    OBVIOUS
  <2>2. one \in [Right -> Right]
    BY <2>1, RightIs, PumpOnceKeeps
  <2>3. PICK step : step = [n \in 1..m |-> one]
    OBVIOUS
  <2>4. step \in [1..m -> [Right -> Right]]
    BY <2>2, <2>3
  <2>5. PICK f \in [0..m -> Right] : Stepping(f, st, step, m)
    BY <1>2, <2>4, RoundsExist
  <2>6. ASSUME NEW n \in 0..m
        PROVE  f[n] = IF n = 0 THEN st ELSE PumpOnce(f[n - 1])
    <3>1. n # 0 => n \in 1..m /\ n - 1 \in 0..m
      OBVIOUS
    <3>2. n # 0 => step[n][f[n - 1]] = PumpOnce(f[n - 1])
      BY <2>1, <2>3, <2>5, <3>1
    <3> QED
      BY <2>5, <3>2 DEF Stepping
  <2>7. Pumping(f, st, m)
    BY <2>5, <2>6 DEF Pumping
  <2> QED
    BY <2>7
<1>4. PICK f : Pumping(f, st, m) /\ Pump(st) = f[m]
  <2>1. Pump(st) = (CHOOSE f : Pumping(f, st, m))[m]
    BY DEF Pump, Pumping
  <2> QED
    BY <1>3, <2>1
<1> DEFINE P == {n \in Nat : n <= m => Sound(f[n]) /\ Exact(f[n])}
<1>5. 0 \in P
  BY <1>4, PumpingAt
<1>6. ASSUME NEW n \in Nat, n \in P PROVE n + 1 \in P
  <2>1. ASSUME n + 1 <= m
        PROVE  Sound(f[n + 1]) /\ Exact(f[n + 1])
    <3>1. n + 1 \in 0..m /\ n + 1 # 0 /\ n + 1 - 1 = n /\ n <= m
      BY <2>1
    <3>2. f[n + 1] = PumpOnce(f[n])
      BY <1>4, <3>1, PumpingAt
    <3>3. Sound(f[n]) /\ Exact(f[n])
      BY <1>6, <3>1
    <3> QED
      BY <3>2, <3>3, PumpOnceKeeps
  <2> QED
    BY <2>1
<1>7. Nat \subseteq P
  <2> HIDE DEF P
  <2> QED
    BY <1>5, <1>6, NumbersInduction
<1> QED
  BY <1>4, <1>7

LEMMA PumpKeeps ==
  ASSUME NEW st, Sound(st), Exact(st)
  PROVE  Sound(Pump(st)) /\ Exact(Pump(st))
<1>1. PICK m \in Nat : m = Len(st.pending)
  BY DEF Sound, Book
<1> QED
  BY <1>1, PumpRounds

\* What a document holds is part of what is owed.
LEMMA OwedCovers ==
  ASSUME NEW st, Sound(st), Exact(st), NEW d \in Doc
  PROVE  /\ DocumentOr(st.documents, d).active.bytes \in Nat
         /\ st.bytes - DocumentOr(st.documents, d).active.bytes \in Nat
<1>1. st.documents \in Documents /\ st.bytes \in Nat
  BY DEF Sound, Book
<1>2. PICK old \in Documented : old = DocumentOr(st.documents, d)
  BY DocumentIs
<1>3. PICK doc \in Documented : doc.active.bytes = 0
  <2>1. [old EXCEPT !.active = NoLease] \in Documented
    BY NothingIs DEF Documented
  <2>2. [old EXCEPT !.active = NoLease].active.bytes = 0
    BY DEF Documented, NoLease
  <2> QED
    BY <2>1, <2>2
<1>4. PICK new : new = [k \in DOMAIN st.documents \cup {d} |-> IF k = d THEN doc ELSE st.documents[k]]
  OBVIOUS
<1>5. /\ Owed(st.documents) \in Nat /\ Owed(new) \in Nat
      /\ Owed(new) + DocumentOr(st.documents, d).active.bytes = Owed(st.documents) + doc.active.bytes
  BY <1>1, <1>3, <1>4, OwedAfter
<1>6. DocumentOr(st.documents, d).active.bytes \in Nat
  BY DocumentIs, BytesAre
<1>7. st.bytes = Owed(st.documents)
  BY DEF Exact
<1> QED
  BY <1>1, <1>3, <1>5, <1>6, <1>7

\* A document without a lease replaces one, and the charge is reduced by what that one held.
LEMMA GivingBackKeeps ==
  ASSUME NEW st, Sound(st), Exact(st), NEW d \in Doc, NEW queue \in Seq(Doc),
         NEW doc \in Documented, Promise(doc), ~HasLease(doc),
         NEW t, t = [st EXCEPT !.pending = queue,
                               !.bytes = @ - DocumentOr(st.documents, d).active.bytes]
  PROVE  Sound(Put(t, d, doc)) /\ Exact(Put(t, d, doc))
<1>1. st \in Book /\ st.bytes \in Nat /\ st.bytes = Owed(st.documents) /\ st.bytes <= MaxBytes
  BY DEF Sound, Book, Exact
<1>2. PICK held \in Nat : held = DocumentOr(st.documents, d).active.bytes /\ st.bytes - held \in Nat
  BY OwedCovers
<1>3. t \in Book /\ t.documents = st.documents /\ t.bytes = st.bytes - held
  BY <1>1, <1>2 DEF Book
<1>4. Sound(t)
  BY <1>3 DEF Sound
<1>5. doc.active.bytes = 0
  BY BytesAre
<1>6. t.bytes <= MaxBytes
  BY <1>1, <1>2, <1>3, Constants
<1>7. t.bytes + DocumentOr(t.documents, d).active.bytes = Owed(t.documents) + doc.active.bytes
  BY <1>1, <1>2, <1>3, <1>5
<1> QED
  BY <1>4, <1>6, <1>7, PutKeeps

-----------------------------------------------------------------------------
(* The queue *)

Lease(st, d) == DocumentOr(st.documents, d).active

\* The documents that wait are those in the queue, each of them once.
Lined(st) ==
  /\ IsInjective(st.pending)
  /\ \A d \in Doc : d \in ToSet(st.pending) <=> HasRequest(DocumentOr(st.documents, d))

\* A document that gets a lease was ahead of all that go on waiting.
InTurn(a, b) ==
  \A d \in Doc :
    \/ Lease(b, d) = Lease(a, d)
    \/ Lease(b, d) = NoLease
    \/ \A x \in ToSet(b.pending) : x # d => Ahead(a.pending, d, x)

\* From one ledger to another the queue is served in turn, and nobody comes.
Serves(a, b) == Embeds(b.pending, a.pending) /\ InTurn(a, b)

\* What a function that gives credit back, or none, does to the queue.
Serving(a, b) == Lined(a) => Lined(b) /\ Serves(a, b)

LEMMA ServingItself ==
  ASSUME NEW a, Sound(a), NEW b, Sound(b), b.documents = a.documents, b.pending = a.pending
  PROVE  Serving(a, b)
<1>1. a.pending \in Seq(Doc)
  BY DEF Sound, Book
<1>2. Embeds(b.pending, a.pending)
  BY <1>1, EmbedsItself
<1> QED
  BY <1>2 DEF Serving, Serves, Lined, InTurn, Lease

LEMMA ServingTransitive ==
  ASSUME NEW a, Sound(a), NEW b, Sound(b), NEW c, Sound(c), Serving(a, b), Serving(b, c)
  PROVE  Serving(a, c)
<1> SUFFICES ASSUME Lined(a) PROVE Lined(c) /\ Serves(a, c)
  BY DEF Serving
<1>1. Lined(b) /\ Lined(c) /\ Serves(a, b) /\ Serves(b, c)
  BY DEF Serving
<1>2. a.pending \in Seq(Doc) /\ b.pending \in Seq(Doc) /\ c.pending \in Seq(Doc)
  BY DEF Sound, Book
<1>3. Embeds(b.pending, a.pending) /\ Embeds(c.pending, b.pending)
  BY <1>1 DEF Serves
<1>4. Embeds(c.pending, a.pending)
  BY <1>2, <1>3, EmbedsTransitive
<1>5. ToSet(c.pending) \subseteq ToSet(b.pending)
  BY <1>2, <1>3, EmbedsKeeps
<1>6. \A x, y : Ahead(b.pending, x, y) => Ahead(a.pending, x, y)
  BY <1>2, <1>3, EmbedsKeeps
<1>7. InTurn(a, b) /\ InTurn(b, c)
  BY <1>1 DEF Serves
<1>8. InTurn(a, c)
  BY <1>5, <1>6, <1>7 DEF InTurn
<1> QED
  BY <1>1, <1>4, <1>8 DEF Serves

\* The documents after one is replaced.
LEMMA PutIs ==
  ASSUME NEW st \in Book, NEW d, NEW doc
  PROVE  /\ Put(st, d, doc).pending = st.pending /\ Put(st, d, doc).closed = st.closed
         /\ Put(st, d, doc).bytes = st.bytes
         /\ DOMAIN Put(st, d, doc).documents = DOMAIN st.documents \cup {d}
         /\ \A k : DocumentOr(Put(st, d, doc).documents, k)
                     = IF k = d THEN doc ELSE DocumentOr(st.documents, k)
<1>1. PICK new : new = [k \in DOMAIN st.documents \cup {d} |-> IF k = d THEN doc ELSE st.documents[k]]
  OBVIOUS
<1>2. Put(st, d, doc) = [st EXCEPT !.documents = new]
  BY <1>1 DEF Put, Book
<1>3. /\ Put(st, d, doc).pending = st.pending /\ Put(st, d, doc).closed = st.closed
      /\ Put(st, d, doc).bytes = st.bytes /\ Put(st, d, doc).documents = new
  BY <1>2 DEF Book
<1>4. \A k : DocumentOr(new, k) = IF k = d THEN doc ELSE DocumentOr(st.documents, k)
  BY <1>1 DEF DocumentOr
<1>5. DOMAIN new = DOMAIN st.documents \cup {d}
  BY <1>1
<1> QED
  BY <1>3, <1>4, <1>5

\* A document keeps its lease or gives it back, and leaves the queue when it does not wait any more.
LEMMA PutServes ==
  ASSUME NEW st, Sound(st), NEW d \in Doc, NEW doc, NEW t \in Book, t.documents = st.documents,
         doc.active = Lease(st, d) \/ doc.active = NoLease,
         \/ t.pending = st.pending /\ (HasRequest(doc) <=> HasRequest(DocumentOr(st.documents, d)))
         \/ t.pending = RemoveFirst(st.pending, d) /\ ~HasRequest(doc)
  PROVE  Serving(st, Put(t, d, doc))
<1> SUFFICES ASSUME Lined(st) PROVE Lined(Put(t, d, doc)) /\ Serves(st, Put(t, d, doc))
  BY DEF Serving
<1>1. st.pending \in Seq(Doc) /\ IsInjective(st.pending)
  BY DEF Sound, Book, Lined
<1>2. PICK u : u = Put(t, d, doc)
  OBVIOUS
<1>3. /\ u.pending = t.pending
      /\ \A k : DocumentOr(u.documents, k) = IF k = d THEN doc ELSE DocumentOr(st.documents, k)
  BY <1>2, PutIs
<1>4. InTurn(st, u)
  BY <1>3 DEF InTurn, Lease
<1>5. CASE t.pending = st.pending /\ (HasRequest(doc) <=> HasRequest(DocumentOr(st.documents, d)))
  <2>1. Embeds(u.pending, st.pending)
    BY <1>1, <1>3, <1>5, EmbedsItself
  <2>2. Lined(u)
    BY <1>3, <1>5 DEF Lined
  <2> QED
    BY <1>2, <1>4, <2>1, <2>2 DEF Serves
<1>6. CASE t.pending = RemoveFirst(st.pending, d) /\ ~HasRequest(doc)
  <2>1. /\ u.pending \in Seq(Doc) /\ Embeds(u.pending, st.pending)
        /\ ToSet(u.pending) = ToSet(st.pending) \ {d}
    BY <1>1, <1>3, <1>6, RemoveFirstIs
  <2>2. IsInjective(u.pending)
    BY <1>1, <2>1, EmbedsKeeps
  <2>3. Lined(u)
    BY <1>3, <1>6, <2>1, <2>2 DEF Lined
  <2> QED
    BY <1>2, <1>4, <2>1, <2>3 DEF Serves
<1> QED
  BY <1>5, <1>6

\* A round of the pump serves the head of the queue, or nobody.
LEMMA PumpOnceServes ==
  ASSUME NEW st, Sound(st)
  PROVE  Serving(st, PumpOnce(st))
<1> SUFFICES ASSUME Lined(st) PROVE Lined(PumpOnce(st)) /\ Serves(st, PumpOnce(st))
  BY DEF Serving
<1>0. PumpOnce(st) = st => Lined(PumpOnce(st)) /\ Serves(st, PumpOnce(st))
  BY ServingItself DEF Serving
<1>1. CASE st.pending = <<>>
  BY <1>0, <1>1 DEF PumpOnce
<1>2. CASE st.pending # <<>>
  <2>1. st \in Book /\ st.pending \in Seq(Doc) /\ IsInjective(st.pending)
    BY DEF Sound, Book, Lined
  <2>2. /\ Tail(st.pending) \in Seq(Doc) /\ Head(st.pending) \in Doc /\ Head(st.pending) \in ToSet(st.pending)
        /\ IsInjective(Tail(st.pending))
        /\ ToSet(Tail(st.pending)) = ToSet(st.pending) \ {Head(st.pending)}
    BY <1>2, <2>1, TailElements
  <2>3. PICK d \in Doc : d = Head(st.pending)
    BY <2>2
  <2>4. PICK doc : doc = DocumentOr(st.documents, d)
    OBVIOUS
  <2>5. HasRequest(doc)
    BY <2>2, <2>3, <2>4 DEF Lined
  <2>6. CASE doc.finished \/ HasLease(doc) \/ st.bytes + doc.waiting.bytes > MaxBytes
    <3>1. PumpOnce(st) = st
      BY <1>2, <2>3, <2>4, <2>5, <2>6 DEF PumpOnce
    <3> QED
      BY <1>0, <3>1
  <2>7. CASE ~(doc.finished \/ HasLease(doc) \/ st.bytes + doc.waiting.bytes > MaxBytes)
    <3>1. PICK rest : rest = [st EXCEPT !.pending = Tail(@)]
      OBVIOUS
    <3>2. rest \in Book /\ rest.documents = st.documents /\ rest.pending = Tail(st.pending)
      BY <2>1, <2>2, <3>1 DEF Book
    <3>3. PICK n : n = doc.waiting.bytes
      OBVIOUS
    <3>4. PICK v : v = [rest EXCEPT !.bytes = @ + n, !.next = (@ % MaxLease) + 1]
      OBVIOUS
    <3>5. PICK new : new = [[doc EXCEPT !.waiting = NoRequest]
                             EXCEPT !.active = [id |-> rest.next, bytes |-> n], !.last = rest.next]
      OBVIOUS
    <3>6. PumpOnce(st) = Put(v, d, new)
      BY <1>2, <2>3, <2>4, <2>5, <2>7, <3>1, <3>3, <3>4, <3>5 DEF PumpOnce, Grant
    <3>7. doc \in Documented
      BY <2>4, DocumentIs
    <3>8. ~HasRequest(new)
      BY <3>5, <3>7 DEF HasRequest, Documented
    <3>9. v \in Book /\ v.documents = st.documents /\ v.pending = Tail(st.pending)
      <4>1. n \in Nat
        BY <3>3, <3>7, Constants DEF Documented
      <4>2. rest.bytes + n \in Nat /\ (rest.next % MaxLease) + 1 \in 1..MaxLease
        BY <3>2, <4>1, Constants DEF Book
      <4> QED
        BY <3>2, <3>4, <4>2 DEF Book
    <3>10. PICK u : u = Put(v, d, new)
      OBVIOUS
    <3>11. /\ u.pending = Tail(st.pending)
           /\ \A k : DocumentOr(u.documents, k) = IF k = d THEN new ELSE DocumentOr(st.documents, k)
      BY <3>9, <3>10, PutIs
    <3>12. Lined(u)
      BY <2>2, <2>3, <3>8, <3>11 DEF Lined
    <3>13. Embeds(u.pending, st.pending)
      BY <1>2, <2>1, <3>11, TailEmbeds
    <3>14. ASSUME NEW x \in ToSet(u.pending), x # d
           PROVE  Ahead(st.pending, d, x)
      <4>1. x \in ToSet(st.pending) /\ DOMAIN st.pending = 1..Len(st.pending) /\ Len(st.pending) \in Nat
        BY <2>1, <2>2, <3>11, <3>14, LenProperties
      <4>2. PICK j \in 1..Len(st.pending) : st.pending[j] = x
        BY <4>1 DEF ToSet
      <4>3. st.pending[1] = d
        BY <2>1, <2>3, <1>2, HeadTailProperties
      <4>4. 1 \in 1..Len(st.pending) /\ 1 < j
        BY <3>14, <4>1, <4>2, <4>3
      <4> QED
        BY <4>2, <4>3, <4>4 DEF Ahead
    <3>15. InTurn(st, u)
      BY <3>11, <3>14 DEF InTurn, Lease
    <3> QED
      BY <3>6, <3>10, <3>12, <3>13, <3>15 DEF Serves
  <2> QED
    BY <2>6, <2>7
<1> QED
  BY <1>1, <1>2

LEMMA PumpServes ==
  ASSUME NEW st, Sound(st), Exact(st)
  PROVE  Serving(st, Pump(st))
<1>1. PICK m \in Nat : m = Len(st.pending)
  BY DEF Sound, Book
<1>2. PICK f : /\ Pumping(f, st, m) /\ Pump(st) = f[m]
               /\ \A n \in Nat : n <= m => Sound(f[n]) /\ Exact(f[n])
  BY <1>1, PumpRounds
<1> DEFINE P == {n \in Nat : n <= m => Serving(st, f[n])}
<1>3. 0 \in P
  <2>1. f[0] = st
    BY <1>2, PumpingAt
  <2> QED
    BY <2>1, ServingItself
<1>4. ASSUME NEW n \in Nat, n \in P PROVE n + 1 \in P
  <2>1. ASSUME n + 1 <= m
        PROVE  Serving(st, f[n + 1])
    <3>1. n + 1 \in 0..m /\ n + 1 # 0 /\ n + 1 - 1 = n /\ n <= m
      BY <2>1
    <3>2. f[n + 1] = PumpOnce(f[n])
      BY <1>2, <3>1, PumpingAt
    <3>3. Sound(f[n]) /\ Sound(f[n + 1]) /\ Serving(st, f[n])
      BY <1>2, <1>4, <2>1, <3>1
    <3>4. Serving(f[n], f[n + 1])
      BY <3>2, <3>3, PumpOnceServes
    <3> QED
      BY <3>3, <3>4, ServingTransitive
  <2> QED
    BY <2>1
<1>5. Nat \subseteq P
  <2> HIDE DEF P
  <2> QED
    BY <1>3, <1>4, NumbersInduction
<1>6. m \in P
  BY <1>5
<1> QED
  BY <1>2, <1>6

\* The documents that prune_closed forgets.
Outdated(st, k) ==
  /\ k \in DOMAIN st.documents /\ Contains(st.closed, k) /\ ~Contains(Newest(st.closed, MaxClosed), k)
  /\ st.documents[k].finished
  /\ ~HasLease(st.documents[k]) /\ ~HasRequest(st.documents[k])

LEMMA PruneIs ==
  ASSUME NEW st \in Book
  PROVE  /\ PruneClosed(st).pending = st.pending /\ PruneClosed(st).bytes = st.bytes
         /\ PruneClosed(st).closed = Newest(st.closed, MaxClosed)
         /\ DOMAIN PruneClosed(st).documents = {k \in DOMAIN st.documents : ~Outdated(st, k)}
         /\ \A k : DocumentOr(PruneClosed(st).documents, k)
                     = IF Outdated(st, k) THEN NewDocument ELSE DocumentOr(st.documents, k)
<1>1. PICK new : new = [d \in {k \in DOMAIN st.documents : ~Outdated(st, k)} |-> st.documents[d]]
  OBVIOUS
<1>2. PruneClosed(st) = [st EXCEPT !.closed = Newest(st.closed, MaxClosed), !.documents = new]
  BY <1>1 DEF PruneClosed, Outdated, Book
<1>3. /\ PruneClosed(st).pending = st.pending /\ PruneClosed(st).bytes = st.bytes
      /\ PruneClosed(st).closed = Newest(st.closed, MaxClosed) /\ PruneClosed(st).documents = new
  BY <1>2 DEF Book
<1>4. \A k : Outdated(st, k) => k \in DOMAIN st.documents
  BY DEF Outdated
<1>5. \A k : DocumentOr(new, k) = IF Outdated(st, k) THEN NewDocument ELSE DocumentOr(st.documents, k)
  BY <1>1, <1>4 DEF DocumentOr
<1>6. DOMAIN new = {k \in DOMAIN st.documents : ~Outdated(st, k)}
  BY <1>1
<1> QED
  BY <1>3, <1>5, <1>6

LEMMA PruneServes ==
  ASSUME NEW st, Sound(st)
  PROVE  Serving(st, PruneClosed(st))
<1> SUFFICES ASSUME Lined(st) PROVE Lined(PruneClosed(st)) /\ Serves(st, PruneClosed(st))
  BY DEF Serving
<1>1. st \in Book /\ st.pending \in Seq(Doc)
  BY DEF Sound, Book
<1>2. PICK t : t = PruneClosed(st)
  OBVIOUS
<1>3. /\ t.pending = st.pending
      /\ \A k : DocumentOr(t.documents, k) = IF Outdated(st, k) THEN NewDocument ELSE DocumentOr(st.documents, k)
  BY <1>1, <1>2, PruneIs
<1>4. \A k : Outdated(st, k) => ~HasRequest(DocumentOr(st.documents, k))
  BY DEF Outdated, DocumentOr
<1>5. NewDocument.active = NoLease /\ ~HasRequest(NewDocument)
  BY DEF NewDocument, HasRequest
<1>6. Lined(t)
  BY <1>3, <1>4, <1>5 DEF Lined
<1>7. InTurn(st, t)
  BY <1>3, <1>5 DEF InTurn, Lease
<1>8. Embeds(t.pending, st.pending)
  BY <1>1, <1>3, EmbedsItself
<1> QED
  BY <1>2, <1>6, <1>7, <1>8 DEF Serves

LEMMA MarkClosedIs ==
  ASSUME NEW st \in Book, NEW d
  PROVE  /\ MarkClosed(st, d).documents = st.documents /\ MarkClosed(st, d).pending = st.pending
         /\ MarkClosed(st, d).bytes = st.bytes
         /\ MarkClosed(st, d).closed = IF Contains(st.closed, d) THEN st.closed ELSE Append(st.closed, d)
  BY DEF MarkClosed, Book

LEMMA MarkClosedServes ==
  ASSUME NEW st, Sound(st), Exact(st), NEW d \in Doc
  PROVE  Serving(st, MarkClosed(st, d))
<1>1. Sound(MarkClosed(st, d))
  BY MarkClosedKeeps
<1>2. MarkClosed(st, d).documents = st.documents /\ MarkClosed(st, d).pending = st.pending
  BY MarkClosedIs DEF Sound
<1> QED
  BY <1>1, <1>2, ServingItself

\* What Finished puts in the place of a document, and into which ledger.
LEMMA FinishedIs ==
  ASSUME NEW st, Sound(st), Exact(st), NEW d \in Doc
  PROVE  \E new \in Documented, t \in Book :
           /\ Finished(st, d) = MarkClosed(Put(t, d, new), d)
           /\ new.active = NoLease /\ ~HasRequest(new) /\ new.finished
           /\ t.documents = st.documents /\ t.pending = RemoveFirst(st.pending, d) /\ t.closed = st.closed
           /\ Sound(Put(t, d, new)) /\ Exact(Put(t, d, new))
<1>1. PICK doc \in Documented : doc = DocumentOr(st.documents, d) /\ Promise(doc)
  BY DocumentIs
<1>2. PICK left : left = IF HasLease(doc) THEN RecordRelease(doc) ELSE doc
  OBVIOUS
<1>3. /\ left \in Documented /\ left.last = doc.last
      /\ left.last # 0 => Contains(left.released, left.last)
  <2>1. CASE HasLease(doc)
    <3>1. left = RecordRelease(doc)
      BY <1>2, <2>1
    <3>2. left \in Documented /\ left = [doc EXCEPT !.released = left.released] /\ Contains(left.released, doc.last)
      BY <1>1, <2>1, <3>1, RecordReleaseIs
    <3>3. left.last = doc.last
      BY <1>1, <3>2 DEF Documented
    <3> QED
      BY <3>2, <3>3
  <2>2. CASE ~HasLease(doc)
    BY <1>1, <1>2, <2>2 DEF Promise
  <2> QED
    BY <2>1, <2>2
<1>4. PICK new : new = [left EXCEPT !.active = NoLease, !.waiting = NoRequest, !.finished = TRUE]
  OBVIOUS
<1>5. /\ new \in Documented /\ new.active = NoLease /\ new.waiting = NoRequest /\ new.finished
      /\ new.last = left.last /\ new.released = left.released
  BY <1>3, <1>4, NothingIs DEF Documented
<1>6. Promise(new) /\ ~HasLease(new) /\ ~HasRequest(new)
  BY <1>3, <1>5 DEF Promise, HasLease, HasRequest
<1>7. PICK queue : queue = RemoveFirst(st.pending, d)
  OBVIOUS
<1>8. queue \in Seq(Doc)
  BY <1>7, RemoveFirstIs DEF Sound, Book
<1>9. PICK t : t = [st EXCEPT !.pending = queue, !.bytes = @ - doc.active.bytes]
  OBVIOUS
<1>10. Sound(Put(t, d, new)) /\ Exact(Put(t, d, new))
  BY <1>1, <1>5, <1>6, <1>8, <1>9, GivingBackKeeps
<1>11. Finished(st, d) = MarkClosed(Put(t, d, new), d)
  BY <1>1, <1>2, <1>4, <1>7, <1>9 DEF Finished, Sound, Book
<1>12. t \in Book /\ t.documents = st.documents /\ t.pending = queue /\ t.closed = st.closed
  <2>1. st \in Book /\ st.bytes - doc.active.bytes \in Nat
    BY <1>1, OwedCovers DEF Sound
  <2> QED
    BY <1>8, <1>9, <2>1 DEF Book
<1> QED
  BY <1>5, <1>6, <1>7, <1>10, <1>11, <1>12

\* A document is finished, by its window or with it.
LEMMA FinishedKeeps ==
  ASSUME NEW st, Sound(st), Exact(st), NEW d \in Doc
  PROVE  Sound(Finished(st, d)) /\ Exact(Finished(st, d)) /\ Serving(st, Finished(st, d))
<1>1. PICK new \in Documented, t \in Book :
        /\ Finished(st, d) = MarkClosed(Put(t, d, new), d)
        /\ new.active = NoLease /\ ~HasRequest(new) /\ new.finished
        /\ t.documents = st.documents /\ t.pending = RemoveFirst(st.pending, d) /\ t.closed = st.closed
        /\ Sound(Put(t, d, new)) /\ Exact(Put(t, d, new))
  BY FinishedIs
<1>2. PICK u : u = Put(t, d, new)
  OBVIOUS
<1>3. Sound(u) /\ Exact(u) /\ Serving(st, u)
  BY <1>1, <1>2, PutServes
<1>4. PICK v : v = MarkClosed(u, d)
  OBVIOUS
<1>5. Sound(v) /\ Exact(v) /\ Serving(u, v)
  BY <1>3, <1>4, MarkClosedKeeps, MarkClosedServes
<1>6. Serving(st, v)
  BY <1>3, <1>5, ServingTransitive
<1> QED
  BY <1>1, <1>2, <1>4, <1>5, <1>6

Discarding(f, st, order, m) == f = [n \in 0..m |-> IF n = 0 THEN st ELSE Finished(f[n - 1], order[n])]

\* The function at one number.
LEMMA DiscardingAt ==
  ASSUME NEW f, NEW st, NEW order, NEW m, Discarding(f, st, order, m), NEW n \in 0..m
  PROVE  f[n] = IF n = 0 THEN st ELSE Finished(f[n - 1], order[n])
  BY Zenon DEF Discarding

Discarded(st, order) ==
  LET after[n \in 0..Len(order)] == IF n = 0 THEN st ELSE Finished(after[n - 1], order[n])
  IN after[Len(order)]

\* The documents of a window are finished one after the other, all of them in ledgers that are right.
LEMMA DiscardingRounds ==
  ASSUME NEW st, Sound(st), Exact(st), NEW order \in Seq(Doc), NEW m \in Nat, m = Len(order)
  PROVE  \E f : /\ Discarding(f, st, order, m) /\ Discarded(st, order) = f[m]
                /\ \A n \in Nat : n <= m => Sound(f[n]) /\ Exact(f[n]) /\ Serving(st, f[n])
<1>2. st \in Right /\ \A n \in 1..m : order[n] \in Doc
  BY RightIs
<1>3. \E f : Discarding(f, st, order, m)
  <2>1. PICK step : step = [n \in 1..m |-> [s \in Right |-> Finished(s, order[n])]]
    OBVIOUS
  <2>2. ASSUME NEW n \in 1..m, NEW s \in Right
        PROVE  Finished(s, order[n]) \in Right
    <3>1. order[n] \in Doc /\ Sound(s) /\ Exact(s)
      BY <1>2, RightIs
    <3> QED
      BY <3>1, FinishedKeeps, RightIs
  <2>3. step \in [1..m -> [Right -> Right]]
    BY <2>1, <2>2
  <2>4. PICK f \in [0..m -> Right] : Stepping(f, st, step, m)
    BY <1>2, <2>3, RoundsExist
  <2>5. ASSUME NEW n \in 0..m
        PROVE  f[n] = IF n = 0 THEN st ELSE Finished(f[n - 1], order[n])
    <3>1. n # 0 => n \in 1..m /\ n - 1 \in 0..m
      OBVIOUS
    <3>2. n # 0 => step[n][f[n - 1]] = Finished(f[n - 1], order[n])
      BY <2>1, <2>4, <3>1
    <3> QED
      BY <2>4, <3>2 DEF Stepping
  <2>6. Discarding(f, st, order, m)
    BY <2>4, <2>5 DEF Discarding
  <2> QED
    BY <2>6
<1>4. PICK f : f = CHOOSE g : Discarding(g, st, order, m)
  OBVIOUS
<1>5. Discarding(f, st, order, m)
  BY <1>3, <1>4
<1> DEFINE P == {n \in Nat : n <= m => Sound(f[n]) /\ Exact(f[n]) /\ Serving(st, f[n])}
<1>6. 0 \in P
  BY <1>5, DiscardingAt, ServingItself
<1>7. ASSUME NEW n \in Nat, n \in P PROVE n + 1 \in P
  <2>1. ASSUME n + 1 <= m
        PROVE  Sound(f[n + 1]) /\ Exact(f[n + 1]) /\ Serving(st, f[n + 1])
    <3>1. n + 1 \in 0..m /\ n + 1 \in 1..m /\ n + 1 # 0 /\ n + 1 - 1 = n /\ n <= m
      BY <2>1
    <3>2. f[n + 1] = Finished(f[n], order[n + 1])
      BY <1>5, <3>1, DiscardingAt
    <3>3. Sound(f[n]) /\ Exact(f[n]) /\ Serving(st, f[n]) /\ order[n + 1] \in Doc
      BY <1>2, <1>7, <3>1
    <3>4. Sound(f[n + 1]) /\ Exact(f[n + 1]) /\ Serving(f[n], f[n + 1])
      BY <3>2, <3>3, FinishedKeeps
    <3> QED
      BY <3>3, <3>4, ServingTransitive
  <2> QED
    BY <2>1
<1>8. Nat \subseteq P
  <2> HIDE DEF P
  <2> QED
    BY <1>6, <1>7, NumbersInduction
<1>9. Discarded(st, order) = f[m]
  BY <1>4 DEF Discarded, Discarding
<1> QED
  BY <1>5, <1>8, <1>9

LEMMA DiscardingKeeps ==
  ASSUME NEW st, Sound(st), Exact(st), NEW order \in Seq(Doc)
  PROVE  Sound(Discarded(st, order)) /\ Exact(Discarded(st, order)) /\ Serving(st, Discarded(st, order))
<1>1. PICK m \in Nat : m = Len(order)
  OBVIOUS
<1> QED
  BY <1>1, DiscardingRounds

-----------------------------------------------------------------------------
(* What the session manager sees *)

View(st, d) == IF d \in DOMAIN st.documents THEN Look(st.documents[d]) ELSE "absent"
Views(st) == [d \in Doc |-> View(st, d)]

\* The closed documents are there, and finished.
Remembered(st) == \A k : Contains(st.closed, k) => k \in DOMAIN st.documents /\ st.documents[k].finished

\* Nobody waits for nobody.
Held(st) == st.pending # <<>> => HoldersOf(st.documents) # {}

Tidy(st) == Remembered(st) /\ Held(st)

\* The view of a document tells whether it holds, waits, or is finished.
LEMMA ViewIs ==
  ASSUME NEW st, Sound(st), NEW d, NEW doc, doc = DocumentOr(st.documents, d), NEW v, v = View(st, d)
  PROVE  /\ HasLease(doc) <=> v \in {"active", "both", "closing"}
         /\ HasRequest(doc) <=> v \in {"waiting", "both"}
         /\ doc.finished <=> v = "finished"
         /\ v = "absent" <=> d \notin DOMAIN st.documents
         /\ v \in {"absent", "idle"} <=> ~HasLease(doc) /\ ~HasRequest(doc) /\ ~doc.finished
         /\ v = "closing" => doc.cancelThrough = Everything
         /\ v = "active" => doc.cancelThrough # Everything
<1>1. CASE d \in DOMAIN st.documents
  <2>1. doc = st.documents[d] /\ v = Look(doc) /\ Promise(doc)
    BY <1>1 DEF DocumentOr, View, Sound
  <2> QED
    BY <1>1, <2>1 DEF Look, Promise
<1>2. CASE d \notin DOMAIN st.documents
  <2>1. doc = NewDocument /\ v = "absent"
    BY <1>2 DEF DocumentOr, View
  <2> QED
    BY <1>2, <2>1 DEF NewDocument, HasLease, HasRequest
<1> QED
  BY <1>1, <1>2

LEMMA HoldersSeen ==
  ASSUME NEW st, Sound(st)
  PROVE  HoldersOf(st.documents) = Shadow!Holding(Views(st))
<1>1. DOMAIN st.documents \subseteq Doc
  BY DocumentsAre DEF Sound, Book
<1>2. ASSUME NEW d \in Doc
      PROVE  d \in HoldersOf(st.documents) <=> View(st, d) \in {"active", "both", "closing"}
  <2>1. HasLease(DocumentOr(st.documents, d)) <=> View(st, d) \in {"active", "both", "closing"}
    BY ViewIs
  <2>2. HasLease(DocumentOr(st.documents, d)) <=> d \in HoldersOf(st.documents)
    BY DEF HoldersOf, DocumentOr, HasLease, NewDocument
  <2> QED
    BY <2>1, <2>2
<1>3. \A d \in Doc : Views(st)[d] = View(st, d)
  BY DEF Views
<1>4. HoldersOf(st.documents) \subseteq Doc
  BY <1>1 DEF HoldersOf
<1> QED
  BY <1>2, <1>3, <1>4 DEF Shadow!Holding

\* Who waits with nothing in hand is in the queue.
LEMMA WaitersSeen ==
  ASSUME NEW st, Sound(st), Lined(st)
  PROVE  /\ Shadow!Waiting(Views(st)) \subseteq ToSet(st.pending)
         /\ \A d \in Doc : d \in ToSet(st.pending) <=> View(st, d) \in {"waiting", "both"}
<1>1. \A d \in Doc : d \in ToSet(st.pending) <=> View(st, d) \in {"waiting", "both"}
  BY ViewIs DEF Lined
<1> QED
  BY <1>1 DEF Shadow!Waiting, Views

\* What is charged, somebody holds.
LEMMA ChargedIsHeld ==
  ASSUME NEW st, Exact(st), st.bytes # 0
  PROVE  HoldersOf(st.documents) # {}
<1> SUFFICES ASSUME HoldersOf(st.documents) = {} PROVE FALSE
  OBVIOUS
<1> QED
  BY TotalFirst, FS_EmptySet DEF Exact, Owed

LEMMA PutSeen ==
  ASSUME NEW st \in Book, NEW d \in Doc, NEW doc
  PROVE  /\ Views(Put(st, d, doc)) = [Views(st) EXCEPT ![d] = Look(doc)]
         /\ Remembered(st) /\ (st.closed = Put(st, d, doc).closed) /\ (DocumentOr(st.documents, d).finished => doc.finished)
              => Remembered(Put(st, d, doc))
<1>1. PICK u : u = Put(st, d, doc)
  OBVIOUS
<1>2. /\ DOMAIN u.documents = DOMAIN st.documents \cup {d} /\ u.closed = st.closed
      /\ \A k : DocumentOr(u.documents, k) = IF k = d THEN doc ELSE DocumentOr(st.documents, k)
  BY <1>1, PutIs
<1>3. \A k : /\ k \in DOMAIN u.documents => DocumentOr(u.documents, k) = u.documents[k]
             /\ k \in DOMAIN st.documents => DocumentOr(st.documents, k) = st.documents[k]
  BY DEF DocumentOr
<1>4. \A k \in Doc : View(u, k) = IF k = d THEN Look(doc) ELSE View(st, k)
  BY <1>2, <1>3 DEF View
<1>5. Views(u) = [Views(st) EXCEPT ![d] = Look(doc)]
  BY <1>4 DEF Views
<1>6. ASSUME Remembered(st), DocumentOr(st.documents, d).finished => doc.finished
      PROVE  Remembered(u)
  BY <1>2, <1>3, <1>6 DEF Remembered
<1> QED
  BY <1>1, <1>5, <1>6

\* Only documents that have finished are forgotten, and the rest stay as they are.
LEMMA PruneSeen ==
  ASSUME NEW st, Sound(st), NEW old, \A k \in Doc : Outdated(st, k) => k \in old
  PROVE  /\ Views(PruneClosed(st)) \in Shadow!ForgottenOf(Views(st), old)
         /\ Remembered(st) => Remembered(PruneClosed(st))
         /\ Held(st) => Held(PruneClosed(st))
<1>1. PICK u : u = PruneClosed(st)
  OBVIOUS
<1>2. /\ u.pending = st.pending /\ u.closed = Newest(st.closed, MaxClosed)
      /\ DOMAIN u.documents = {k \in DOMAIN st.documents : ~Outdated(st, k)}
      /\ \A k : DocumentOr(u.documents, k) = IF Outdated(st, k) THEN NewDocument ELSE DocumentOr(st.documents, k)
  BY <1>1, PruneIs DEF Sound
<1>3. \A k : /\ k \in DOMAIN u.documents => DocumentOr(u.documents, k) = u.documents[k]
             /\ k \in DOMAIN st.documents => DocumentOr(st.documents, k) = st.documents[k]
  BY DEF DocumentOr
<1>4. \A k : k \in DOMAIN u.documents => u.documents[k] = st.documents[k] /\ k \in DOMAIN st.documents
  BY <1>2, <1>3
<1>5. Views(u) \in Shadow!ForgottenOf(Views(st), old)
  <2>1. PICK F : F = {k \in Doc : Outdated(st, k)}
    OBVIOUS
  <2>2. \A k \in Doc : View(u, k) = IF k \in F THEN "absent" ELSE View(st, k)
    BY <1>2, <1>4, <2>1 DEF View
  <2>3. F \in SUBSET {s \in old : Views(st)[s] = "finished"}
    <3>1. \A k \in F : k \in old /\ k \in Doc /\ View(st, k) = "finished"
      BY <2>1 DEF View, Look, Outdated
    <3> QED
      BY <3>1 DEF Views
  <2>4. Views(u) = [s \in Doc |-> IF s \in F THEN "absent" ELSE Views(st)[s]]
    BY <2>2 DEF Views
  <2> QED
    BY <2>3, <2>4 DEF Shadow!ForgottenOf
<1>6. ASSUME Remembered(st)
      PROVE  Remembered(u)
  <2>1. ASSUME NEW k, Contains(u.closed, k)
        PROVE  k \in DOMAIN u.documents /\ u.documents[k].finished
    <3>1. Contains(st.closed, k)
      BY <1>2, <2>1, NewestContains, Constants DEF Sound, Book
    <3>2. k \in DOMAIN st.documents /\ st.documents[k].finished
      BY <1>6, <3>1 DEF Remembered
    <3>3. ~Outdated(st, k)
      BY <1>2, <2>1 DEF Outdated
    <3> QED
      BY <1>2, <1>4, <3>2, <3>3
  <2> QED
    BY <2>1 DEF Remembered
<1>7. ASSUME Held(st)
      PROVE  Held(u)
  <2>1. HoldersOf(st.documents) \subseteq HoldersOf(u.documents)
    BY <1>2, <1>4 DEF HoldersOf, Outdated
  <2> QED
    BY <1>2, <1>7, <2>1 DEF Held
<1> QED
  BY <1>1, <1>5, <1>6, <1>7

\* What has just been closed is not forgotten at once.
LEMMA OldOnes ==
  ASSUME NEW st, Sound(st), Remembered(st), NEW d \in Doc, NEW u,
         u.closed = st.closed \/ u.closed = (IF Contains(st.closed, d) THEN st.closed ELSE Append(st.closed, d))
  PROVE  \A k \in Doc : Outdated(u, k) => k \in {s \in Doc : Views(st)[s] = "finished"}
<1> SUFFICES ASSUME NEW k \in Doc, Outdated(u, k) PROVE Views(st)[k] = "finished"
  OBVIOUS
<1>1. Contains(u.closed, k) /\ ~Contains(Newest(u.closed, MaxClosed), k)
  BY DEF Outdated
<1>2. st.closed \in Seq(Doc) /\ MaxClosed \in Nat /\ MaxClosed # 0
  BY LedgerAssumption DEF Sound, Book
<1>3. Contains(st.closed, k)
  <2>1. CASE u.closed = st.closed
    BY <1>1, <2>1
  <2>2. CASE u.closed = Append(st.closed, d)
    <3>1. k # d
      BY <1>1, <1>2, <2>2, NewestIs
    <3>2. k \in ToSet(st.closed) \cup {d}
      <4>1. Append(st.closed, d) \in Seq(Doc)
        BY <1>2
      <4>2. k \in ToSet(Append(st.closed, d))
        BY <1>1, <2>2, <4>1, LenProperties DEF Contains, ToSet
      <4> QED
        BY <1>2, <4>2, AppendElements
    <3>3. k \in ToSet(st.closed)
      BY <3>1, <3>2
    <3> QED
      BY <1>2, <3>3, LenProperties DEF Contains, ToSet
  <2> QED
    BY <2>1, <2>2
<1>4. k \in DOMAIN st.documents /\ st.documents[k].finished
  BY <1>3 DEF Remembered
<1> QED
  BY <1>4 DEF Views, View, Look

\* A round of the pump gives a lease to a document that only waits, or somebody holds one.
LEMMA PumpOnceSeen ==
  ASSUME NEW st, Sound(st), Exact(st), Lined(st)
  PROVE  /\ \/ Views(PumpOnce(st)) = Views(st)
            \/ \E d \in Shadow!Waiting(Views(st)) : Views(PumpOnce(st)) = [Views(st) EXCEPT ![d] = "active"]
         /\ Held(PumpOnce(st)) /\ PumpOnce(st).closed = st.closed
         /\ Remembered(st) => Remembered(PumpOnce(st))
<1>1. CASE st.pending = <<>>
  <2>1. PumpOnce(st) = st
    BY <1>1 DEF PumpOnce
  <2> QED
    BY <1>1, <2>1 DEF Held
<1>2. CASE st.pending # <<>>
  <2>1. st \in Book /\ st.pending \in Seq(Doc)
    BY DEF Sound, Book
  <2>2. /\ Tail(st.pending) \in Seq(Doc) /\ Head(st.pending) \in Doc /\ Head(st.pending) \in ToSet(st.pending)
    BY <1>2, <2>1, TailElements
  <2>3. PICK d \in Doc : d = Head(st.pending) /\ d \in ToSet(st.pending)
    BY <2>2
  <2>4. PICK doc \in Documented : doc = DocumentOr(st.documents, d) /\ Promise(doc)
    BY DocumentIs
  <2>5. HasRequest(doc) /\ ~doc.finished
    BY <2>3, <2>4 DEF Lined, Promise
  <2>6. d \in DOMAIN st.documents /\ doc = st.documents[d]
    BY <2>4, <2>5 DEF DocumentOr, NewDocument, HasRequest
  <2>7. CASE HasLease(doc) \/ st.bytes + doc.waiting.bytes > MaxBytes
    <3>1. PumpOnce(st) = st
      BY <1>2, <2>3, <2>4, <2>5, <2>7 DEF PumpOnce
    <3>2. HoldersOf(st.documents) # {}
      <4>1. CASE HasLease(doc)
        BY <2>6, <4>1 DEF HoldersOf
      <4>2. CASE st.bytes + doc.waiting.bytes > MaxBytes
        <5>1. doc.waiting.bytes \in 0..MaxBytes
          BY <2>4 DEF Documented
        <5>2. st.bytes # 0
          BY <2>1, <4>2, <5>1, Constants DEF Book
        <5> QED
          BY <5>2, ChargedIsHeld
      <4> QED
        BY <2>7, <4>1, <4>2
    <3> QED
      BY <3>1, <3>2 DEF Held
  <2>8. CASE ~(HasLease(doc) \/ st.bytes + doc.waiting.bytes > MaxBytes)
    <3>1. PICK rest : rest = [st EXCEPT !.pending = Tail(@)]
      OBVIOUS
    <3>2. rest \in Book /\ rest.documents = st.documents /\ rest.closed = st.closed
      BY <2>1, <2>2, <3>1 DEF Book
    <3>3. PICK n : n = doc.waiting.bytes
      OBVIOUS
    <3>4. PICK v : v = [rest EXCEPT !.bytes = @ + n, !.next = (@ % MaxLease) + 1]
      OBVIOUS
    <3>5. PICK lease : lease = [id |-> rest.next, bytes |-> n]
      OBVIOUS
    <3>6. PICK new : new = [[doc EXCEPT !.waiting = NoRequest] EXCEPT !.active = lease, !.last = rest.next]
      OBVIOUS
    <3>7. PumpOnce(st) = Put(v, d, new)
      BY <1>2, <2>3, <2>4, <2>5, <2>8, <3>1, <3>3, <3>4, <3>5, <3>6 DEF PumpOnce, Grant
    <3>8. v \in Book /\ v.documents = st.documents /\ v.closed = st.closed
      <4>1. n \in Nat
        BY <2>4, <3>3, Constants DEF Documented
      <4>2. rest.bytes + n \in Nat /\ (rest.next % MaxLease) + 1 \in 1..MaxLease
        BY <3>2, <4>1, Constants DEF Book
      <4> QED
        BY <3>2, <3>4, <4>2 DEF Book
    <3>9. Look(new) = "active" /\ HasLease(new)
      <4>1. lease.id # 0
        BY <3>2, <3>5, Constants DEF Book
      <4>2. /\ new.waiting = NoRequest /\ new.active = lease /\ new.finished = doc.finished
            /\ new.cancelThrough = doc.cancelThrough
        BY <2>4, <3>6 DEF Documented
      <4>3. doc.cancelThrough # Everything
        BY <2>4, <2>5, Constants DEF Promise, Documented
      <4> QED
        BY <2>5, <4>1, <4>2, <4>3 DEF Look, HasLease, HasRequest, NoLease
    <3>10. PICK u : u = PumpOnce(st)
      OBVIOUS
    <3>11. Views(u) = [Views(v) EXCEPT ![d] = "active"]
      BY <3>7, <3>8, <3>9, <3>10, PutSeen
    <3>12. Views(v) = Views(st)
      BY <3>8 DEF Views, View
    <3>13. d \in Shadow!Waiting(Views(st))
      BY <2>4, <2>5, <2>8, ViewIs DEF Shadow!Waiting, Views
    <3>14. Held(u)
      <4>1. d \in DOMAIN u.documents /\ DocumentOr(u.documents, d) = new
        BY <3>7, <3>8, <3>10, PutIs
      <4> QED
        BY <3>9, <4>1 DEF Held, HoldersOf, DocumentOr
    <3>15. Remembered(st) => Remembered(u)
      <4>1. u.closed = v.closed
        BY <3>7, <3>8, <3>10, PutIs
      <4>2. Remembered(st) => Remembered(v)
        BY <3>8 DEF Remembered
      <4>3. ~DocumentOr(v.documents, d).finished
        BY <2>4, <2>5, <3>8
      <4> QED
        BY <3>7, <3>8, <3>10, <4>1, <4>2, <4>3, PutSeen
    <3>16. u.closed = st.closed
      BY <3>7, <3>8, <3>10, PutIs
    <3> QED
      BY <3>10, <3>11, <3>12, <3>13, <3>14, <3>15, <3>16
  <2> QED
    BY <2>7, <2>8
<1> QED
  BY <1>1, <1>2

\* The documents of G, which waited, have leases.
Raised(v, w, G) ==
  G \subseteq Shadow!Waiting(v) /\ w = [s \in Doc |-> IF s \in G THEN "active" ELSE v[s]]

LEMMA PumpSeen ==
  ASSUME NEW st, Sound(st), Exact(st), Lined(st)
  PROVE  /\ Views(Pump(st)) \in Shadow!Promoted(Views(st))
         /\ Held(Pump(st)) /\ Pump(st).closed = st.closed
         /\ Remembered(st) => Remembered(Pump(st))
<1>1. PICK m \in Nat : m = Len(st.pending)
  BY DEF Sound, Book
<1>2. PICK f : /\ Pumping(f, st, m) /\ Pump(st) = f[m]
               /\ \A n \in Nat : n <= m => Sound(f[n]) /\ Exact(f[n])
  BY <1>1, PumpRounds
<1> DEFINE P == {n \in Nat : n <= m =>
                   /\ Lined(f[n]) /\ f[n].closed = st.closed
                   /\ \E G : Raised(Views(st), Views(f[n]), G)
                   /\ Remembered(st) => Remembered(f[n])
                   /\ n # 0 => Held(f[n])}
<1>3. 0 \in P
  <2>1. f[0] = st
    BY <1>2, PumpingAt
  <2>2. Raised(Views(st), Views(st), {})
    BY DEF Raised, Views
  <2> QED
    BY <2>1, <2>2
<1>4. ASSUME NEW n \in Nat, n \in P PROVE n + 1 \in P
  <2>1. ASSUME n + 1 <= m
        PROVE  /\ Lined(f[n + 1]) /\ Held(f[n + 1]) /\ f[n + 1].closed = st.closed
               /\ \E G : Raised(Views(st), Views(f[n + 1]), G)
               /\ Remembered(st) => Remembered(f[n + 1])
    <3>1. n + 1 \in 0..m /\ n + 1 # 0 /\ n + 1 - 1 = n /\ n <= m
      BY <2>1
    <3>2. f[n + 1] = PumpOnce(f[n])
      BY <1>2, <3>1, PumpingAt
    <3>3. /\ Sound(f[n]) /\ Exact(f[n]) /\ Lined(f[n]) /\ (Remembered(st) => Remembered(f[n]))
          /\ f[n].closed = st.closed
      BY <1>2, <1>4, <3>1
    <3>4. PICK G : Raised(Views(st), Views(f[n]), G)
      BY <1>4, <3>1
    <3>5. /\ \/ Views(f[n + 1]) = Views(f[n])
             \/ \E d \in Shadow!Waiting(Views(f[n])) : Views(f[n + 1]) = [Views(f[n]) EXCEPT ![d] = "active"]
          /\ Held(f[n + 1]) /\ (Remembered(f[n]) => Remembered(f[n + 1]))
          /\ f[n + 1].closed = f[n].closed
      BY <3>2, <3>3, PumpOnceSeen
    <3>6. Lined(f[n + 1])
      BY <3>2, <3>3, PumpOnceServes DEF Serving
    <3>7. \E H : Raised(Views(st), Views(f[n + 1]), H)
      <4>1. CASE Views(f[n + 1]) = Views(f[n])
        BY <3>4, <4>1
      <4>2. ASSUME NEW d \in Shadow!Waiting(Views(f[n])), Views(f[n + 1]) = [Views(f[n]) EXCEPT ![d] = "active"]
            PROVE  Raised(Views(st), Views(f[n + 1]), G \cup {d})
        <5>1. d \in Doc /\ Views(f[n])[d] = "waiting"
          BY <4>2 DEF Shadow!Waiting
        <5>2. Views(f[n]) = [s \in Doc |-> IF s \in G THEN "active" ELSE Views(st)[s]] /\ G \subseteq Shadow!Waiting(Views(st))
          BY <3>4 DEF Raised
        <5>3. d \in Shadow!Waiting(Views(st))
          BY <5>1, <5>2 DEF Shadow!Waiting
        <5>4. Views(f[n + 1]) = [s \in Doc |-> IF s \in G \cup {d} THEN "active" ELSE Views(st)[s]]
          BY <4>2, <5>1, <5>2
        <5> QED
          BY <5>2, <5>3, <5>4 DEF Raised
      <4> QED
        BY <3>5, <4>1, <4>2
    <3> QED
      BY <3>3, <3>5, <3>6, <3>7
  <2> QED
    BY <2>1
<1>5. Nat \subseteq P
  <2> HIDE DEF P
  <2> QED
    BY <1>3, <1>4, NumbersInduction
<1>6. PICK u : u = Pump(st)
  OBVIOUS
<1>7. /\ Sound(u) /\ Lined(u) /\ (Remembered(st) => Remembered(u)) /\ (m # 0 => Held(u))
      /\ u.closed = st.closed
  BY <1>2, <1>5, <1>6
<1>8. PICK G : Raised(Views(st), Views(u), G)
  BY <1>2, <1>5, <1>6
<1>9. Held(u)
  <2>1. CASE m # 0
    BY <1>7, <2>1
  <2>2. CASE m = 0
    <3>1. u = st
      BY <1>2, <1>6, <2>2, PumpingAt
    <3>2. st.pending \in Seq(Doc) /\ Len(st.pending) = 0
      BY <1>1, <2>2 DEF Sound, Book
    <3>3. st.pending = <<>>
      BY <3>2
    <3> QED
      BY <3>1, <3>3 DEF Held
  <2> QED
    BY <2>1, <2>2
<1>10. ASSUME Shadow!Holding(Views(st)) = {}, Shadow!Waiting(Views(st)) # {}
       PROVE  G # {}
  <2> SUFFICES ASSUME G = {} PROVE FALSE
    OBVIOUS
  <2>1. Views(u) = Views(st)
    BY <1>8 DEF Raised, Views
  <2>2. HoldersOf(u.documents) = {}
    BY <1>7, <1>10, <2>1, HoldersSeen
  <2>3. u.pending = <<>>
    BY <1>9, <2>2 DEF Held
  <2>4. Shadow!Waiting(Views(u)) \subseteq ToSet(u.pending)
    BY <1>7, WaitersSeen
  <2> QED
    BY <1>10, <2>1, <2>3, <2>4 DEF ToSet
<1>11. Views(u) \in Shadow!Promoted(Views(st))
  BY <1>8, <1>10 DEF Raised, Shadow!Promoted
<1> QED
  BY <1>6, <1>7, <1>9, <1>11

\* Forgetting and then serving is serving and then forgetting.
LEMMA Commute ==
  ASSUME NEW v \in [Doc -> Shadow!Document], NEW old \in SUBSET Doc,
         NEW w \in Shadow!ForgottenOf(v, old), NEW x \in Shadow!Promoted(w)
  PROVE  \E p \in Shadow!Promoted(v) : x \in Shadow!ForgottenOf(p, old)
<1>1. PICK F \in SUBSET {s \in old : v[s] = "finished"} : w = [s \in Doc |-> IF s \in F THEN "absent" ELSE v[s]]
  BY Zenon DEF Shadow!ForgottenOf
<1>2. PICK G \in SUBSET Shadow!Waiting(w) :
        /\ Shadow!Holding(w) = {} /\ Shadow!Waiting(w) # {} => G # {}
        /\ x = [s \in Doc |-> IF s \in G THEN "active" ELSE w[s]]
  BY Zenon DEF Shadow!Promoted
<1>3. Shadow!Waiting(w) = Shadow!Waiting(v) /\ Shadow!Holding(w) = Shadow!Holding(v)
  BY <1>1 DEF Shadow!Waiting, Shadow!Holding
<1>4. PICK p : p = [s \in Doc |-> IF s \in G THEN "active" ELSE v[s]]
  OBVIOUS
<1>5. p \in Shadow!Promoted(v)
  BY <1>2, <1>3, <1>4 DEF Shadow!Promoted
<1>6. \A s \in F : s \in Doc /\ s \notin G /\ p[s] = v[s]
  BY <1>1, <1>2, <1>3, <1>4 DEF Shadow!Waiting
<1>7. x = [s \in Doc |-> IF s \in F THEN "absent" ELSE p[s]]
  BY <1>1, <1>2, <1>4, <1>6
<1>8. \A s \in F : p[s] = "finished"
  BY <1>1, <1>4, <1>6
<1> QED
  BY <1>1, <1>5, <1>7, <1>8 DEF Shadow!ForgottenOf

LEMMA MarkClosedSeen ==
  ASSUME NEW st, Sound(st), NEW d \in DOMAIN st.documents, st.documents[d].finished
  PROVE  /\ Views(MarkClosed(st, d)) = Views(st)
         /\ Remembered(st) => Remembered(MarkClosed(st, d))
<1>1. PICK u : u = MarkClosed(st, d)
  OBVIOUS
<1>2. /\ u.documents = st.documents
      /\ u.closed = IF Contains(st.closed, d) THEN st.closed ELSE Append(st.closed, d)
  BY <1>1, MarkClosedIs DEF Sound
<1>3. Views(u) = Views(st)
  BY <1>2 DEF Views, View
<1>4. ASSUME NEW k, Contains(u.closed, k)
      PROVE  Contains(st.closed, k) \/ k = d
  <2>1. d \in Doc /\ st.closed \in Seq(Doc)
    BY DocumentsAre DEF Sound, Book
  <2>2. Append(st.closed, d) \in Seq(Doc)
    BY <2>1
  <2>3. CASE u.closed = Append(st.closed, d)
    <3>1. k \in ToSet(st.closed) \cup {d}
      BY <1>4, <2>1, <2>2, <2>3, AppendElements, LenProperties DEF Contains, ToSet
    <3> QED
      BY <2>1, <3>1, LenProperties DEF Contains, ToSet
  <2> QED
    BY <1>2, <1>4, <2>3
<1> QED
  BY <1>1, <1>2, <1>3, <1>4 DEF Remembered

LEMMA FinishedSeen ==
  ASSUME NEW st, Sound(st), Exact(st), NEW d \in Doc
  PROVE  /\ Views(Finished(st, d)) = [Views(st) EXCEPT ![d] = "finished"]
         /\ Remembered(st) => Remembered(Finished(st, d))
         /\ Finished(st, d).closed = IF Contains(st.closed, d) THEN st.closed ELSE Append(st.closed, d)
<1>1. PICK new \in Documented, t \in Book :
        /\ Finished(st, d) = MarkClosed(Put(t, d, new), d)
        /\ new.active = NoLease /\ ~HasRequest(new) /\ new.finished
        /\ t.documents = st.documents /\ t.pending = RemoveFirst(st.pending, d) /\ t.closed = st.closed
        /\ Sound(Put(t, d, new)) /\ Exact(Put(t, d, new))
  BY FinishedIs
<1>2. PICK u : u = Put(t, d, new)
  OBVIOUS
<1>3. /\ Sound(u) /\ u.closed = st.closed
      /\ d \in DOMAIN u.documents /\ DocumentOr(u.documents, d) = new
  BY <1>1, <1>2, PutIs
<1>4. u.documents[d].finished
  BY <1>1, <1>3 DEF DocumentOr
<1>5. Views(u) = [Views(st) EXCEPT ![d] = "finished"]
  <2>1. Views(u) = [Views(t) EXCEPT ![d] = Look(new)]
    BY <1>2, PutSeen
  <2>2. Views(t) = Views(st)
    BY <1>1 DEF Views, View
  <2>3. Look(new) = "finished"
    BY <1>1 DEF Look
  <2> QED
    BY <2>1, <2>2, <2>3
<1>6. Remembered(st) => Remembered(u)
  <2>1. Remembered(st) => Remembered(t)
    BY <1>1 DEF Remembered
  <2> QED
    BY <1>1, <1>2, <1>3, <2>1, PutSeen
<1>7. Finished(st, d).closed = IF Contains(st.closed, d) THEN st.closed ELSE Append(st.closed, d)
  BY <1>1, <1>2, <1>3, MarkClosedIs DEF Sound
<1> QED
  BY <1>1, <1>2, <1>3, <1>4, <1>5, <1>6, <1>7, MarkClosedSeen

\* All the documents of a window are seen finished.
LEMMA DiscardingSeen ==
  ASSUME NEW st, Sound(st), Exact(st), NEW order \in Seq(Doc)
  PROVE  /\ Views(Discarded(st, order))
               = [s \in Doc |-> IF s \in ToSet(order) THEN "finished" ELSE Views(st)[s]]
         /\ Remembered(st) => Remembered(Discarded(st, order))
<1>1. PICK m \in Nat : m = Len(order)
  OBVIOUS
<1>2. PICK f : /\ Discarding(f, st, order, m) /\ Discarded(st, order) = f[m]
               /\ \A n \in Nat : n <= m => Sound(f[n]) /\ Exact(f[n]) /\ Serving(st, f[n])
  BY <1>1, DiscardingRounds
<1> DEFINE P == {n \in Nat : n <= m =>
                   /\ Views(f[n]) = [s \in Doc |-> IF \E i \in 1..n : order[i] = s THEN "finished" ELSE Views(st)[s]]
                   /\ Remembered(st) => Remembered(f[n])}
<1>3. 0 \in P
  <2>1. f[0] = st
    BY <1>2, DiscardingAt
  <2> QED
    BY <2>1 DEF Views
<1>4. ASSUME NEW n \in Nat, n \in P PROVE n + 1 \in P
  <2>1. ASSUME n + 1 <= m
        PROVE  /\ Views(f[n + 1]) = [s \in Doc |-> IF \E i \in 1..(n + 1) : order[i] = s THEN "finished" ELSE Views(st)[s]]
               /\ Remembered(st) => Remembered(f[n + 1])
    <3>1. n + 1 \in 0..m /\ n + 1 \in 1..m /\ n + 1 # 0 /\ n + 1 - 1 = n /\ n <= m
      BY <2>1
    <3>2. f[n + 1] = Finished(f[n], order[n + 1])
      BY <1>2, <3>1, DiscardingAt
    <3>3. Sound(f[n]) /\ Exact(f[n]) /\ order[n + 1] \in Doc
      BY <1>1, <1>2, <3>1
    <3>4. /\ Views(f[n + 1]) = [Views(f[n]) EXCEPT ![order[n + 1]] = "finished"]
          /\ Remembered(f[n]) => Remembered(f[n + 1])
      BY <3>2, <3>3, FinishedSeen
    <3>5. /\ Views(f[n]) = [s \in Doc |-> IF \E i \in 1..n : order[i] = s THEN "finished" ELSE Views(st)[s]]
          /\ Remembered(st) => Remembered(f[n])
      BY <1>4, <3>1
    <3>6. \A s : (\E i \in 1..(n + 1) : order[i] = s) <=> (\E i \in 1..n : order[i] = s) \/ s = order[n + 1]
      <4>1. 1..(n + 1) = (1..n) \cup {n + 1}
        OBVIOUS
      <4> QED
        BY <4>1
    <3> QED
      BY <3>4, <3>5, <3>6
  <2> QED
    BY <2>1
<1>5. Nat \subseteq P
  <2> HIDE DEF P
  <2> QED
    BY <1>3, <1>4, NumbersInduction
<1>6. m \in P
  BY <1>5
<1>7. \A s : (\E i \in 1..m : order[i] = s) <=> s \in ToSet(order)
  BY <1>1, LenProperties DEF ToSet
<1> QED
  BY <1>2, <1>6, <1>7

LEMMA ViewsAre ==
  ASSUME NEW st
  PROVE  Views(st) \in [Doc -> Shadow!Document] /\ \A d \in Doc : Views(st)[d] = View(st, d)
<1>1. \A d \in Doc : View(st, d) \in Shadow!Document
  BY DEF View, Look, Shadow!Document
<1> QED
  BY <1>1 DEF Views

\* What the manager sees of a call is one of the changes it expects, if it sees any.
Shown == Views(Ledger') # Views(Ledger) => Shadow!ShadowNext

\* A call keeps the books tidy, and shows.
Showing == Lined(Ledger) /\ Tidy(Ledger) => Tidy(Ledger') /\ Shown

LEMMA ShadowIs ==
  /\ [d \in Doc |-> ShadowOf(d)] = Views(Ledger)
  /\ [d \in Doc |-> ShadowOf(d)]' = Views(Ledger')
<1>1. Ledger.documents = documents /\ Ledger'.documents = documents'
  BY DEF Ledger
<1> QED
  BY <1>1 DEF ShadowOf, Known, Views, View

\* The documents the manager has seen finished.
FinishedIn(v) == {s \in Doc : v[s] = "finished"}

LEMMA ShownRequest ==
  ASSUME NEW v, v = Views(Ledger), NEW w, w = Views(Ledger'), NEW d \in Doc,
         \/ /\ v[d] \in {"absent", "idle"} /\ \A r \in Doc : v[r] \notin {"waiting", "both"}
            /\ w \in Shadow!ForgottenOf([v EXCEPT ![d] = "active"], FinishedIn(v))
         \/ /\ v[d] \in {"absent", "idle"} /\ Shadow!Holding(v) # {}
            /\ w = [v EXCEPT ![d] = "waiting"]
         \/ v[d] = "active" /\ w = [v EXCEPT ![d] = "both"]
  PROVE  Shown
<1>1. [s \in Doc |-> ShadowOf(s)] = v /\ [s \in Doc |-> ShadowOf(s)]' = w
  BY ShadowIs
<1>2. Shadow!RequestDocument(d)
  BY <1>1 DEF Shadow!RequestDocument, Shadow!Forgotten, FinishedIn
<1> QED
  BY <1>1, <1>2 DEF Shown, Shadow!ShadowNext

LEMMA ShownCancel ==
  ASSUME NEW v, v = Views(Ledger), NEW w, w = Views(Ledger'), NEW d \in Doc,
         \/ /\ v[d] \in {"absent", "waiting", "both"}
            /\ w \in Shadow!ForgottenOf([v EXCEPT ![d] = IF @ = "both" THEN "active" ELSE "idle"], FinishedIn(v))
         \/ w \in Shadow!ForgottenOf([v EXCEPT ![d] = Shadow!Cancelled(@)], FinishedIn(v))
  PROVE  Shown
<1>1. [s \in Doc |-> ShadowOf(s)] = v /\ [s \in Doc |-> ShadowOf(s)]' = w
  BY ShadowIs
<1>2. Shadow!WithdrawRequest(d) \/ Shadow!CancelDocument(d)
  BY <1>1 DEF Shadow!WithdrawRequest, Shadow!CancelDocument, Shadow!Forgotten, FinishedIn
<1> QED
  BY <1>1, <1>2 DEF Shown, Shadow!ShadowNext

\* A document is given back or finished, and the queue is pumped.
LEMMA ShownReturn ==
  ASSUME NEW v, v = Views(Ledger), NEW w, w = Views(Ledger'), NEW d \in Doc, NEW docs,
         \/ d \in Shadow!Holding(v) /\ docs = [v EXCEPT ![d] = Shadow!Returned(@)]
         \/ v[d] # "finished" /\ docs = [v EXCEPT ![d] = "finished"],
         \E p \in Shadow!Promoted(docs) : w \in Shadow!ForgottenOf(p, FinishedIn(v))
  PROVE  Shown
<1>1. [s \in Doc |-> ShadowOf(s)] = v /\ [s \in Doc |-> ShadowOf(s)]' = w
  BY ShadowIs
<1>2. w \in Shadow!Settled(docs)
  BY <1>1 DEF Shadow!Settled, Shadow!Forgotten, FinishedIn
<1>3. Shadow!ReleaseDocument(d) \/ Shadow!FinishDocument(d)
  BY <1>1, <1>2 DEF Shadow!ReleaseDocument, Shadow!FinishDocument
<1> QED
  BY <1>1, <1>3 DEF Shown, Shadow!ShadowNext

LEMMA ShownDiscard ==
  ASSUME NEW v, v = Views(Ledger), NEW w, w = Views(Ledger'), NEW S \in SUBSET Doc,
         NEW p \in Shadow!Promoted([s \in Doc |-> IF s \in S /\ v[s] # "absent" THEN "finished" ELSE v[s]]),
         w \in Shadow!ForgottenOf(p, Doc)
  PROVE  Shown
<1>1. [s \in Doc |-> ShadowOf(s)] = v /\ [s \in Doc |-> ShadowOf(s)]' = w
  BY ShadowIs
<1>2. Shadow!DiscardDocuments(S)
  BY <1>1 DEF Shadow!DiscardDocuments
<1> QED
  BY <1>1, <1>2 DEF Shown, Shadow!ShadowNext

-----------------------------------------------------------------------------
(* The calls *)

\* What a call does to the queue.
Turning(a, b) == Lined(a) => Lined(b) /\ InTurn(a, b)

\* A ledger becomes the state.
LEMMA BecomesKeeps ==
  ASSUME NEW a, a = Ledger, NEW st, Sound(st), Exact(st), Turning(a, st), Becomes(st)
  PROVE  LedgerInv' /\ Turning(Ledger, Ledger') /\ Ledger' = st
<1>1. /\ documents' = st.documents /\ pending' = st.pending /\ closedOrder' = st.closed
      /\ currentBytes' = st.bytes /\ nextLease' = st.next
  BY DEF Becomes
<1>2. Ledger' = st
  BY <1>1 DEF Ledger, Sound, Book
<1> QED
  BY <1>2 DEF LedgerInv

\* What there is before a call.
LEMMA Before ==
  ASSUME LedgerInv
  PROVE  /\ Sound(Ledger) /\ Exact(Ledger) /\ Ledger \in Book
         /\ Ledger.documents = documents /\ Ledger.pending = pending /\ Ledger.closed = closedOrder
         /\ Ledger.bytes = currentBytes /\ Ledger.next = nextLease
         /\ pending \in Seq(Doc) /\ currentBytes \in Nat /\ currentBytes <= MaxBytes
<1>1. Sound(Ledger) /\ Exact(Ledger) /\ Ledger \in Book
  BY DEF LedgerInv, Sound
<1> QED
  BY <1>1 DEF Ledger, Book, Exact

LEMMA RequestKeeps ==
  ASSUME LedgerInv, NEW d \in Doc, NEW q \in 1..MaxSequence, NEW n \in Sizes, Request(d, q, n)
  PROVE  LedgerInv' /\ Turning(Ledger, Ledger') /\ Showing
<1>1. PICK st : st = Ledger
  OBVIOUS
<1>2. /\ Sound(st) /\ Exact(st) /\ st \in Book /\ st.documents = documents /\ st.pending = pending
      /\ st.bytes = currentBytes /\ st.pending \in Seq(Doc) /\ st.bytes \in Nat /\ st.bytes <= MaxBytes
  BY <1>1, Before
<1>3. PICK doc \in Documented : doc = DocumentOr(documents, d) /\ Promise(doc)
  BY <1>2, DocumentIs
<1>4. ~doc.finished /\ q > doc.cancelThrough /\ ~HasRequest(doc)
  BY <1>3 DEF Request
<1>5. n \in Nat /\ n \in 0..MaxBytes /\ q \in 0..MaxSequence
  BY Constants
<1>6. CASE ~HasLease(doc) /\ pending = <<>> /\ currentBytes + n <= MaxBytes
  <2>1. PICK t : t = Grant(st, d, doc, n)
    OBVIOUS
  <2>2. Sound(t) /\ Exact(t)
    <3>1. DocumentOr(st.documents, d).active.bytes = 0
      BY <1>2, <1>3, <1>6, BytesAre
    <3> QED
      BY <1>2, <1>4, <1>5, <1>6, <2>1, <3>1, GrantKeeps
  <2>3. PICK u : u = PruneClosed(t)
    OBVIOUS
  <2>4. Sound(u) /\ Exact(u)
    BY <2>2, <2>3, PruneKeeps
  <2>5. Becomes(u)
    BY <1>1, <1>3, <1>6, <2>1, <2>3 DEF Request
  <2>6. PICK v : v = [st EXCEPT !.bytes = @ + n, !.next = (@ % MaxLease) + 1]
    OBVIOUS
  <2>7. PICK lease : lease = [id |-> st.next, bytes |-> n]
    OBVIOUS
  <2>8. PICK new : new = [doc EXCEPT !.active = lease, !.last = st.next]
    OBVIOUS
  <2>9. t = Put(v, d, new)
    BY <2>1, <2>6, <2>7, <2>8 DEF Grant
  <2>10. v \in Book /\ v.documents = st.documents /\ v.pending = st.pending /\ v.closed = st.closed
    <3>1. (st.next % MaxLease) + 1 \in 1..MaxLease /\ st.bytes + n \in Nat
      BY <1>2, <1>5, Constants DEF Book
    <3> QED
      BY <1>2, <2>6, <3>1 DEF Book
  <2>11. /\ t.pending = st.pending /\ t.closed = st.closed
         /\ \A k : DocumentOr(t.documents, k) = IF k = d THEN new ELSE DocumentOr(st.documents, k)
    BY <2>9, <2>10, PutIs
  <2>12. /\ HasRequest(new) = HasRequest(doc) /\ new.active = lease /\ new.finished = doc.finished
         /\ new.cancelThrough = doc.cancelThrough
    BY <2>8 DEF HasRequest, Documented
  <2>13. u.pending = <<>>
    BY <1>2, <1>6, <2>2, <2>3, <2>11, PruneIs DEF Sound
  <2>14. Turning(st, u)
    <3>1. Lined(st) => Lined(t)
      BY <1>2, <1>3, <2>11, <2>12 DEF Lined
    <3>2. Serving(t, u)
      BY <2>2, <2>3, PruneServes
    <3>3. ToSet(u.pending) = {}
      BY <2>13 DEF ToSet
    <3> QED
      BY <3>1, <3>2, <3>3 DEF Turning, Serving, InTurn
  <2>15. /\ Lined(st) /\ Tidy(st) =>
              /\ Tidy(u)
              /\ View(st, d) \in {"absent", "idle"} /\ \A r \in Doc : View(st, r) \notin {"waiting", "both"}
              /\ Views(u) \in Shadow!ForgottenOf([Views(st) EXCEPT ![d] = "active"], FinishedIn(Views(st)))
    <3> SUFFICES ASSUME Lined(st), Tidy(st)
                 PROVE  /\ Tidy(u)
                        /\ View(st, d) \in {"absent", "idle"} /\ \A r \in Doc : View(st, r) \notin {"waiting", "both"}
                        /\ Views(u) \in Shadow!ForgottenOf([Views(st) EXCEPT ![d] = "active"], FinishedIn(Views(st)))
      OBVIOUS
    <3>1. Look(new) = "active"
      <4>1. lease.id # 0
        BY <1>2, <2>7, Constants DEF Book
      <4>2. doc.cancelThrough # Everything
        BY <1>3, <1>4, Constants DEF Documented
      <4> QED
        BY <1>4, <2>12, <4>1, <4>2 DEF Look, HasLease, NoLease
    <3>2. Views(t) = [Views(st) EXCEPT ![d] = "active"]
      <4>1. Views(v) = Views(st)
        BY <2>10 DEF Views, View
      <4> QED
        BY <2>9, <2>10, <3>1, <4>1, PutSeen
    <3>3. Remembered(t)
      <4>1. Remembered(v) /\ v.closed = Put(v, d, new).closed /\ ~DocumentOr(v.documents, d).finished
        BY <1>2, <1>3, <1>4, <2>9, <2>10, <2>11 DEF Tidy, Remembered
      <4> QED
        BY <2>9, <2>10, <4>1, PutSeen
    <3>4. \A k \in Doc : Outdated(t, k) => k \in FinishedIn(Views(st))
      BY <1>2, <2>11, OldOnes DEF Tidy, FinishedIn
    <3>5. Views(u) \in Shadow!ForgottenOf(Views(t), FinishedIn(Views(st))) /\ Remembered(u)
      BY <2>2, <2>3, <3>3, <3>4, PruneSeen
    <3>6. Tidy(u)
      BY <2>13, <3>5 DEF Tidy, Held
    <3>7. View(st, d) \in {"absent", "idle"}
      BY <1>2, <1>3, <1>4, <1>6, ViewIs
    <3>8. \A r \in Doc : View(st, r) \notin {"waiting", "both"}
      <4>1. ToSet(st.pending) = {}
        BY <1>2, <1>6 DEF ToSet
      <4> QED
        BY <1>2, <4>1, WaitersSeen
    <3> QED
      BY <3>2, <3>5, <3>6, <3>7, <3>8
  <2>16. LedgerInv' /\ Turning(Ledger, Ledger') /\ Ledger' = u
    BY <1>1, <2>4, <2>5, <2>14, BecomesKeeps
  <2>17. Showing
    BY <1>1, <2>15, <2>16, ViewsAre, ShownRequest DEF Showing
  <2> QED
    BY <2>16, <2>17
<1>7. CASE ~(~HasLease(doc) /\ pending = <<>> /\ currentBytes + n <= MaxBytes)
  <2>1. PICK t : t = [st EXCEPT !.pending = Append(@, d)]
    OBVIOUS
  <2>a. Append(st.pending, d) \in Seq(Doc)
    BY <1>2
  <2>2. t \in Book /\ t.documents = st.documents /\ t.bytes = st.bytes /\ t.closed = st.closed
    BY <1>2, <2>1, <2>a DEF Book
  <2>3. Sound(t) /\ Exact(t)
    BY <1>2, <2>2, OthersDoNotMatter
  <2>4. PICK w : w = [sequence |-> q, bytes |-> n]
    OBVIOUS
  <2>5. w \in [sequence : 0..MaxSequence, bytes : 0..MaxBytes] /\ w.sequence = q
    BY <1>5, <2>4
  <2>6. PICK new : new = [doc EXCEPT !.waiting = w]
    OBVIOUS
  <2>7. /\ new \in Documented /\ new.waiting = w /\ new.active = doc.active /\ new.finished = doc.finished
        /\ new.last = doc.last /\ new.released = doc.released /\ new.cancelThrough = doc.cancelThrough
    BY <2>5, <2>6 DEF Documented
  <2>8. Promise(new)
    BY <1>3, <1>4, <2>5, <2>7 DEF Promise, HasLease, HasRequest
  <2>9. PICK u : u = Put(t, d, new)
    OBVIOUS
  <2>10. t.bytes + DocumentOr(t.documents, d).active.bytes = Owed(t.documents) + new.active.bytes
    BY <1>2, <1>3, <2>2, <2>3, <2>7 DEF Exact
  <2>11. Sound(u) /\ Exact(u)
    BY <1>2, <2>2, <2>3, <2>7, <2>8, <2>9, <2>10, PutKeeps
  <2>12. Becomes(u)
    BY <1>1, <1>3, <1>7, <2>1, <2>4, <2>6, <2>9 DEF Request
  <2>13. Turning(st, u)
    <3> SUFFICES ASSUME Lined(st) PROVE Lined(u) /\ InTurn(st, u)
      BY DEF Turning
    <3>1. /\ u.pending = Append(st.pending, d)
          /\ \A k : DocumentOr(u.documents, k) = IF k = d THEN new ELSE DocumentOr(st.documents, k)
      <4>1. t.pending = Append(st.pending, d)
        BY <1>2, <2>1 DEF Book
      <4> QED
        BY <2>2, <2>9, <4>1, PutIs
    <3>2. InTurn(st, u)
      BY <1>2, <1>3, <2>7, <3>1 DEF InTurn, Lease
    <3>3. d \notin ToSet(st.pending) /\ IsInjective(st.pending)
      BY <1>2, <1>3, <1>4 DEF Lined
    <3>4. ToSet(u.pending) = ToSet(st.pending) \cup {d} /\ IsInjective(u.pending)
      BY <1>2, <3>1, <3>3, AppendElements
    <3>5. HasRequest(new)
      <4>1. w.sequence # 0
        BY <2>5
      <4> QED
        BY <2>7, <4>1 DEF HasRequest, NoRequest
    <3>6. Lined(u)
      BY <3>1, <3>4, <3>5 DEF Lined
    <3> QED
      BY <3>2, <3>6
  <2>14. Lined(st) /\ Tidy(st) =>
           /\ Tidy(u)
           /\ \/ /\ View(st, d) \in {"absent", "idle"} /\ Shadow!Holding(Views(st)) # {}
                 /\ Views(u) = [Views(st) EXCEPT ![d] = "waiting"]
              \/ View(st, d) = "active" /\ Views(u) = [Views(st) EXCEPT ![d] = "both"]
    <3> SUFFICES ASSUME Lined(st), Tidy(st)
                 PROVE  /\ Tidy(u)
                        /\ \/ /\ View(st, d) \in {"absent", "idle"} /\ Shadow!Holding(Views(st)) # {}
                              /\ Views(u) = [Views(st) EXCEPT ![d] = "waiting"]
                           \/ View(st, d) = "active" /\ Views(u) = [Views(st) EXCEPT ![d] = "both"]
      OBVIOUS
    <3>1. HasRequest(new) /\ HasLease(new) = HasLease(doc)
      <4>1. w.sequence # 0
        BY <2>5
      <4> QED
        BY <2>7, <4>1 DEF HasRequest, NoRequest, HasLease
    <3>2. Look(new) = IF HasLease(doc) THEN "both" ELSE "waiting"
      BY <1>4, <2>7, <3>1 DEF Look
    <3>3. Views(u) = [Views(st) EXCEPT ![d] = Look(new)]
      <4>1. Views(t) = Views(st)
        BY <2>2 DEF Views, View
      <4> QED
        BY <2>2, <2>9, <4>1, PutSeen
    <3>4. HoldersOf(st.documents) # {}
      <4>1. CASE HasLease(doc)
        <5>1. d \in DOMAIN st.documents /\ doc = st.documents[d]
          BY <1>2, <1>3, <4>1 DEF DocumentOr, NewDocument, HasLease
        <5> QED
          BY <4>1, <5>1 DEF HoldersOf
      <4>2. CASE pending # <<>>
        BY <1>2, <4>2 DEF Tidy, Held
      <4>3. CASE ~(currentBytes + n <= MaxBytes)
        <5>1. st.bytes # 0
          BY <1>2, <1>5, <4>3, Constants
        <5> QED
          BY <1>2, <5>1, ChargedIsHeld
      <4> QED
        BY <1>7, <4>1, <4>2, <4>3
    <3>5. Shadow!Holding(Views(st)) # {}
      BY <1>2, <3>4, HoldersSeen
    <3>6. Held(u)
      <4>1. PICK r \in Doc : Views(st)[r] \in {"active", "both", "closing"}
        BY <3>5 DEF Shadow!Holding
      <4>2. Views(u)[r] \in {"active", "both", "closing"}
        <5>1. CASE r = d
          <6>1. HasLease(doc)
            BY <1>2, <1>3, <4>1, <5>1, ViewIs, ViewsAre
          <6> QED
            BY <3>2, <3>3, <5>1, <6>1, ViewsAre
        <5>2. CASE r # d
          BY <3>3, <4>1, <5>2, ViewsAre
        <5> QED
          BY <5>1, <5>2
      <4>3. r \in Shadow!Holding(Views(u))
        BY <4>2 DEF Shadow!Holding
      <4> QED
        BY <2>11, <4>3, HoldersSeen DEF Held
    <3>7. Remembered(u)
      <4>1. t.closed = Put(t, d, new).closed /\ Remembered(t) /\ ~DocumentOr(t.documents, d).finished
        BY <1>2, <1>3, <1>4, <2>2, PutIs DEF Tidy, Remembered
      <4> QED
        BY <2>2, <2>9, <4>1, PutSeen
    <3>8. CASE HasLease(doc)
      <4>1. doc.cancelThrough # Everything
        BY <1>3, <1>4, Constants DEF Documented
      <4>2. View(st, d) = "active"
        BY <1>2, <1>3, <1>4, <3>8, <4>1, ViewIs
      <4> QED
        BY <3>2, <3>3, <3>6, <3>7, <3>8, <4>2 DEF Tidy
    <3>9. CASE ~HasLease(doc)
      <4>1. View(st, d) \in {"absent", "idle"}
        BY <1>2, <1>3, <1>4, <3>9, ViewIs
      <4> QED
        BY <3>2, <3>3, <3>5, <3>6, <3>7, <3>9, <4>1 DEF Tidy
    <3> QED
      BY <3>8, <3>9
  <2>15. LedgerInv' /\ Turning(Ledger, Ledger') /\ Ledger' = u
    BY <1>1, <2>11, <2>12, <2>13, BecomesKeeps
  <2>16. Showing
    BY <1>1, <2>14, <2>15, ViewsAre, ShownRequest DEF Showing
  <2> QED
    BY <2>15, <2>16
<1> QED
  BY <1>6, <1>7

LEMMA CancelKeeps ==
  ASSUME LedgerInv, NEW d \in Doc, NEW q \in 1..Everything, Cancel(d, q)
  PROVE  LedgerInv' /\ Turning(Ledger, Ledger') /\ Showing
<1>1. PICK st : st = Ledger
  OBVIOUS
<1>2. /\ Sound(st) /\ Exact(st) /\ st \in Book /\ st.documents = documents /\ st.pending = pending
      /\ st.bytes = currentBytes /\ st.pending \in Seq(Doc) /\ st.bytes \in Nat /\ st.bytes <= MaxBytes
  BY <1>1, Before
<1>3. PICK doc \in Documented : doc = DocumentOr(documents, d) /\ Promise(doc)
  BY <1>2, DocumentIs
<1>4. PICK hit : hit = (HasRequest(doc) /\ doc.waiting.sequence <= q)
  OBVIOUS
<1>5. PICK wait : wait = IF hit THEN NoRequest ELSE doc.waiting
  OBVIOUS
<1>6. PICK mark : mark = IF q > doc.cancelThrough THEN q ELSE doc.cancelThrough
  OBVIOUS
<1>7. PICK left : left = [doc EXCEPT !.waiting = wait, !.cancelThrough = mark]
  OBVIOUS
<1>8. PICK ends \in BOOLEAN : ends = (q = Everything /\ ~HasLease(left) /\ ~HasRequest(left))
  OBVIOUS
<1>9. PICK new : new = [left EXCEPT !.finished = @ \/ ends]
  OBVIOUS
<1>10. PICK queue : queue = IF hit THEN RemoveFirst(st.pending, d) ELSE st.pending
  OBVIOUS
<1>11. PICK t : t = [st EXCEPT !.pending = queue]
  OBVIOUS
<1>12. PICK u : u = Put(t, d, new)
  OBVIOUS
<1>13. PICK v : v = IF ends THEN MarkClosed(u, d) ELSE u
  OBVIOUS
<1>14. PICK w : w = PruneClosed(v)
  OBVIOUS
<1>15. Becomes(w)
  <2>1. left = [doc EXCEPT !.waiting = IF hit THEN NoRequest ELSE @,
                           !.cancelThrough = IF q > @ THEN q ELSE @]
    BY <1>5, <1>6, <1>7 DEF Documented
  <2>2. t = [Ledger EXCEPT !.pending = IF hit THEN RemoveFirst(@, d) ELSE @]
    BY <1>1, <1>2, <1>10, <1>11 DEF Book
  <2> QED
    BY <1>3, <1>4, <1>8, <1>9, <1>12, <1>13, <1>14, <2>1, <2>2, Zenon DEF Cancel
<1>16. /\ wait \in [sequence : 0..MaxSequence, bytes : 0..MaxBytes]
       /\ \/ wait = NoRequest
          \/ wait = doc.waiting /\ ~hit
  BY <1>5, NothingIs DEF Documented
<1>17. mark \in 0..Everything /\ (mark = q \/ mark = doc.cancelThrough)
  BY <1>6, Constants DEF Documented
<1>18. /\ left \in Documented /\ left.waiting = wait /\ left.cancelThrough = mark
       /\ left.active = doc.active /\ left.finished = doc.finished
       /\ left.last = doc.last /\ left.released = doc.released
  BY <1>7, <1>16, <1>17 DEF Documented
<1>19. /\ new \in Documented /\ new.waiting = wait /\ new.cancelThrough = mark
       /\ new.active = doc.active /\ new.finished = (doc.finished \/ ends)
       /\ new.last = doc.last /\ new.released = doc.released
  BY <1>9, <1>18 DEF Documented
<1>20. ends => ~HasLease(new) /\ ~HasRequest(new)
  BY <1>8, <1>18, <1>19 DEF HasLease, HasRequest
<1>21. HasRequest(new) => HasRequest(doc) /\ wait = doc.waiting /\ wait.sequence > mark
  <2>1. ASSUME HasRequest(new)
        PROVE  HasRequest(doc) /\ wait = doc.waiting /\ ~hit
    BY <1>16, <1>19, <2>1 DEF HasRequest
  <2>2. ASSUME HasRequest(doc), ~hit
        PROVE  doc.waiting.sequence > mark
    <3>1. ~(doc.waiting.sequence <= q) /\ doc.waiting.sequence > doc.cancelThrough
      BY <1>3, <1>4, <2>2 DEF Promise
    <3>2. doc.waiting.sequence \in Nat
      BY Constants DEF Documented
    <3> QED
      BY <1>17, <3>1, <3>2, Constants
  <2> QED
    BY <2>1, <2>2
<1>22. Promise(new)
  <2>1. HasLease(new) = HasLease(doc)
    BY <1>19 DEF HasLease
  <2>2. HasLease(new) => new.active.id = new.last /\ new.last # 0 /\ ~new.finished
    BY <1>3, <1>19, <1>20, <2>1 DEF Promise
  <2>3. HasRequest(new) => new.waiting.sequence > new.cancelThrough /\ ~new.finished
    BY <1>3, <1>19, <1>20, <1>21 DEF Promise
  <2>4. new.last # 0 /\ ~HasLease(new) => Contains(new.released, new.last)
    BY <1>3, <1>19, <2>1 DEF Promise
  <2> QED
    BY <2>2, <2>3, <2>4 DEF Promise
<1>23. queue \in Seq(Doc)
  BY <1>2, <1>10, RemoveFirstIs
<1>24. t \in Book /\ t.documents = st.documents /\ t.bytes = st.bytes /\ t.closed = st.closed
  BY <1>2, <1>11, <1>23 DEF Book
<1>25. Sound(t) /\ Exact(t)
  BY <1>2, <1>24, OthersDoNotMatter
<1>26. t.bytes + DocumentOr(t.documents, d).active.bytes = Owed(t.documents) + new.active.bytes
  BY <1>2, <1>3, <1>19, <1>24, <1>25 DEF Exact
<1>27. Sound(u) /\ Exact(u)
  BY <1>2, <1>12, <1>19, <1>22, <1>24, <1>25, <1>26, PutKeeps
<1>28. Sound(v) /\ Exact(v)
  BY <1>13, <1>27, MarkClosedKeeps
<1>29. Sound(w) /\ Exact(w)
  BY <1>14, <1>28, PruneKeeps
<1>30. Turning(st, w)
  <2>1. Serving(st, u)
    <3>1. new.active = Lease(st, d)
      BY <1>2, <1>3, <1>19 DEF Lease
    <3>2. t.pending = queue
      BY <1>2, <1>11 DEF Book
    <3>3. hit => ~HasRequest(new)
      BY <1>5, <1>19 DEF HasRequest
    <3>4. ~hit => (HasRequest(new) <=> HasRequest(DocumentOr(st.documents, d)))
      BY <1>2, <1>3, <1>5, <1>19 DEF HasRequest
    <3> QED
      BY <1>2, <1>10, <1>12, <1>24, <3>1, <3>2, <3>3, <3>4, PutServes
  <2>2. Serving(u, v)
    BY <1>13, <1>27, MarkClosedServes, ServingItself
  <2>3. Serving(v, w)
    BY <1>14, <1>28, PruneServes
  <2>4. Serving(st, w)
    BY <1>2, <1>27, <1>28, <1>29, <2>1, <2>2, <2>3, ServingTransitive
  <2> QED
    BY <2>4 DEF Serving, Serves, Turning
<1>31. /\ Views(u) = [Views(st) EXCEPT ![d] = Look(new)]
       /\ DOMAIN u.documents = DOMAIN st.documents \cup {d} /\ u.closed = st.closed /\ u.pending = queue
       /\ \A k : DocumentOr(u.documents, k) = IF k = d THEN new ELSE DocumentOr(st.documents, k)
  <2>1. Views(t) = Views(st)
    BY <1>24 DEF Views, View
  <2>2. t.pending = queue
    BY <1>2, <1>11 DEF Book
  <2>3. Views(u) = [Views(st) EXCEPT ![d] = Look(new)]
    BY <1>12, <1>24, <2>1, PutSeen
  <2>4. /\ DOMAIN u.documents = DOMAIN t.documents \cup {d} /\ u.closed = t.closed /\ u.pending = t.pending
        /\ \A k : DocumentOr(u.documents, k) = IF k = d THEN new ELSE DocumentOr(t.documents, k)
    BY <1>12, <1>24, PutIs
  <2> QED
    BY <1>24, <2>2, <2>3, <2>4
<1>32. Tidy(st) => Tidy(u)
  <2> SUFFICES ASSUME Tidy(st) PROVE Tidy(u)
    OBVIOUS
  <2>1. Remembered(u)
    <3>1. Remembered(t) /\ t.closed = Put(t, d, new).closed /\ (DocumentOr(t.documents, d).finished => new.finished)
      BY <1>2, <1>3, <1>12, <1>19, <1>24, <1>31 DEF Tidy, Remembered
    <3> QED
      BY <1>12, <1>24, <3>1, PutSeen
  <2>2. Held(u)
    <3> SUFFICES ASSUME queue # <<>> PROVE HoldersOf(u.documents) # {}
      BY <1>31 DEF Held
    <3>1. ToSet(queue) \subseteq ToSet(st.pending)
      <4>1. Embeds(queue, st.pending)
        BY <1>2, <1>10, RemoveFirstIs, EmbedsItself
      <4> QED
        BY <1>2, <1>23, <4>1, EmbedsKeeps
    <3>2. st.pending # <<>>
      BY <1>2, <1>23, <3>1, NoElements
    <3>3. PICK k \in DOMAIN st.documents : HasLease(st.documents[k])
      BY <3>2 DEF Tidy, Held, HoldersOf
    <3>4. k \in DOMAIN u.documents /\ u.documents[k].active = st.documents[k].active
      BY <1>2, <1>3, <1>19, <1>31, <3>3 DEF DocumentOr
    <3> QED
      BY <3>3, <3>4 DEF HoldersOf, HasLease
  <2> QED
    BY <2>1, <2>2 DEF Tidy
<1>33. Views(v) = Views(u) /\ (Tidy(u) => Tidy(v)) /\ (v.closed = u.closed \/
         v.closed = IF Contains(u.closed, d) THEN u.closed ELSE Append(u.closed, d))
  <2>1. CASE ends
    <3>1. d \in DOMAIN u.documents /\ u.documents[d].finished
      BY <1>19, <1>31, <2>1 DEF DocumentOr
    <3>2. v = MarkClosed(u, d)
      BY <1>13, <2>1
    <3>3. Views(v) = Views(u) /\ (Remembered(u) => Remembered(v))
      BY <1>27, <3>1, <3>2, MarkClosedSeen
    <3>4. /\ v.documents = u.documents /\ v.pending = u.pending
          /\ v.closed = IF Contains(u.closed, d) THEN u.closed ELSE Append(u.closed, d)
      BY <1>27, <3>2, MarkClosedIs DEF Sound
    <3> QED
      BY <3>3, <3>4 DEF Tidy, Held
  <2>2. CASE ~ends
    BY <1>13, <2>2
  <2> QED
    BY <2>1, <2>2
<1>34. Tidy(st) => Tidy(w) /\ Views(w) \in Shadow!ForgottenOf(Views(u), FinishedIn(Views(st)))
  <2> SUFFICES ASSUME Tidy(st)
               PROVE  Tidy(w) /\ Views(w) \in Shadow!ForgottenOf(Views(u), FinishedIn(Views(st)))
    OBVIOUS
  <2>1. \A k \in Doc : Outdated(v, k) => k \in FinishedIn(Views(st))
    <3>1. v.closed = st.closed \/ v.closed = IF Contains(st.closed, d) THEN st.closed ELSE Append(st.closed, d)
      BY <1>31, <1>33
    <3> QED
      BY <1>2, <3>1, OldOnes DEF Tidy, FinishedIn
  <2> QED
    BY <1>14, <1>28, <1>32, <1>33, <2>1, PruneSeen DEF Tidy
\* A cancellation of everything.
<1>35. CASE q = Everything
  <2>1. ~HasRequest(new) /\ mark = Everything
    <3>1. HasRequest(doc) => hit
      <4>1. doc.waiting.sequence <= q
        BY <1>35, Constants DEF Documented
      <4> QED
        BY <1>4, <4>1
    <3> QED
      BY <1>5, <1>6, <1>19, <1>35, <3>1, Constants DEF HasRequest, Documented
  <2>2. HasLease(new) = HasLease(doc) /\ HasLease(left) = HasLease(doc) /\ HasRequest(left) = HasRequest(new)
    BY <1>18, <1>19 DEF HasLease, HasRequest
  <2>3. Look(new) = Shadow!Cancelled(View(st, d))
    <3>1. CASE HasLease(doc)
      <4>1. ~new.finished
        BY <1>3, <1>8, <1>19, <2>2, <3>1 DEF Promise
      <4>2. Look(new) = "closing"
        BY <1>19, <2>1, <2>2, <3>1, <4>1 DEF Look
      <4>3. View(st, d) \in {"active", "both", "closing"}
        BY <1>2, <1>3, <3>1, ViewIs
      <4> QED
        BY <4>2, <4>3 DEF Shadow!Cancelled
    <3>2. CASE ~HasLease(doc)
      <4>1. new.finished
        BY <1>8, <1>19, <1>35, <2>1, <2>2, <3>2
      <4>2. Look(new) = "finished"
        BY <4>1 DEF Look
      <4>3. View(st, d) \notin {"active", "both", "closing"}
        BY <1>2, <1>3, <3>2, ViewIs
      <4> QED
        BY <4>2, <4>3 DEF Shadow!Cancelled
    <3> QED
      BY <3>1, <3>2
  <2>4. [Views(st) EXCEPT ![d] = Look(new)] = [Views(st) EXCEPT ![d] = Shadow!Cancelled(@)]
    BY <2>3, ViewsAre
  <2> QED
    BY <1>1, <1>15, <1>29, <1>30, <1>31, <1>34, <2>4, BecomesKeeps, ShownCancel DEF Showing
\* A cancellation of one request.
<1>36. CASE q # Everything
  <2>1. ~ends /\ q < Everything
    <3>1. q \in Int /\ Everything \in Int /\ q <= Everything
      BY Constants
    <3>2. ~ends
      BY <1>8, <1>36
    <3>3. q < Everything
      BY <1>36, <3>1
    <3> QED
      BY <3>2, <3>3
  <2>2. (HasLease(new) <=> HasLease(doc)) /\ (new.finished <=> doc.finished)
    BY <1>19, <2>1 DEF HasLease
  <2>3. CASE View(st, d) = "absent" \/ hit
    <3>1. ~HasRequest(new)
      <4>1. CASE hit
        BY <1>5, <1>19, <4>1 DEF HasRequest
      <4>2. CASE View(st, d) = "absent"
        BY <1>2, <1>3, <1>21, <4>2, ViewIs
      <4> QED
        BY <2>3, <4>1, <4>2
    <3>2. /\ View(st, d) \in {"absent", "waiting", "both"}
          /\ Look(new) = IF View(st, d) = "both" THEN "active" ELSE "idle"
      <4>1. CASE View(st, d) = "absent"
        <5>1. ~HasLease(doc) /\ ~doc.finished
          BY <1>2, <1>3, <4>1, ViewIs
        <5> QED
          BY <2>2, <3>1, <4>1, <5>1 DEF Look
      <4>2. CASE hit
        <5>1. HasRequest(doc) /\ ~doc.finished /\ doc.waiting.sequence > doc.cancelThrough
          BY <1>3, <1>4, <4>2 DEF Promise
        <5>2. mark # Everything
          BY <1>17, <1>36, <5>1, Constants DEF Documented
        <5>3. View(st, d) = IF HasLease(doc) THEN "both" ELSE "waiting"
          BY <1>2, <1>3, <5>1, ViewIs
        <5>4. Look(new) = IF HasLease(doc) THEN "active" ELSE "idle"
          BY <1>19, <2>2, <3>1, <5>1, <5>2 DEF Look
        <5> QED
          BY <5>3, <5>4
      <4> QED
        BY <2>3, <4>1, <4>2
    <3>3. [Views(st) EXCEPT ![d] = Look(new)]
            = [Views(st) EXCEPT ![d] = IF @ = "both" THEN "active" ELSE "idle"]
      BY <3>2, ViewsAre
    <3>4. LedgerInv' /\ Turning(Ledger, Ledger') /\ Ledger' = w
      BY <1>1, <1>15, <1>29, <1>30, BecomesKeeps
    <3>5. Views(st)[d] \in {"absent", "waiting", "both"}
      BY <3>2, ViewsAre
    <3> QED
      BY <1>1, <1>31, <1>34, <3>3, <3>4, <3>5, ShownCancel DEF Showing
  <2>4. CASE View(st, d) # "absent" /\ ~hit
    <3>1. d \in DOMAIN st.documents /\ doc = st.documents[d]
      BY <1>2, <1>3, <2>4 DEF View, DocumentOr
    <3>2. HasRequest(new) = HasRequest(doc)
      BY <1>5, <1>19, <2>4 DEF HasRequest
    <3>3. new.cancelThrough = Everything <=> doc.cancelThrough = Everything
      BY <1>6, <1>19, <2>1, Constants DEF Documented
    <3>4. Look(new) = Look(doc) /\ View(st, d) = Look(doc)
      BY <2>2, <3>1, <3>2, <3>3 DEF Look, View
    <3>5. Views(u) = Views(st)
      BY <1>31, <3>4, ViewsAre DEF Views
    <3>6. LedgerInv' /\ Turning(Ledger, Ledger') /\ Ledger' = w
      BY <1>1, <1>15, <1>29, <1>30, BecomesKeeps
    <3>7. Lined(st) /\ Tidy(st) => Shown
      <4> SUFFICES ASSUME Lined(st), Tidy(st) PROVE Shown
        OBVIOUS
      <4>1. Views(st) \in Shadow!Promoted(Views(st))
        <5>1. Shadow!Holding(Views(st)) = {} => Shadow!Waiting(Views(st)) = {}
          <6>1. Shadow!Holding(Views(st)) = {} => st.pending = <<>>
            BY <1>2, HoldersSeen DEF Tidy, Held
          <6> QED
            BY <1>2, <6>1, WaitersSeen DEF ToSet
        <5>2. PICK G \in SUBSET Shadow!Waiting(Views(st)) : G = {}
          OBVIOUS
        <5>3. Views(st) = [s \in Doc |-> IF s \in G THEN "active" ELSE Views(st)[s]]
          BY <5>2 DEF Views
        <5>4. Shadow!Holding(Views(st)) = {} /\ Shadow!Waiting(Views(st)) # {} => G # {}
          BY <5>1
        <5> QED
          BY <5>3, <5>4 DEF Shadow!Promoted
      <4>0. PICK S \in SUBSET Doc : S = {}
        OBVIOUS
      <4>2. Views(st) = [s \in Doc |-> IF s \in S /\ Views(st)[s] # "absent" THEN "finished" ELSE Views(st)[s]]
        BY <4>0 DEF Views
      <4>3. Views(w) \in Shadow!ForgottenOf(Views(st), Doc)
        BY <1>34, <3>5 DEF Shadow!ForgottenOf, FinishedIn
      <4>4. PICK x : x = Views(st)
        OBVIOUS
      <4>5. PICK y : y = Views(w)
        OBVIOUS
      <4>6. x = Views(Ledger) /\ y = Views(Ledger')
        BY <1>1, <3>6, <4>4, <4>5
      <4>7. x \in Shadow!Promoted([s \in Doc |-> IF s \in S /\ x[s] # "absent" THEN "finished" ELSE x[s]])
        BY <4>1, <4>2, <4>4
      <4>8. y \in Shadow!ForgottenOf(x, Doc)
        BY <4>3, <4>4, <4>5
      <4> QED
        BY <4>6, <4>7, <4>8, ShownDiscard
    <3> QED
      BY <1>1, <1>34, <3>6, <3>7 DEF Showing
  <2> QED
    BY <2>3, <2>4
<1> QED
  BY <1>35, <1>36

LEMMA ReleaseKeeps ==
  ASSUME LedgerInv, NEW d \in Doc, NEW id \in 1..MaxLease, Release(d, id)
  PROVE  LedgerInv' /\ Turning(Ledger, Ledger') /\ Showing
<1>1. PICK st : st = Ledger
  OBVIOUS
<1>2. /\ Sound(st) /\ Exact(st) /\ st \in Book /\ st.documents = documents /\ st.pending = pending
      /\ st.pending \in Seq(Doc)
  BY <1>1, Before
<1>3. d \in DOMAIN documents /\ documents[d].active.id = id /\ DocumentOr(documents, d) = documents[d]
  BY DEF Release, Known, DocumentOr
<1>4. PICK doc \in Documented : doc = documents[d] /\ Promise(doc) /\ doc = DocumentOr(st.documents, d)
  BY <1>2, <1>3, DocumentIs
<1>5. HasLease(doc)
  BY <1>3, <1>4 DEF HasLease, NoLease
<1>6. PICK kept \in Documented :
        /\ kept = RecordRelease(doc) /\ kept = [doc EXCEPT !.released = kept.released]
        /\ Contains(kept.released, doc.last)
  BY <1>4, <1>5, RecordReleaseIs
<1>7. /\ kept.waiting = doc.waiting /\ kept.finished = doc.finished /\ kept.last = doc.last
      /\ kept.cancelThrough = doc.cancelThrough
  BY <1>6 DEF Documented
<1>8. PICK left : left = [kept EXCEPT !.active = NoLease]
  OBVIOUS
<1>9. /\ left \in Documented /\ left.active = NoLease /\ left.waiting = doc.waiting
      /\ left.finished = doc.finished /\ left.last = doc.last /\ left.released = kept.released
      /\ left.cancelThrough = doc.cancelThrough
  BY <1>7, <1>8, NothingIs DEF Documented
<1>10. PICK ends \in BOOLEAN : ends = (left.cancelThrough = Everything /\ ~HasRequest(left))
  OBVIOUS
<1>11. PICK new : new = [left EXCEPT !.finished = @ \/ ends]
  OBVIOUS
<1>12. /\ new \in Documented /\ new.active = NoLease /\ new.waiting = doc.waiting
       /\ new.finished = (doc.finished \/ ends) /\ new.last = doc.last
       /\ new.released = kept.released /\ new.cancelThrough = doc.cancelThrough
  BY <1>9, <1>11 DEF Documented
<1>13. HasRequest(new) = HasRequest(doc) /\ HasRequest(left) = HasRequest(doc) /\ ~HasLease(new)
  BY <1>9, <1>12 DEF HasRequest, HasLease
<1>14. Promise(new)
  BY <1>4, <1>6, <1>10, <1>12, <1>13 DEF Promise
<1>15. PICK t : t = [st EXCEPT !.pending = st.pending, !.bytes = @ - doc.active.bytes]
  OBVIOUS
<1>16. PICK u : u = Put(t, d, new)
  OBVIOUS
<1>17. Sound(u) /\ Exact(u)
  BY <1>2, <1>4, <1>12, <1>13, <1>14, <1>15, <1>16, GivingBackKeeps
<1>18. PICK v : v = IF ends THEN MarkClosed(u, d) ELSE u
  OBVIOUS
<1>19. Sound(v) /\ Exact(v)
  BY <1>17, <1>18, MarkClosedKeeps
<1>20. PICK w : w = PruneClosed(v)
  OBVIOUS
<1>21. Sound(w) /\ Exact(w)
  BY <1>19, <1>20, PruneKeeps
<1>22. PICK x : x = Pump(w)
  OBVIOUS
<1>23. Sound(x) /\ Exact(x)
  BY <1>21, <1>22, PumpKeeps
<1>24. Becomes(x)
  <2>1. t = [Ledger EXCEPT !.bytes = @ - doc.active.bytes]
    BY <1>1, <1>2, <1>15 DEF Book
  <2> QED
    BY <1>4, <1>6, <1>8, <1>10, <1>11, <1>16, <1>18, <1>20, <1>22, <2>1, Zenon DEF Release
<1>25. t \in Book /\ t.documents = st.documents /\ t.pending = st.pending /\ t.closed = st.closed
  <2>1. st.bytes - doc.active.bytes \in Nat
    BY <1>2, <1>4, OwedCovers
  <2> QED
    BY <1>2, <1>15, <2>1 DEF Book
<1>26. Serving(st, w)
  <2>1. Serving(st, u)
    BY <1>2, <1>4, <1>12, <1>13, <1>16, <1>25, PutServes
  <2>2. Serving(u, v)
    BY <1>17, <1>18, MarkClosedServes, ServingItself
  <2>3. Serving(v, w)
    BY <1>19, <1>20, PruneServes
  <2> QED
    BY <1>2, <1>17, <1>19, <1>21, <2>1, <2>2, <2>3, ServingTransitive
<1>27. Turning(st, x)
  <2>1. Serving(w, x)
    BY <1>21, <1>22, PumpServes
  <2>2. Serving(st, x)
    BY <1>2, <1>21, <1>23, <1>26, <2>1, ServingTransitive
  <2> QED
    BY <2>2 DEF Serving, Serves, Turning
<1>28. /\ Views(u) = [Views(st) EXCEPT ![d] = Look(new)]
       /\ d \in DOMAIN u.documents /\ u.documents[d] = new /\ u.closed = st.closed
  <2>1. Views(t) = Views(st)
    BY <1>25 DEF Views, View
  <2>2. d \in DOMAIN u.documents /\ DocumentOr(u.documents, d) = new /\ u.closed = st.closed
    BY <1>16, <1>25, PutIs
  <2> QED
    BY <1>16, <1>25, <2>1, <2>2, PutSeen DEF DocumentOr
<1>29. Look(new) = Shadow!Returned(View(st, d)) /\ View(st, d) \in {"active", "both", "closing"}
  <2>1. View(st, d) \in {"active", "both", "closing"} /\ ~doc.finished
    BY <1>2, <1>4, <1>5, ViewIs DEF Promise
  <2>2. CASE View(st, d) = "active"
    <3>1. ~HasRequest(doc) /\ doc.cancelThrough # Everything
      BY <1>2, <1>4, <2>2, ViewIs
    <3>2. Look(new) = "idle"
      BY <1>9, <1>10, <1>12, <1>13, <2>1, <3>1 DEF Look
    <3> QED
      BY <2>2, <3>2 DEF Shadow!Returned
  <2>3. CASE View(st, d) = "both"
    <3>1. HasRequest(doc)
      BY <1>2, <1>4, <2>3, ViewIs
    <3>2. Look(new) = "waiting"
      BY <1>10, <1>12, <1>13, <2>1, <3>1 DEF Look
    <3> QED
      BY <2>3, <3>2 DEF Shadow!Returned
  <2>4. CASE View(st, d) = "closing"
    <3>1. ~HasRequest(doc) /\ doc.cancelThrough = Everything
      BY <1>2, <1>4, <2>4, ViewIs
    <3>2. Look(new) = "finished"
      BY <1>9, <1>10, <1>12, <1>13, <3>1 DEF Look
    <3> QED
      BY <2>4, <3>2 DEF Shadow!Returned
  <2> QED
    BY <2>1, <2>2, <2>3, <2>4
<1>30. /\ Views(v) = Views(u) /\ (Remembered(u) => Remembered(v))
       /\ \/ v.closed = st.closed
          \/ v.closed = IF Contains(st.closed, d) THEN st.closed ELSE Append(st.closed, d)
  <2>1. CASE ends
    <3>1. v = MarkClosed(u, d) /\ u.documents[d].finished
      BY <1>12, <1>18, <1>28, <2>1
    <3>2. v.closed = IF Contains(u.closed, d) THEN u.closed ELSE Append(u.closed, d)
      BY <1>17, <3>1, MarkClosedIs DEF Sound
    <3> QED
      BY <1>17, <1>28, <3>1, <3>2, MarkClosedSeen
  <2>2. CASE ~ends
    BY <1>18, <1>28, <2>2
  <2> QED
    BY <2>1, <2>2
<1>31. Lined(st) /\ Tidy(st) =>
         /\ Tidy(x)
         /\ \E p \in Shadow!Promoted(Views(u)) : Views(x) \in Shadow!ForgottenOf(p, FinishedIn(Views(st)))
  <2> SUFFICES ASSUME Lined(st), Tidy(st)
               PROVE  /\ Tidy(x)
                      /\ \E p \in Shadow!Promoted(Views(u)) : Views(x) \in Shadow!ForgottenOf(p, FinishedIn(Views(st)))
    OBVIOUS
  <2>1. Remembered(u)
    <3>1. Remembered(t) /\ t.closed = Put(t, d, new).closed /\ (DocumentOr(t.documents, d).finished => new.finished)
      BY <1>4, <1>12, <1>16, <1>25, <1>28 DEF Tidy, Remembered
    <3> QED
      BY <1>16, <1>25, <3>1, PutSeen
  <2>2. \A k \in Doc : Outdated(v, k) => k \in FinishedIn(Views(st))
    BY <1>2, <1>30, OldOnes DEF Tidy, FinishedIn
  <2>3. Views(w) \in Shadow!ForgottenOf(Views(u), FinishedIn(Views(st))) /\ Remembered(w)
    BY <1>19, <1>20, <1>30, <2>1, <2>2, PruneSeen
  <2>4. Lined(w)
    BY <1>26 DEF Serving
  <2>5. Views(x) \in Shadow!Promoted(Views(w)) /\ Tidy(x)
    BY <1>21, <1>22, <2>3, <2>4, PumpSeen DEF Tidy
  <2>6. FinishedIn(Views(st)) \in SUBSET Doc
    BY DEF FinishedIn
  <2> QED
    BY <2>3, <2>5, <2>6, ViewsAre, Commute
<1>32. LedgerInv' /\ Turning(Ledger, Ledger') /\ Ledger' = x
  BY <1>1, <1>23, <1>24, <1>27, BecomesKeeps
<1>33. d \in Shadow!Holding(Views(st)) /\ Views(u) = [Views(st) EXCEPT ![d] = Shadow!Returned(@)]
  BY <1>28, <1>29, ViewsAre DEF Shadow!Holding
<1>34. Showing
  BY <1>1, <1>31, <1>32, <1>33, ShownReturn DEF Showing
<1> QED
  BY <1>32, <1>34

LEMMA FinishKeeps ==
  ASSUME LedgerInv, NEW d \in Doc, Finish(d)
  PROVE  LedgerInv' /\ Turning(Ledger, Ledger') /\ Showing
<1>1. PICK st : st = Ledger
  OBVIOUS
<1>2. Sound(st) /\ Exact(st)
  BY <1>1, Before
<1>3. PICK t : t = Finished(st, d) /\ Sound(t) /\ Exact(t) /\ Serving(st, t)
  BY <1>2, FinishedKeeps
<1>4. PICK u : u = Pump(t) /\ Sound(u) /\ Exact(u) /\ Serving(t, u)
  BY <1>3, PumpKeeps, PumpServes
<1>5. PICK v : v = PruneClosed(u) /\ Sound(v) /\ Exact(v) /\ Serving(u, v)
  BY <1>4, PruneKeeps, PruneServes
<1>6. Becomes(v)
  BY <1>1, <1>3, <1>4, <1>5 DEF Finish
<1>7. Turning(st, v)
  <2>1. Serving(st, u)
    BY <1>2, <1>3, <1>4, ServingTransitive
  <2>2. Serving(st, v)
    BY <1>2, <1>4, <1>5, <2>1, ServingTransitive
  <2> QED
    BY <2>2 DEF Serving, Serves, Turning
<1>8. Lined(st) /\ Tidy(st) =>
        /\ Tidy(v)
        /\ \E p \in Shadow!Promoted([Views(st) EXCEPT ![d] = "finished"]) :
             Views(v) \in Shadow!ForgottenOf(p, FinishedIn(Views(st)))
  <2> SUFFICES ASSUME Lined(st), Tidy(st)
               PROVE  /\ Tidy(v)
                      /\ \E p \in Shadow!Promoted([Views(st) EXCEPT ![d] = "finished"]) :
                           Views(v) \in Shadow!ForgottenOf(p, FinishedIn(Views(st)))
    OBVIOUS
  <2>1. /\ Views(t) = [Views(st) EXCEPT ![d] = "finished"] /\ Remembered(t)
        /\ t.closed = IF Contains(st.closed, d) THEN st.closed ELSE Append(st.closed, d)
    BY <1>2, <1>3, FinishedSeen DEF Tidy
  <2>2. Views(u) \in Shadow!Promoted(Views(t)) /\ Tidy(u) /\ u.closed = t.closed
    BY <1>3, <1>4, <2>1, PumpSeen DEF Serving, Tidy
  <2>3. \A k \in Doc : Outdated(u, k) => k \in FinishedIn(Views(st))
    BY <1>2, <2>1, <2>2, OldOnes DEF Tidy, FinishedIn
  <2>4. Views(v) \in Shadow!ForgottenOf(Views(u), FinishedIn(Views(st))) /\ Tidy(v)
    BY <1>4, <1>5, <2>2, <2>3, PruneSeen DEF Tidy
  <2> QED
    BY <2>1, <2>2, <2>4
<1>9. LedgerInv' /\ Turning(Ledger, Ledger') /\ Ledger' = v
  BY <1>1, <1>5, <1>6, <1>7, BecomesKeeps
<1>10. Views(st)[d] # "finished"
  <2>1. ~DocumentOr(st.documents, d).finished
    BY <1>1 DEF Finish, Ledger
  <2> QED
    BY <1>2, <2>1, ViewIs, ViewsAre
<1>11. Showing
  BY <1>1, <1>8, <1>9, <1>10, ShownReturn DEF Showing
<1> QED
  BY <1>9, <1>11

LEMMA DiscardOwnerKeeps ==
  ASSUME LedgerInv, NEW o \in Owner, DiscardOwner(o)
  PROVE  LedgerInv' /\ Turning(Ledger, Ledger') /\ Showing
<1>1. PICK st : st = Ledger
  OBVIOUS
<1>2. Sound(st) /\ Exact(st) /\ st.documents = documents /\ documents \in Documents
  BY <1>1, Before DEF Book
<1>3. PICK S : S = {d \in DOMAIN documents : OwnerOf[d] = o}
  OBVIOUS
<1>4. S \subseteq Doc /\ Cardinality(S) \in Nat
  <2>1. S \subseteq Doc
    BY <1>2, <1>3, DocumentsAre
  <2> QED
    BY <2>1, Constants, FS_Subset, FS_CardinalityType
<1>5. PICK order \in SetToSeqs(S) : Becomes(PruneClosed(Pump(Discarded(st, order))))
  BY <1>1, <1>3, Zenon DEF DiscardOwner, Discarded
<1>6. order \in Seq(Doc) /\ ToSet(order) \subseteq S
  <2>1. order \in [1..Cardinality(S) -> S]
    BY DEF SetToSeqs
  <2> QED
    BY <1>4, <2>1 DEF ToSet
<1>7. PICK t : t = Discarded(st, order)
  OBVIOUS
<1>8. Sound(t) /\ Exact(t) /\ Serving(st, t)
  BY <1>2, <1>6, <1>7, DiscardingKeeps
<1>9. PICK u : u = Pump(t) /\ Sound(u) /\ Exact(u) /\ Serving(t, u)
  BY <1>8, PumpKeeps, PumpServes
<1>10. PICK v : v = PruneClosed(u) /\ Sound(v) /\ Exact(v) /\ Serving(u, v)
  BY <1>9, PruneKeeps, PruneServes
<1>11. Becomes(v)
  BY <1>5, <1>7, <1>9, <1>10
<1>12. Turning(st, v)
  <2>1. Serving(st, u)
    BY <1>2, <1>8, <1>9, ServingTransitive
  <2>2. Serving(st, v)
    BY <1>2, <1>9, <1>10, <2>1, ServingTransitive
  <2> QED
    BY <2>2 DEF Serving, Serves, Turning
<1>13. LedgerInv' /\ Turning(Ledger, Ledger') /\ Ledger' = v
  BY <1>1, <1>10, <1>11, <1>12, BecomesKeeps
<1>14. Lined(st) /\ Tidy(st) =>
         /\ Tidy(v)
         /\ Views(u) \in Shadow!Promoted([s \in Doc |->
              IF s \in ToSet(order) /\ Views(st)[s] # "absent" THEN "finished" ELSE Views(st)[s]])
         /\ Views(v) \in Shadow!ForgottenOf(Views(u), Doc)
  <2> SUFFICES ASSUME Lined(st), Tidy(st)
               PROVE  /\ Tidy(v)
                      /\ Views(u) \in Shadow!Promoted([s \in Doc |->
                           IF s \in ToSet(order) /\ Views(st)[s] # "absent" THEN "finished" ELSE Views(st)[s]])
                      /\ Views(v) \in Shadow!ForgottenOf(Views(u), Doc)
    OBVIOUS
  <2>1. /\ Views(t) = [s \in Doc |-> IF s \in ToSet(order) THEN "finished" ELSE Views(st)[s]]
        /\ Remembered(t)
    BY <1>2, <1>6, <1>7, DiscardingSeen DEF Tidy
  <2>2. \A s \in Doc : s \in ToSet(order) => Views(st)[s] # "absent"
    <3> SUFFICES ASSUME NEW s \in Doc, s \in DOMAIN st.documents PROVE View(st, s) # "absent"
      BY <1>2, <1>3, <1>6, ViewsAre
    <3> QED
      BY DEF View, Look
  <2>3. Views(t) = [s \in Doc |-> IF s \in ToSet(order) /\ Views(st)[s] # "absent" THEN "finished" ELSE Views(st)[s]]
    BY <2>1, <2>2
  <2>4. Views(u) \in Shadow!Promoted(Views(t)) /\ Tidy(u)
    BY <1>8, <1>9, <2>1, PumpSeen DEF Serving, Tidy
  <2>5. Views(v) \in Shadow!ForgottenOf(Views(u), Doc) /\ Tidy(v)
    BY <1>9, <1>10, <2>4, PruneSeen DEF Tidy
  <2> QED
    BY <2>3, <2>4, <2>5
<1>15. ToSet(order) \in SUBSET Doc
  BY <1>4, <1>6
<1>16. Lined(st) /\ Tidy(st) => Shown
  <2>1. PICK x : x = Views(st)
    OBVIOUS
  <2>2. PICK y : y = Views(v)
    OBVIOUS
  <2>3. x = Views(Ledger) /\ y = Views(Ledger')
    BY <1>1, <1>13, <2>1, <2>2
  <2> QED
    BY <1>14, <1>15, <2>1, <2>2, <2>3, ShownDiscard
<1>17. Showing
  BY <1>1, <1>13, <1>14, <1>16 DEF Showing
<1> QED
  BY <1>13, <1>17

-----------------------------------------------------------------------------
(* The theorems *)

LEMMA InitialLedger == Init => LedgerInv
<1> SUFFICES ASSUME Init PROVE LedgerInv
  OBVIOUS
<1>1. PICK st : st = Ledger
  OBVIOUS
<1>2. /\ st = [documents |-> <<>>, pending |-> <<>>, closed |-> <<>>, bytes |-> 0, next |-> 1]
      /\ DOMAIN st.documents = {}
  BY <1>1 DEF Init, Ledger
<1>3. st.documents \in Documents
  <2>1. st.documents = [d \in {} |-> <<>>]
    BY <1>2
  <2>2. st.documents \in [DOMAIN st.documents -> Documented]
    BY <1>2, <2>1
  <2> QED
    BY <1>2, <2>2, DocumentsAre
<1>4. st \in Book
  BY <1>2, <1>3, Constants DEF Book
<1>5. HoldersOf(st.documents) = {}
  BY <1>2 DEF HoldersOf
<1>6. Owed(st.documents) = 0
  BY <1>5, TotalFirst, FS_EmptySet DEF Owed
<1> QED
  BY <1>1, <1>2, <1>4, <1>6, Constants DEF LedgerInv, Sound, Exact

LEMMA InitialQueue == Init => Lined(Ledger)
<1> SUFFICES ASSUME Init PROVE Lined(Ledger)
  OBVIOUS
<1>1. Ledger.pending = <<>> /\ DOMAIN Ledger.documents = {}
  BY DEF Init, Ledger
<1>2. \A d \in Doc : ~HasRequest(DocumentOr(Ledger.documents, d))
  BY <1>1 DEF DocumentOr, NewDocument, HasRequest
<1> QED
  BY <1>1, <1>2 DEF Lined, ToSet, IsInjective

LEMMA InitialBooks == Init => Tidy(Ledger)
  BY DEF Init, Ledger, Tidy, Remembered, Held, Contains

LEMMA StepKeeps ==
  ASSUME LedgerInv, [Next]_vars
  PROVE  LedgerInv' /\ Turning(Ledger, Ledger') /\ Showing
<1>1. ASSUME NEW d \in Doc, NEW q \in 1..MaxSequence, NEW n \in Sizes, Request(d, q, n)
      PROVE  LedgerInv' /\ Turning(Ledger, Ledger') /\ Showing
  BY <1>1, RequestKeeps
<1>2. ASSUME NEW d \in Doc, NEW q \in 1..Everything, Cancel(d, q)
      PROVE  LedgerInv' /\ Turning(Ledger, Ledger') /\ Showing
  BY <1>2, CancelKeeps
<1>3. ASSUME NEW d \in Doc, NEW id \in 1..MaxLease, Release(d, id)
      PROVE  LedgerInv' /\ Turning(Ledger, Ledger') /\ Showing
  BY <1>3, ReleaseKeeps
<1>4. ASSUME NEW d \in Doc, Finish(d)
      PROVE  LedgerInv' /\ Turning(Ledger, Ledger') /\ Showing
  BY <1>4, FinishKeeps
<1>5. ASSUME NEW o \in Owner, DiscardOwner(o)
      PROVE  LedgerInv' /\ Turning(Ledger, Ledger') /\ Showing
  BY <1>5, DiscardOwnerKeeps
<1>6. CASE UNCHANGED vars
  <2>1. Ledger' = Ledger
    BY <1>6 DEF vars, Ledger
  <2> QED
    BY <2>1 DEF LedgerInv, Turning, InTurn, Showing, Shown
<1> QED
  BY <1>1, <1>2, <1>3, <1>4, <1>5, <1>6 DEF Next

QueueInv == Lined(Ledger) /\ Tidy(Ledger)

LEMMA LedgerInductive == Spec => [](LedgerInv /\ QueueInv)
<1>1. Init => LedgerInv /\ QueueInv
  BY InitialLedger, InitialQueue, InitialBooks DEF QueueInv
<1>2. LedgerInv /\ QueueInv /\ [Next]_vars => LedgerInv' /\ QueueInv'
  BY StepKeeps DEF QueueInv, Turning, Showing
<1> QED
  BY <1>1, <1>2, PTL DEF Spec

(***************************************************************************)
(* Every field of the ledger stays in the range its type allows: the       *)
(* charge is never negative and a lease id never zero, at whatever length  *)
(* of the queues and however often the ids have started again.             *)
(***************************************************************************)
THEOREM LedgerTypes == Spec => []TypeOK
<1>1. LedgerInv => TypeOK
  <2> SUFFICES ASSUME LedgerInv PROVE TypeOK
    OBVIOUS
  <2>1. /\ documents \in Documents /\ pending \in Seq(Doc) /\ closedOrder \in Seq(Doc)
        /\ currentBytes \in Nat /\ nextLease \in 1..MaxLease
    BY Before DEF Book
  <2>2. DOMAIN documents \subseteq Doc /\ documents \in [DOMAIN documents -> Documented]
    BY <2>1, DocumentsAre
  <2> QED
    BY <2>1, <2>2 DEF TypeOK, Documented
<1> QED
  BY LedgerInductive, <1>1, PTL

(***************************************************************************)
(* The ledger is exact: the charge is the sum of the active leases and     *)
(* never over the budget, a cancelled request is never granted, and a      *)
(* release whose answer was lost may be repeated, in every order in which  *)
(* requests, cancellations, releases and the ends of windows arrive.       *)
(***************************************************************************)
THEOREM LedgerHolds == Spec => []LedgerIsExact
<1>1. LedgerInv => LedgerIsExact
  <2> SUFFICES ASSUME LedgerInv PROVE LedgerIsExact
    OBVIOUS
  <2>1. /\ currentBytes = Owed(documents) /\ currentBytes <= MaxBytes
        /\ \A d \in DOMAIN documents : Promise(documents[d])
    BY Before DEF Exact, Sound
  <2>2. CreditExact
    <3>1. Owed(documents) = MapThenSumSet(LAMBDA d : documents[d].active.bytes, Holders)
      BY DEF Owed, Total, HoldersOf, Holders
    <3> QED
      BY <2>1, <3>1 DEF CreditExact
  <2>3. FencedNeverGranted
    BY <2>1 DEF FencedNeverGranted, Promise
  <2>4. LostAckSafe
    BY <2>1 DEF LostAckSafe, Promise
  <2> QED
    BY <2>2, <2>3, <2>4 DEF LedgerIsExact
<1> QED
  BY LedgerInductive, <1>1, PTL

(***************************************************************************)
(* Strict first come, first served: whichever call gives a document its    *)
(* lease, and however many it serves, nobody who came before that document *)
(* goes on waiting.                                                        *)
(***************************************************************************)
THEOREM NobodyIsBypassed == Spec => NoBypass
<1>1. ASSUME LedgerInv, QueueInv, [Next]_vars, NEW d \in Doc, Granted(d), NEW i \in DOMAIN pending,
             \A j \in 1..i : pending[j] # d
      PROVE  ~Contains(pending', pending[i])
  <2>1. PICK a : a = Ledger
    OBVIOUS
  <2>2. PICK b : b = Ledger'
    OBVIOUS
  <2>3. LedgerInv' /\ Lined(a) /\ InTurn(a, b)
    BY <1>1, <2>1, <2>2, StepKeeps DEF QueueInv, Turning
  <2>4. /\ a.documents = documents /\ a.pending = pending /\ pending \in Seq(Doc)
        /\ b.documents = documents' /\ b.pending = pending' /\ pending' \in Seq(Doc)
    BY <1>1, <2>1, <2>2, <2>3 DEF LedgerInv, Sound, Book, Ledger
  <2>5. /\ DOMAIN pending = 1..Len(pending) /\ Len(pending) \in Nat
        /\ DOMAIN pending' = 1..Len(pending')
    BY <2>4, LenProperties
  <2>6. Lease(b, d) # NoLease /\ Lease(b, d) # Lease(a, d)
    BY <1>1, <2>4 DEF Granted, Holders, HasLease, Lease, DocumentOr, NewDocument
  <2>7. pending[i] # d
    BY <1>1, <2>5
  <2>8. ~Ahead(a.pending, d, pending[i])
    BY <1>1, <2>3, <2>4, <2>5 DEF Ahead, Lined, IsInjective
  <2>9. pending[i] \notin ToSet(b.pending)
    BY <2>3, <2>6, <2>7, <2>8 DEF InTurn
  <2> QED
    BY <2>4, <2>5, <2>9 DEF Contains, ToSet
<1>2. LedgerInv /\ QueueInv /\ [Next]_vars =>
        \A d \in Doc : Granted(d) =>
          \A i \in DOMAIN pending : (\A j \in 1..i : pending[j] # d) => ~Contains(pending', pending[i])
  BY <1>1
<1>3. QED
  BY LedgerInductive, <1>2, PTL DEF Spec, NoBypass

(***************************************************************************)
(* The ledger implements what the session manager relies on: whatever a    *)
(* call does to credits, queue and tombstones, the manager's view of the   *)
(* documents changes the way its own specification says.  In particular,   *)
(* a request never waits for nobody, and only what has finished is         *)
(* forgotten.                                                              *)
(***************************************************************************)
THEOREM LedgerImplementsShadow == Spec => ShadowImplemented
<1>1. Init => Shadow!ShadowInit
  BY DEF Init, Shadow!ShadowInit, ShadowOf, Known
<1>2. ASSUME LedgerInv, QueueInv, [Next]_vars
      PROVE  [Shadow!ShadowNext]_([d \in Doc |-> ShadowOf(d)])
  <2>1. Shown
    BY <1>2, StepKeeps DEF QueueInv, Showing
  <2> QED
    BY <2>1, ShadowIs DEF Shown
<1> QED
  BY LedgerInductive, <1>1, <1>2, PTL DEF Spec, ShadowImplemented, Shadow!ShadowSpec
=============================================================================
