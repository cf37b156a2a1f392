----------------------------- MODULE DataLemmas -----------------------------
(***************************************************************************)
(* Facts about least elements and sequences that several proofs use.       *)
(***************************************************************************)
EXTENDS Integers, Sequences, FiniteSets, SequencesExt, FiniteSetsExt, TLAPS,
        SequenceTheorems, WellFoundedInduction

LEMMA LessInRelation == \A x, y \in Nat : x < y => <<x, y>> \in OpToRel(<, Nat)
  BY Zenon DEF OpToRel

\* A set of numbers that is not empty has a least one.
LEMMA MinOfNats ==
  ASSUME NEW T \in SUBSET Nat, T # {}
  PROVE  Min(T) \in T /\ \A y \in T : Min(T) <= y
<1>1. PICK x \in T : \A y \in T : ~(<<y, x>> \in OpToRel(<, Nat))
  BY NatLessThanWellFounded, WFMin
<1>2. \A y \in T : ~(y < x)
  BY <1>1, LessInRelation, Zenon
<1>4. \A y \in T : x <= y
  BY <1>2
<1>3. x \in T
  BY Zenon
<1> QED BY <1>4, <1>3 DEF Min

LEMMA MinOfTwo ==
  ASSUME NEW a \in Nat, NEW b \in Nat
  PROVE  Min({a, b}) = IF a <= b THEN a ELSE b
<1>1. Min({a, b}) \in {a, b} /\ Min({a, b}) <= a /\ Min({a, b}) <= b
  <2>1. {a, b} \in SUBSET Nat /\ {a, b} # {}
    OBVIOUS
  <2> QED BY <2>1, MinOfNats
<1> QED BY <1>1

LEMMA MaxOfTwo ==
  ASSUME NEW a \in Nat, NEW b \in Nat
  PROVE  Max({a, b}) = IF a >= b THEN a ELSE b
<1>1. \E x \in {a, b} : \A y \in {a, b} : x >= y
  <2>1. CASE a >= b
    BY <2>1
  <2>2. CASE ~(a >= b)
    BY <2>2
  <2> QED BY <2>1, <2>2
<1>2. Max({a, b}) \in {a, b} /\ \A y \in {a, b} : Max({a, b}) >= y
  BY <1>1 DEF Max
<1> QED BY <1>2

-----------------------------------------------------------------------------

\* The place where an element is found first holds that element.
LEMMA FirstIndex ==
  ASSUME NEW S, NEW seq \in Seq(S), NEW e, \E i \in 1 .. Len(seq) : seq[i] = e
  PROVE  /\ SelectInSeq(seq, LAMBDA v : v = e) \in 1 .. Len(seq)
         /\ seq[SelectInSeq(seq, LAMBDA v : v = e)] = e
<1> DEFINE I == {i \in 1 .. Len(seq) : seq[i] = e}
<1>1. I \in SUBSET Nat /\ I # {}
  OBVIOUS
<1>2. Min(I) \in I
  BY <1>1, MinOfNats
<1>3. SelectInSeq(seq, LAMBDA v : v = e) = Min(I)
  BY <1>1 DEF SelectInSeq
<1> QED BY <1>2, <1>3

\* What is left of a sequence when one of its elements is taken out.
LEMMA RemovedAt ==
  ASSUME NEW S, NEW seq \in Seq(S), NEW k \in 1 .. Len(seq)
  PROVE  /\ RemoveAt(seq, k) \in Seq(S) /\ Len(RemoveAt(seq, k)) = Len(seq) - 1
         /\ \A i \in 1 .. Len(RemoveAt(seq, k)) :
              RemoveAt(seq, k)[i] = IF i < k THEN seq[i] ELSE seq[i + 1]
<1> DEFINE head == SubSeq(seq, 1, k - 1)
           tail == SubSeq(seq, k + 1, Len(seq))
           rest == RemoveAt(seq, k)
<1>1. /\ head \in Seq(S) /\ Len(head) = k - 1
      /\ \A i \in 1 .. k - 1 : head[i] = seq[i]
  OBVIOUS
<1>2. /\ tail \in Seq(S) /\ Len(tail) = Len(seq) - k
      /\ \A i \in 1 .. Len(seq) - k : tail[i] = seq[k + i]
  OBVIOUS
<1>3. rest = head \o tail
  BY DEF RemoveAt
<1> HIDE DEF head, tail, rest
<1>4. rest \in Seq(S) /\ Len(rest) = Len(head) + Len(tail)
  BY <1>1, <1>2, <1>3, ConcatProperties
<1>5. \A i \in 1 .. Len(head) + Len(tail) :
        rest[i] = IF i <= Len(head) THEN head[i] ELSE tail[i - Len(head)]
  BY <1>1, <1>2, <1>3, ConcatProperties
<1>6. Len(seq) \in Nat /\ k \in Nat /\ Len(rest) = Len(seq) - 1
  BY <1>1, <1>2, <1>4
<1>7. ASSUME NEW i \in 1 .. Len(rest)
      PROVE  rest[i] = IF i < k THEN seq[i] ELSE seq[i + 1]
  <2>1. rest[i] = IF i < k THEN head[i] ELSE tail[i - (k - 1)]
    BY <1>1, <1>2, <1>4, <1>5, <1>6
  <2>2. CASE i < k
    BY <2>1, <2>2, <1>1, <1>6
  <2>3. CASE ~(i < k)
    <3>1. i - (k - 1) \in 1 .. Len(seq) - k /\ k + (i - (k - 1)) = i + 1
      BY <2>3, <1>6
    <3> QED BY <3>1, <2>1, <2>3, <1>2
  <2> QED BY <2>2, <2>3
<1> QED BY <1>4, <1>6, <1>7 DEF rest

\* A sequence that lists nothing twice does not hold what was removed from it.
LEMMA RemovedOnce ==
  ASSUME NEW S, NEW seq \in Seq(S), IsInjective(seq), NEW e
  PROVE  /\ RemoveFirst(seq, e) \in Seq(S)
         /\ IsInjective(RemoveFirst(seq, e))
         /\ \A i \in DOMAIN RemoveFirst(seq, e) : RemoveFirst(seq, e)[i] # e
<1>1. CASE \A i \in 1 .. Len(seq) : seq[i] # e
  <2>1. RemoveFirst(seq, e) = seq
    BY <1>1 DEF RemoveFirst
  <2> QED BY <2>1, <1>1
<1>2. CASE \E i \in 1 .. Len(seq) : seq[i] = e
  <2> DEFINE k == SelectInSeq(seq, LAMBDA v : v = e)
             rest == RemoveAt(seq, k)
  <2>1. k \in 1 .. Len(seq) /\ seq[k] = e
    BY <1>2, FirstIndex
  <2>2. RemoveFirst(seq, e) = rest
    BY <1>2 DEF RemoveFirst
  <2> HIDE DEF k
  <2>3. /\ rest \in Seq(S) /\ Len(rest) = Len(seq) - 1
        /\ \A i \in 1 .. Len(rest) : rest[i] = IF i < k THEN seq[i] ELSE seq[i + 1]
    BY <2>1, RemovedAt
  <2> HIDE DEF rest
  <2>4. \A i \in 1 .. Len(rest) : rest[i] # e
    BY <2>1, <2>3 DEF IsInjective
  <2>5. IsInjective(rest)
    BY <2>1, <2>3 DEF IsInjective
  <2> QED BY <2>2, <2>3, <2>4, <2>5
<1> QED BY <1>1, <1>2

\* What is moved to the end is still listed once.
LEMMA MovedLast ==
  ASSUME NEW S, NEW seq \in Seq(S), IsInjective(seq), NEW e \in S
  PROVE  /\ Append(RemoveFirst(seq, e), e) \in Seq(S)
         /\ IsInjective(Append(RemoveFirst(seq, e), e))
<1> DEFINE rest == RemoveFirst(seq, e)
<1>1. rest \in Seq(S) /\ IsInjective(rest) /\ \A i \in DOMAIN rest : rest[i] # e
  BY RemovedOnce
<1> HIDE DEF rest
<1>2. /\ Append(rest, e) \in Seq(S) /\ Len(Append(rest, e)) = Len(rest) + 1
      /\ \A i \in 1 .. Len(rest) + 1 :
           Append(rest, e)[i] = IF i <= Len(rest) THEN rest[i] ELSE e
  BY <1>1
<1>3. IsInjective(Append(rest, e))
  BY <1>1, <1>2 DEF IsInjective
<1> QED BY <1>2, <1>3 DEF rest

\* What is not the head is in the tail.
LEMMA TailFacts ==
  ASSUME NEW S, NEW seq \in Seq(S), seq # <<>>
  PROVE  /\ Head(seq) \in S /\ Head(seq) = seq[1] /\ Tail(seq) \in Seq(S)
         /\ Len(seq) \in Nat \ {0} /\ Len(Tail(seq)) = Len(seq) - 1
         /\ \A i \in 1 .. Len(seq) - 1 : Tail(seq)[i] = seq[i + 1]
         /\ \A e : e # Head(seq) /\ (\E i \in 1 .. Len(seq) : seq[i] = e)
                  => \E i \in 1 .. Len(Tail(seq)) : Tail(seq)[i] = e
<1>1. /\ Head(seq) \in S /\ Head(seq) = seq[1] /\ Tail(seq) \in Seq(S)
      /\ Len(seq) \in Nat \ {0} /\ Len(Tail(seq)) = Len(seq) - 1
      /\ \A i \in 1 .. Len(seq) - 1 : Tail(seq)[i] = seq[i + 1]
  BY HeadTailProperties
<1>2. ASSUME NEW e, e # Head(seq), NEW i \in 1 .. Len(seq), seq[i] = e
      PROVE  \E j \in 1 .. Len(Tail(seq)) : Tail(seq)[j] = e
  <2>1. i # 1
    BY <1>1, <1>2
  <2>2. i - 1 \in 1 .. Len(seq) - 1 /\ (i - 1) + 1 = i
    BY <1>1, <2>1
  <2>3. Tail(seq)[i - 1] = e
    BY <1>1, <1>2, <2>2
  <2> QED BY <1>1, <2>2, <2>3
<1> QED BY <1>1, <1>2

=============================================================================
