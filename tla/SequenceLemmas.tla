--------------------------- MODULE SequenceLemmas ---------------------------
(***************************************************************************)
(* Facts about sequences and sets of numbers that the proofs of several    *)
(* components need.  What a recursive function computes is shown by        *)
(* counting up: if a place of a sequence were the first one at which a     *)
(* claim fails, the place before it would be one at which it holds.        *)
(***************************************************************************)
EXTENDS Selection, Ordering, SequencesExt, SequenceTheorems, FiniteSetTheorems, WellFoundedInduction, TLAPS

-----------------------------------------------------------------------------
(* Sequences as sets. *)

LEMMA ToSetIsRange == ASSUME NEW s PROVE ToSet(s) = Range(s)
BY DEF ToSet, Range

(* A sequence without repetition has as many elements as places. *)
LEMMA AsManyAsPlaces ==
    ASSUME NEW k \in Nat, NEW a, a \in [1..k -> Range(a)], IsInjective(a)
    PROVE  IsFiniteSet(Range(a)) /\ Cardinality(Range(a)) = k
<1>1. a \in Injection(1..k, Range(a)) /\ a \in Surjection(1..k, Range(a))
  BY DEF Injection, Surjection, IsInjective, Range
<1>2. IsFiniteSet(1..k) /\ Cardinality(1..k) = k
  BY FS_Interval
<1> QED
  BY <1>1, <1>2, FS_Surjection

(* A sequence without repetition, cut in two. *)
LEMMA CutInTwo ==
    ASSUME NEW S, NEW s \in Seq(S), IsInjective(s), NEW k \in Nat, k <= Len(s)
    PROVE  LET a == SubSeq(s, 1, k)
               b == SubSeq(s, k + 1, Len(s))
           IN  /\ a \in Seq(S) /\ IsInjective(a)
               /\ b \in Seq(S) /\ IsInjective(b) /\ (b # <<>> => k < Len(s))
               /\ Range(a) \cup Range(b) = Range(s) /\ Range(a) \cap Range(b) = {}
               /\ IsFiniteSet(Range(a)) /\ Cardinality(Range(a)) = k
<1> DEFINE a == SubSeq(s, 1, k)
           b == SubSeq(s, k + 1, Len(s))
           n == Len(s)
<1>1. n \in Nat /\ DOMAIN s = 1..n /\ \A i \in 1..n : s[i] \in S
  BY LenProperties
<1>2. a \in Seq(S) /\ Len(a) = k /\ \A i \in 1..k : a[i] = s[i]
  BY <1>1, SubSeqProperties
<1>3. /\ b \in Seq(S)
      /\ Len(b) = IF k + 1 <= n THEN n - (k + 1) + 1 ELSE 0
      /\ \A i \in 1..(n - (k + 1) + 1) : b[i] = s[(k + 1) + i - 1]
  <2>1. k + 1 \in Int /\ n \in Int /\ \A i \in (k + 1)..n : s[i] \in S
    BY <1>1
  <2> QED
    BY <2>1, SubSeqProperties
<1>4. DOMAIN a = 1..k /\ a \in [1..k -> Range(a)]
  BY <1>2, LenProperties DEF Range
<1>5. DOMAIN b = 1..Len(b) /\ (b # <<>> => Len(b) # 0)
  BY <1>3, LenProperties, EmptySeq
<1> HIDE DEF a, b, n
<1>6. n - (k + 1) + 1 = n - k /\ (k + 1 <= n \/ n = k) /\ k <= n
  <2>1. k <= n
    BY DEF n
  <2>2. n - (k + 1) + 1 = n - k
    BY <1>1
  <2>3. k + 1 <= n \/ n = k
    BY <1>1, <2>1
  <2> QED
    BY <2>1, <2>2, <2>3
<1>7. Len(b) = n - k
  BY <1>1, <1>3, <1>6
<1>8. \A i \in 1..(n - k) : b[i] = s[k + i]
  BY <1>1, <1>3, <1>6
<1>9. b # <<>> => k < n
  BY <1>1, <1>5, <1>6, <1>7
<1>10. IsInjective(a)
  BY <1>1, <1>2, <1>4, <1>6 DEF IsInjective
<1>11. IsInjective(b)
  <2>1. SUFFICES ASSUME NEW i \in 1..(n - k), NEW j \in 1..(n - k), b[i] = b[j]
                 PROVE  i = j
    BY <1>5, <1>7 DEF IsInjective
  <2>2. k + i \in DOMAIN s /\ k + j \in DOMAIN s
    BY <1>1, <1>6
  <2>3. s[k + i] = s[k + j]
    BY <1>8, <2>1
  <2>4. k + i = k + j
    BY <2>2, <2>3 DEF IsInjective
  <2> QED
    BY <1>1, <2>4
<1>12. Range(a) \subseteq Range(s)
  BY <1>1, <1>2, <1>4, <1>6 DEF Range
<1>13. Range(b) \subseteq Range(s)
  <2>1. \A i \in 1..(n - k) : k + i \in DOMAIN s
    BY <1>1, <1>6
  <2> QED
    BY <1>5, <1>7, <1>8, <2>1 DEF Range
<1>14. Range(s) \subseteq Range(a) \cup Range(b)
  <2>1. SUFFICES ASSUME NEW i \in 1..n PROVE s[i] \in Range(a) \cup Range(b)
    BY <1>1 DEF Range
  <2>2. CASE i <= k
    <3>1. i \in DOMAIN a /\ a[i] = s[i]
      BY <1>2, <1>4, <2>2
    <3> QED
      BY <3>1 DEF Range
  <2>3. CASE k < i
    <3>1. i - k \in 1..(n - k) /\ k + (i - k) = i
      BY <1>1, <2>3
    <3>2. i - k \in DOMAIN b /\ b[i - k] = s[i]
      BY <1>5, <1>7, <1>8, <3>1
    <3> QED
      BY <3>2 DEF Range
  <2> QED
    BY <1>1, <2>2, <2>3
<1>15. Range(a) \cap Range(b) = {}
  <2>1. ASSUME NEW i \in 1..k, NEW j \in 1..(n - k) PROVE a[i] # b[j]
    <3>1. i \in DOMAIN s /\ k + j \in DOMAIN s /\ i # k + j
      BY <1>1, <1>6
    <3>2. s[i] # s[k + j]
      BY <3>1 DEF IsInjective
    <3> QED
      BY <1>2, <1>8, <3>2
  <2> QED
    BY <1>4, <1>5, <1>7, <2>1 DEF Range
<1>16. IsFiniteSet(Range(a)) /\ Cardinality(Range(a)) = k
  BY <1>4, <1>10, AsManyAsPlaces
<1> QED
  BY <1>2, <1>3, <1>9, <1>10, <1>11, <1>12, <1>13, <1>14, <1>15, <1>16 DEF a, b, n

(* Two such sequences with nothing in common, joined. *)
LEMMA JoinedOnce ==
    ASSUME NEW S, NEW s \in Seq(S), NEW t \in Seq(S), IsInjective(s), IsInjective(t),
           Range(s) \cap Range(t) = {}
    PROVE  /\ s \o t \in Seq(S) /\ IsInjective(s \o t)
           /\ Range(s \o t) = Range(s) \cup Range(t)
           /\ (s \o t # <<>> => s # <<>> \/ t # <<>>)
<1>1. /\ s \o t \in Seq(S)
      /\ Len(s \o t) = Len(s) + Len(t)
      /\ \A i \in 1..(Len(s) + Len(t)) : (s \o t)[i] = IF i <= Len(s) THEN s[i] ELSE t[i - Len(s)]
  BY ConcatProperties
<1>2. /\ Len(s) \in Nat /\ DOMAIN s = 1..Len(s) /\ Len(t) \in Nat /\ DOMAIN t = 1..Len(t)
      /\ DOMAIN (s \o t) = 1..(Len(s) + Len(t))
  BY <1>1, LenProperties
<1>3. ASSUME NEW i \in 1..Len(s), NEW j \in 1..Len(t) PROVE s[i] # t[j]
  BY <1>2 DEF Range
<1>4. IsInjective(s \o t)
  <2>1. SUFFICES ASSUME NEW i \in 1..(Len(s) + Len(t)), NEW j \in 1..(Len(s) + Len(t)),
                        (s \o t)[i] = (s \o t)[j]
                 PROVE  i = j
    BY <1>2 DEF IsInjective
  <2>2. CASE i <= Len(s) /\ j <= Len(s)
    BY <1>1, <1>2, <2>1, <2>2 DEF IsInjective
  <2>3. CASE i > Len(s) /\ j > Len(s)
    <3>1. i - Len(s) \in DOMAIN t /\ j - Len(s) \in DOMAIN t /\ t[i - Len(s)] = t[j - Len(s)]
      BY <1>1, <1>2, <2>1, <2>3
    <3>2. i - Len(s) = j - Len(s)
      BY <3>1 DEF IsInjective
    <3> QED
      BY <1>2, <3>2
  <2>4. CASE i <= Len(s) /\ j > Len(s)
    <3>1. j - Len(s) \in 1..Len(t) /\ s[i] = t[j - Len(s)]
      BY <1>1, <1>2, <2>1, <2>4
    <3> QED
      BY <1>2, <1>3, <2>4, <3>1
  <2>5. CASE i > Len(s) /\ j <= Len(s)
    <3>1. i - Len(s) \in 1..Len(t) /\ s[j] = t[i - Len(s)]
      BY <1>1, <1>2, <2>1, <2>5
    <3> QED
      BY <1>2, <1>3, <2>5, <3>1
  <2> QED
    BY <1>2, <2>2, <2>3, <2>4, <2>5
<1>5. Range(s \o t) = Range(s) \cup Range(t)
  BY RangeConcatenation
<1>6. s \o t # <<>> => s # <<>> \/ t # <<>>
  BY ConcatEmptySeq
<1> QED
  BY <1>1, <1>4, <1>5, <1>6

(* The head of such a sequence is not in its tail. *)
LEMMA TailOfQueue ==
    ASSUME NEW S, NEW s \in Seq(S), IsInjective(s), s # <<>>
    PROVE  /\ Tail(s) \in Seq(S) /\ IsInjective(Tail(s))
           /\ Head(s) \in Range(s) /\ Range(Tail(s)) = Range(s) \ {Head(s)}
<1>1. Len(s) \in Nat \ {0} /\ DOMAIN s = 1..Len(s)
  BY EmptySeq, LenProperties
<1>2. /\ Tail(s) \in Seq(S) /\ Len(Tail(s)) = Len(s) - 1
      /\ \A i \in 1..(Len(s) - 1) : Tail(s)[i] = s[i + 1]
  BY HeadTailProperties
<1>3. DOMAIN Tail(s) = 1..(Len(s) - 1)
  BY <1>2, LenProperties
<1>4. Head(s) = s[1]
  OBVIOUS
<1>5. IsInjective(Tail(s))
  BY <1>1, <1>2, <1>3 DEF IsInjective
<1>6. ASSUME NEW i \in 1..Len(s), i # 1 PROVE s[i] \in Range(Tail(s))
  <2>1. i - 1 \in DOMAIN Tail(s) /\ Tail(s)[i - 1] = s[i]
    BY <1>1, <1>2, <1>3, <1>6
  <2> QED
    BY <2>1 DEF Range
<1>7. ASSUME NEW i \in DOMAIN Tail(s) PROVE Tail(s)[i] \in Range(s) /\ Tail(s)[i] # s[1]
  BY <1>1, <1>2, <1>3, <1>7 DEF Range, IsInjective
<1>8. Head(s) \in Range(s)
  BY <1>1, <1>4 DEF Range
<1>9. Range(Tail(s)) = Range(s) \ {Head(s)}
  BY <1>1, <1>4, <1>6, <1>7 DEF Range
<1> QED
  BY <1>2, <1>5, <1>8, <1>9

(* A sequence with one element more. *)
LEMMA OneMore ==
    ASSUME NEW s, s \in Seq(Range(s)), NEW e
    PROVE  /\ Append(s, e) \in Seq(Range(Append(s, e)))
           /\ Len(s) \in Nat /\ DOMAIN s = 1..Len(s) /\ DOMAIN Append(s, e) = 1..(Len(s) + 1)
           /\ \A i \in 1..Len(s) : Append(s, e)[i] = s[i]
           /\ Append(s, e)[Len(s) + 1] = e
<1> DEFINE S == Range(s) \cup {e}
<1>1. s \in Seq(S)
  BY SeqMonotonic
<1>2. /\ Append(s, e) \in Seq(S) /\ Len(Append(s, e)) = Len(s) + 1
      /\ \A i \in 1..Len(s) : Append(s, e)[i] = s[i]
      /\ Append(s, e)[Len(s) + 1] = e
  BY <1>1, AppendProperties
<1>3. Append(s, e) \in Seq(Range(Append(s, e)))
  BY <1>2, SeqOfRange
<1>4. Len(s) \in Nat /\ DOMAIN s = 1..Len(s)
  BY <1>1, LenProperties
<1>5. DOMAIN Append(s, e) = 1..(Len(s) + 1)
  BY <1>2, LenProperties
<1> QED
  BY <1>2, <1>3, <1>4, <1>5

(* The same, of its elements. *)
LEMMA OneMoreInRange ==
    ASSUME NEW S, NEW s \in Seq(S), NEW n \in S
    PROVE  Append(s, n) \in Seq(S) /\ Range(Append(s, n)) = Range(s) \cup {n}
<1>1. /\ Append(s, n) \in Seq(S) /\ Len(Append(s, n)) = Len(s) + 1
      /\ \A i \in 1..Len(s) : Append(s, n)[i] = s[i]
      /\ Append(s, n)[Len(s) + 1] = n
  BY AppendProperties
<1>2. Len(s) \in Nat /\ DOMAIN s = 1..Len(s) /\ DOMAIN Append(s, n) = 1..(Len(s) + 1)
  BY <1>1, LenProperties
<1>3. \A i \in 1..(Len(s) + 1) : i \in 1..Len(s) \/ i = Len(s) + 1
  BY <1>2
<1>4. Range(Append(s, n)) \subseteq Range(s) \cup {n}
  BY <1>1, <1>2, <1>3 DEF Range
<1>5. Range(s) \subseteq Range(Append(s, n))
  <2>1. \A i \in 1..Len(s) : i \in 1..(Len(s) + 1)
    BY <1>2
  <2> QED
    BY <1>1, <1>2, <2>1 DEF Range
<1>6. Len(s) + 1 \in 1..(Len(s) + 1)
  BY <1>2
<1>7. n \in Range(Append(s, n))
  BY <1>1, <1>2, <1>6 DEF Range
<1> QED
  BY <1>1, <1>4, <1>5, <1>7

(* A sequence whose elements are replaced in place. *)
LEMMA SameLength ==
    ASSUME NEW s, s \in Seq(Range(s)), NEW t, t = [i \in DOMAIN s |-> t[i]]
    PROVE  t \in Seq(Range(t)) /\ DOMAIN t = DOMAIN s
<1>1. Len(s) \in Nat /\ DOMAIN s = 1..Len(s)
  BY LenProperties
<1>2. DOMAIN t = DOMAIN s
  OBVIOUS
<1>3. t \in [1..Len(s) -> Range(t)]
  BY <1>1, <1>2 DEF Range
<1>4. t \in Seq(Range(t))
  BY <1>1, <1>3, IsASeq
<1> QED
  BY <1>2, <1>4

-----------------------------------------------------------------------------
(* Counting up, and functions defined by it. *)

(* A set of naturals has a least element. *)
LEMMA LeastNat ==
    ASSUME NEW T, T \subseteq Nat, T # {}
    PROVE  \E m \in T : \A k \in T : m <= k
<1>1. IsWellFoundedOn(OpToRel(<, Nat), Nat)
  BY NatLessThanWellFounded, Zenon
<1>2. PICK m \in T : \A k \in T : ~(<<k, m>> \in OpToRel(<, Nat))
  BY <1>1, WFMin, Zenon
<1>3. ASSUME NEW k \in T PROVE m <= k
  <2>1. ~(k < m)
    BY <1>2 DEF OpToRel
  <2> QED BY <2>1
<1> QED BY <1>3

(* What holds at 0 and at each step up holds up to n. *)
LEMMA CountingUp ==
    ASSUME NEW n \in Nat, NEW T, 0 \in T, \A i \in 1 .. n : i - 1 \in T => i \in T
    PROVE  0 .. n \subseteq T
<1> SUFFICES ASSUME (0 .. n) \ T # {} PROVE FALSE
  OBVIOUS
<1> DEFINE missing == (0 .. n) \ T
<1>1. PICK m \in missing : \A k \in missing : m <= k
  <2>1. missing \subseteq Nat /\ missing # {}
    OBVIOUS
  <2> HIDE DEF missing
  <2> QED
    BY <2>1, LeastNat
<1>2. m \in 1 .. n
  BY <1>1
<1>3. m - 1 \in T
  <2>1. m - 1 \in 0 .. n /\ ~(m <= m - 1)
    BY <1>2
  <2> QED BY <2>1, <1>1
<1> QED
  BY <1>1, <1>2, <1>3

IsIteration(f, n, X, a, g) ==
    f \in [0 .. n -> X] /\ f[0] = a /\ \A i \in 1 .. n : f[i] = g[i][f[i - 1]]

(* The iteration of a sequence of functions exists. *)
LEMMA IterationExists ==
    ASSUME NEW n \in Nat, NEW X, NEW a \in X, NEW g \in [1 .. n -> [X -> X]]
    PROVE  \E f : IsIteration(f, n, X, a, g)
<1> DEFINE Good(m, f) == IsIteration(f, m, X, a, g)
           T == {m \in 0..n : \E f : Good(m, f)}
<1>1. 0 \in T
  <2>1. Good(0, [i \in 0..0 |-> a])
    BY DEF IsIteration
  <2>2. 0 \in 0..n
    OBVIOUS
  <2> HIDE DEF Good
  <2> QED BY <2>1, <2>2, Zenon
<1>2. ASSUME NEW m \in 1..n, m - 1 \in T PROVE m \in T
  <2>5. PICK f : Good(m-1, f)
    BY <1>2
  <2> DEFINE h == [i \in 0..m |-> IF i = m THEN g[m][f[m-1]] ELSE f[i]]
  <2>6. Good(m, h)
    <3> USE DEF IsIteration
    <3>1. f[m-1] \in X /\ g[m][f[m-1]] \in X
      BY <2>5
    <3>2. h \in [0..m -> X]
      BY <3>1, <2>5
    <3>3. \A i \in 1..m : h[i] = g[i][h[i-1]]
      BY <2>5
    <3> QED BY <3>2, <3>3, <2>5
  <2>7. m \in 0..n
    OBVIOUS
  <2> HIDE DEF Good, h
  <2> QED BY <2>6, <2>7, Zenon
<1>3. n \in T
  <2>1. n \in 0..n
    OBVIOUS
  <2> HIDE DEF T
  <2> QED BY <2>1, <1>1, <1>2, CountingUp
<1> QED BY <1>3

(* Kept, place by place. *)
AreKept(kept, A, s, S) ==
    /\ kept \in [0 .. Len(s) -> Seq(A)]
    /\ kept[0] = <<>>
    /\ \A i \in 1 .. Len(s) :
          kept[i] = IF s[i] \in S THEN Append(kept[i - 1], s[i]) ELSE kept[i - 1]

(* The selection of the members of S, element by element. *)
LEMMA KeptSteps ==
    ASSUME NEW A, NEW s \in Seq(A), NEW S
    PROVE  \E kept : AreKept(kept, A, s, S) /\ Kept(s, S) = kept[Len(s)]
<1> DEFINE step(t, i) == IF s[i] \in S THEN Append(t, s[i]) ELSE t
           g == [i \in 1 .. Len(s) |-> [t \in Seq(A) |-> step(t, i)]]
           Is(f) == f = [i \in 0 .. Len(s) |-> IF i = 0 THEN <<>> ELSE step(f[i - 1], i)]
           kept == CHOOSE f : Is(f)
<1>1. \A i \in 1 .. Len(s), t \in Seq(A) : step(t, i) \in Seq(A)
  OBVIOUS
<1>2. <<>> \in Seq(A) /\ Len(s) \in Nat
  OBVIOUS
<1>3. Kept(s, S) = kept[Len(s)]
  BY DEF Kept
<1> HIDE DEF step, kept
<1>4. g \in [1..Len(s) -> [Seq(A) -> Seq(A)]]
  BY <1>1
<1>5. PICK f : IsIteration(f, Len(s), Seq(A), <<>>, g)
  <2> HIDE DEF g
  <2> QED BY <1>2, <1>4, IterationExists
<1>6. Is(f)
  <2>1. \A i \in 1..Len(s) : f[i-1] \in Seq(A)
    BY <1>2, <1>5 DEF IsIteration
  <2>2. \A i \in 1..Len(s) : f[i] = step(f[i-1], i)
    BY <2>1, <1>5 DEF IsIteration
  <2>3. f = [i \in 0..Len(s) |-> f[i]]
    BY <1>5 DEF IsIteration
  <2>4. \A i \in 0..Len(s) : f[i] = IF i = 0 THEN <<>> ELSE step(f[i - 1], i)
    BY <1>2, <1>5, <2>2 DEF IsIteration
  <2> QED
    BY <2>3, <2>4
<1>7. Is(kept)
  BY <1>6 DEF kept
<1>8. kept[0] = <<>> /\ \A i \in 1..Len(s) : kept[i] = step(kept[i-1], i)
  BY <1>7, <1>2
<1>9. \A i \in 0 .. Len(s) : kept[i] \in Seq(A)
  <2> DEFINE T == {i \in 0 .. Len(s) : kept[i] \in Seq(A)}
  <2>1. 0 \in T
    <3>1. 0 \in 0 .. Len(s)
      BY <1>2
    <3> QED
      BY <3>1, <1>2, <1>8, Zenon
  <2>3. ASSUME NEW i \in 1 .. Len(s), i - 1 \in T PROVE i \in T
    <3>1. i \in 0 .. Len(s) /\ i - 1 \in 0 .. Len(s) /\ kept[i - 1] \in Seq(A)
      BY <1>2, <2>3
    <3>2. kept[i] = step(kept[i - 1], i)
      BY <1>8
    <3> QED
      BY <3>1, <3>2, <1>1
  <2> HIDE DEF T
  <2>2. 0 .. Len(s) \subseteq T
    BY <1>2, <2>1, <2>3, CountingUp
  <2> QED
    BY <2>2 DEF T
<1>10. kept \in [0 .. Len(s) -> Seq(A)]
  BY <1>7, <1>9
<1>11. AreKept(kept, A, s, S)
  BY <1>8, <1>10 DEF step, AreKept
<1> QED
  BY <1>3, <1>11

(* A selection is no longer than what it was selected from. *)
LEMMA KeptLength ==
    ASSUME NEW A, NEW s \in Seq(A), NEW S
    PROVE  Len(Kept(s, S)) <= Len(s)
<1>1. PICK kept : AreKept(kept, A, s, S) /\ Kept(s, S) = kept[Len(s)]
  BY KeptSteps
<1>2. Len(s) \in Nat
  BY LenProperties
<1> DEFINE T == {i \in 0 .. Len(s) : Len(kept[i]) <= i}
<1>3. 0 \in T
  BY <1>1, <1>2 DEF AreKept
<1>4. ASSUME NEW i \in 1 .. Len(s), i - 1 \in T
      PROVE  i \in T
  <2>1. i - 1 \in 0 .. Len(s) /\ i \in 0 .. Len(s) /\ Len(kept[i - 1]) <= i - 1
    BY <1>2, <1>4
  <2>2. kept[i - 1] \in Seq(A) /\ Len(kept[i - 1]) \in Nat
    BY <1>1, <2>1, LenProperties DEF AreKept
  <2>3. CASE s[i] \in S
    <3>1. kept[i] = Append(kept[i - 1], s[i]) /\ s[i] \in A
      BY <1>1, <1>2, <2>3, ElementOfSeq DEF AreKept
    <3>2. Len(kept[i]) = Len(kept[i - 1]) + 1
      BY <2>2, <3>1, AppendProperties
    <3> QED
      BY <2>1, <2>2, <3>2
  <2>4. CASE s[i] \notin S
    <3>1. kept[i] = kept[i - 1]
      BY <1>1, <2>4 DEF AreKept
    <3> QED
      BY <2>1, <2>2, <3>1
  <2> QED
    BY <2>3, <2>4
<1>5. 0 .. Len(s) \subseteq T
  <2> HIDE DEF T
  <2> QED
    BY <1>2, <1>3, <1>4, CountingUp
<1> QED
  BY <1>1, <1>2, <1>5

(* The last element that was selected is the last one that could be. *)
LEMMA KeptLast ==
    ASSUME NEW A, NEW s \in Seq(A), NEW S
    PROVE  \/ Kept(s, S) = <<>> /\ \A i \in 1 .. Len(s) : s[i] \notin S
           \/ /\ Kept(s, S) # <<>>
              /\ \E i \in 1 .. Len(s) :
                    /\ s[i] \in S /\ Last(Kept(s, S)) = s[i]
                    /\ \A j \in 1 .. Len(s) : s[j] \in S => j <= i
<1>1. PICK kept : AreKept(kept, A, s, S) /\ Kept(s, S) = kept[Len(s)]
  BY KeptSteps
<1>2. Len(s) \in Nat
  BY LenProperties
<1> DEFINE None(i) == kept[i] = <<>> /\ \A j \in 1 .. i : s[j] \notin S
           Some(i) == /\ kept[i] # <<>>
                      /\ \E l \in 1 .. i :
                            /\ s[l] \in S /\ Last(kept[i]) = s[l]
                            /\ \A j \in 1 .. i : s[j] \in S => j <= l
           T == {i \in 0 .. Len(s) : None(i) \/ Some(i)}
<1>3. 0 \in T
  BY <1>1, <1>2 DEF AreKept
<1>4. ASSUME NEW i \in 1 .. Len(s), i - 1 \in T
      PROVE  i \in T
  <2>1. i - 1 \in 0 .. Len(s) /\ i \in 0 .. Len(s) /\ (None(i - 1) \/ Some(i - 1))
    BY <1>2, <1>4
  <2>2. kept[i - 1] \in Seq(A)
    BY <1>1, <2>1 DEF AreKept
  <2>3. \A j \in 1 .. i : j = i \/ j \in 1 .. i - 1
    BY <1>2
  <2>4. CASE s[i] \in S
    <3>1. kept[i] = Append(kept[i - 1], s[i]) /\ s[i] \in A
      BY <1>1, <1>2, <2>4, ElementOfSeq DEF AreKept
    <3>2. /\ kept[i] \in Seq(A) /\ Len(kept[i]) = Len(kept[i - 1]) + 1
          /\ kept[i][Len(kept[i - 1]) + 1] = s[i] /\ Len(kept[i - 1]) \in Nat
      BY <2>2, <3>1, AppendProperties, LenProperties
    <3>3. kept[i] # <<>>
      BY <3>2, EmptySeq
    <3>4. Last(kept[i]) = s[i]
      BY <3>2 DEF Last
    <3>5. i \in 1 .. i /\ \A j \in 1 .. i : s[j] \in S => j <= i
      BY <1>2
    <3>6. Some(i)
      BY <2>4, <3>3, <3>4, <3>5
    <3> QED
      BY <2>1, <3>6
  <2>5. CASE s[i] \notin S
    <3>1. kept[i] = kept[i - 1]
      BY <1>1, <2>5 DEF AreKept
    <3>2. CASE None(i - 1)
      <4>1. None(i)
        BY <2>3, <2>5, <3>1, <3>2
      <4> QED
        BY <2>1, <4>1
    <3>3. CASE Some(i - 1)
      <4>1. PICK l \in 1 .. i - 1 :
               /\ s[l] \in S /\ Last(kept[i - 1]) = s[l]
               /\ \A j \in 1 .. i - 1 : s[j] \in S => j <= l
        BY <3>3
      <4>2. l \in 1 .. i /\ \A j \in 1 .. i : s[j] \in S => j <= l
        BY <1>2, <2>3, <2>5, <4>1
      <4>3. Some(i)
        BY <3>1, <3>3, <4>1, <4>2
      <4> QED
        BY <2>1, <4>3
    <3> QED
      BY <2>1, <3>2, <3>3
  <2> QED
    BY <2>4, <2>5
<1>5. 0 .. Len(s) \subseteq T
  <2> HIDE DEF T
  <2> QED
    BY <1>2, <1>3, <1>4, CountingUp
<1>6. None(Len(s)) \/ Some(Len(s))
  BY <1>2, <1>5
<1> QED
  BY <1>1, <1>6

(* Kept(s, S) has the elements of s that are in S and no others, and any two of
   them in the order in which s has them. *)
LEMMA KeptInOrder ==
    ASSUME NEW A, NEW s \in Seq(A), NEW S
    PROVE  /\ Kept(s, S) \in Seq(A)
           /\ ToSet(Kept(s, S)) = ToSet(s) \cap S
           /\ \A k, l \in 1 .. Len(Kept(s, S)) :
                 k < l => \E i, j \in 1 .. Len(s) :
                             i < j /\ Kept(s, S)[k] = s[i] /\ Kept(s, S)[l] = s[j]
<1>0. PICK kept : AreKept(kept, A, s, S) /\ Kept(s, S) = kept[Len(s)]
  BY KeptSteps
<1>1. /\ kept \in [0 .. Len(s) -> Seq(A)]
      /\ kept[0] = <<>>
      /\ \A i \in 1 .. Len(s) :
            kept[i] = IF s[i] \in S THEN Append(kept[i - 1], s[i]) ELSE kept[i - 1]
      /\ Kept(s, S) = kept[Len(s)]
  BY <1>0 DEF AreKept
<1>2. Len(s) \in Nat /\ DOMAIN s = 1 .. Len(s) /\ \A i \in 1 .. Len(s) : s[i] \in A
  BY LenProperties
<1> DEFINE Same(n) == Range(kept[n]) = {s[i] : i \in 1 .. n} \cap S
           Ordered(n) == \A k, l \in 1 .. Len(kept[n]) :
              k < l => \E i, j \in 1 .. n : i < j /\ kept[n][k] = s[i] /\ kept[n][l] = s[j]
           T == {n \in 0 .. Len(s) : Same(n) /\ Ordered(n)}
<1>3. 0 \in T
  <2>1. Range(kept[0]) = {} /\ Len(kept[0]) = 0
    BY <1>1 DEF Range
  <2>2. Same(0)
    BY <2>1
  <2>3. Ordered(0)
    BY <2>1
  <2>4. 0 \in 0 .. Len(s)
    BY <1>2
  <2> QED
    BY <2>2, <2>3, <2>4
<1>4. ASSUME NEW n \in 1 .. Len(s), n - 1 \in T PROVE n \in T
  <2>1. /\ n - 1 \in 0 .. Len(s) /\ kept[n - 1] \in Seq(A) /\ s[n] \in A
        /\ n \in Nat /\ n \in 0 .. Len(s) /\ n \in 1 .. n
        /\ \A i \in 1 .. n : i \in 1 .. n - 1 \/ i = n
        /\ \A i \in 1 .. n - 1 : i \in 1 .. n /\ i < n
    <3>1. n \in Nat /\ n - 1 \in 0 .. Len(s) /\ n \in 0 .. Len(s) /\ n \in 1 .. n
      BY <1>2
    <3>2. kept[n - 1] \in Seq(A) /\ s[n] \in A
      BY <1>1, <1>2, <3>1
    <3> QED
      BY <3>1, <3>2
  <2>2. Same(n - 1) /\ Ordered(n - 1)
    BY <1>4
  <2>3. CASE s[n] \notin S
    <3>1. kept[n] = kept[n - 1]
      BY <1>1, <2>3
    <3>2. Same(n)
      BY <2>1, <2>2, <2>3, <3>1
    <3>3. Ordered(n)
      <4> SUFFICES ASSUME NEW k \in 1 .. Len(kept[n]), NEW l \in 1 .. Len(kept[n]), k < l
                   PROVE  \E i, j \in 1 .. n : i < j /\ kept[n][k] = s[i] /\ kept[n][l] = s[j]
        OBVIOUS
      <4>0. k \in 1 .. Len(kept[n - 1]) /\ l \in 1 .. Len(kept[n - 1])
        BY <3>1
      <4>1. PICK i \in 1 .. n - 1, j \in 1 .. n - 1 :
                 i < j /\ kept[n - 1][k] = s[i] /\ kept[n - 1][l] = s[j]
        BY <2>2, <4>0
      <4> QED
        BY <2>1, <3>1, <4>1
    <3> QED
      BY <2>1, <3>2, <3>3
  <2>4. CASE s[n] \in S
    <3> DEFINE t == kept[n - 1]  m == Len(t)
    <3>1. kept[n] = Append(t, s[n])
      BY <1>1, <2>4
    <3>2. Range(kept[n]) = Range(t) \cup {s[n]}
      BY <2>1, <3>1, OneMoreInRange
    <3>3. m \in Nat /\ DOMAIN t = 1 .. m /\ Len(kept[n]) = m + 1
          /\ (\A k \in 1 .. m : kept[n][k] = t[k]) /\ kept[n][m + 1] = s[n]
      BY <2>1, <3>1, AppendProperties, LenProperties
    <3>4. Same(n)
      BY <2>1, <2>2, <2>4, <3>2
    <3>5. ASSUME NEW k \in 1 .. Len(kept[n]), NEW l \in 1 .. Len(kept[n]), k < l
          PROVE  \E i, j \in 1 .. n : i < j /\ kept[n][k] = s[i] /\ kept[n][l] = s[j]
      <4>0. k \in 1 .. m
        BY ONLY <3>3, <3>5
      <4>1. k \in 1 .. m /\ kept[n][k] = t[k] /\ t[k] \in Range(t)
        BY ONLY <3>3, <4>0 DEF Range
      <4>2. CASE l \in 1 .. m
        <5>1. PICK i \in 1 .. n - 1, j \in 1 .. n - 1 : i < j /\ t[k] = s[i] /\ t[l] = s[j]
          BY <2>2, <3>5, <4>1, <4>2
        <5>2. kept[n][l] = t[l] /\ i \in 1 .. n /\ j \in 1 .. n
          BY <2>1, <3>3, <4>2
        <5> QED
          BY <4>1, <5>1, <5>2
      <4>3. CASE l = m + 1
        <5>1. PICK i \in 1 .. n - 1 : t[k] = s[i]
          BY <2>2, <4>1
        <5>2. i \in 1 .. n /\ i < n
          BY <2>1
        <5> QED
          BY <2>1, <3>3, <4>1, <4>3, <5>1, <5>2
      <4> QED
        BY <3>3, <4>2, <4>3
    <3> HIDE DEF t, m
    <3> QED
      BY <2>1, <3>4, <3>5
  <2> QED
    BY <2>3, <2>4
<1>5. Len(s) \in T
  <2>1. Len(s) \in 0 .. Len(s)
    BY <1>2
  <2> HIDE DEF T
  <2> QED
    BY <2>1, <1>2, <1>3, <1>4, CountingUp
<1>6. Same(Len(s)) /\ Ordered(Len(s))
  BY <1>5
<1>7. ToSet(Kept(s, S)) = ToSet(s) \cap S
  <2>1. ToSet(Kept(s, S)) = Range(kept[Len(s)])
    BY <1>1, ToSetIsRange
  <2>2. ToSet(s) = {s[i] : i \in 1 .. Len(s)}
    BY <1>2 DEF ToSet
  <2> QED
    BY <1>6, <2>1, <2>2
<1>8. Kept(s, S) \in Seq(A)
  BY <1>1, <1>2
<1> QED
  BY <1>1, <1>6, <1>7, <1>8
(* A sequence without repetitions keeps none. *)
LEMMA KeptOnce ==
    ASSUME NEW A, NEW s \in Seq(A), IsInjective(s), NEW S
    PROVE  IsInjective(Kept(s, S))
<1> DEFINE t == Kept(s, S)
<1>1. t \in Seq(A) /\ \A k, l \in 1 .. Len(t) :
         k < l => \E i, j \in 1 .. Len(s) : i < j /\ t[k] = s[i] /\ t[l] = s[j]
  BY KeptInOrder
<1> HIDE DEF t
<1>2. DOMAIN t = 1 .. Len(t) /\ Len(t) \in Nat /\ DOMAIN s = 1 .. Len(s) /\ Len(s) \in Nat
  BY <1>1, LenProperties
<1>3. ASSUME NEW k \in 1 .. Len(t), NEW l \in 1 .. Len(t), k < l PROVE t[k] # t[l]
  <2>1. PICK i \in 1 .. Len(s), j \in 1 .. Len(s) : i < j /\ t[k] = s[i] /\ t[l] = s[j]
    BY <1>1, <1>3
  <2>2. s[i] # s[j]
    BY <1>2, <2>1 DEF IsInjective
  <2> QED
    BY <2>1, <2>2
<1>4. ASSUME NEW k \in 1 .. Len(t), NEW l \in 1 .. Len(t), t[k] = t[l] PROVE k = l
  <2>1. ~(k < l) /\ ~(l < k)
    BY <1>3, <1>4
  <2> QED
    BY <1>2, <2>1
<1> QED
  BY <1>2, <1>4 DEF IsInjective, t

-----------------------------------------------------------------------------
(* Numbers in order. *)

(* A sequence has finitely many elements. *)
LEMMA FiniteRange ==
    ASSUME NEW A, NEW s \in Seq(A)
    PROVE  IsFiniteSet(ToSet(s))
<1>1. Len(s) \in Nat /\ DOMAIN s = 1 .. Len(s)
  BY LenProperties
<1>2. s \in Surjection(1 .. Len(s), ToSet(s))
  BY <1>1 DEF ToSet, Surjection
<1>3. IsFiniteSet(1 .. Len(s))
  BY <1>1, FS_Interval
<1> QED
  BY <1>2, <1>3, FS_Surjection

(* A finite set of integers has a largest element. *)
LEMMA LargestExists ==
    ASSUME NEW S, S \subseteq Int, S # {}, IsFiniteSet(S)
    PROVE  \E m \in S : \A x \in S : x <= m
<1>1. PICK n \in Nat : ExistsSurjection(1 .. n, S)
  BY FS_NatSurjection
<1>2. PICK f : f \in [1 .. n -> S] /\ \A x \in S : \E i \in 1 .. n : f[i] = x
  BY <1>1 DEF ExistsSurjection, Surjection
<1> DEFINE Top(k, m) == \A i \in 1 .. k : f[i] <= m
           T == {k \in 0 .. n : \E m \in S : Top(k, m)}
<1>3. 0 \in T
  <2>1. 0 \in 0 .. n /\ \A m \in S : Top(0, m)
    OBVIOUS
  <2> QED
    BY <2>1
<1>4. ASSUME NEW k \in 1 .. n, k - 1 \in T PROVE k \in T
  <2>1. PICK m \in S : Top(k - 1, m)
    BY <1>4
  <2>2. f[k] \in S /\ k \in 0 .. n
    BY <1>2
  <2>3. m \in Int /\ f[k] \in Int /\ \A i \in 1 .. k : f[i] \in Int /\ (i = k \/ i \in 1 .. k - 1)
    <3>1. \A i \in 1 .. k : i \in 1 .. n /\ (i = k \/ i \in 1 .. k - 1)
      OBVIOUS
    <3>2. \A i \in 1 .. n : f[i] \in S
      BY <1>2
    <3>3. \A x \in S : x \in Int
      OBVIOUS
    <3> QED
      BY <2>2, <3>1, <3>2, <3>3
  <2>4. CASE f[k] <= m
    <3>1. Top(k, m)
      BY <2>1, <2>3, <2>4
    <3> QED
      BY <2>2, <3>1
  <2>5. CASE m < f[k]
    <3>1. Top(k, f[k])
      BY <2>1, <2>3, <2>5
    <3> QED
      BY <2>2, <3>1
  <2> QED
    BY <2>3, <2>4, <2>5
<1>5. n \in T
  <2>1. n \in 0 .. n
    OBVIOUS
  <2> HIDE DEF T
  <2> QED
    BY <2>1, <1>3, <1>4, CountingUp
<1>6. PICK m \in S : Top(n, m)
  BY <1>5
<1>7. \A x \in S : x <= m
  BY <1>2, <1>6
<1> QED
  BY <1>7

LEMMA MaxIsLargest ==
    ASSUME NEW S, S \subseteq Int, S # {}, IsFiniteSet(S)
    PROVE  Max(S) \in S /\ \A x \in S : x <= Max(S)
<1>1. \E m \in S : \A x \in S : m >= x
  BY LargestExists
<1>2. Max(S) \in S /\ \A x \in S : Max(S) >= x
  BY <1>1 DEF Max
<1> QED
  BY <1>2

LEMMA MinIsLeast ==
    ASSUME NEW S, S \subseteq Nat, S # {}
    PROVE  Min(S) \in S /\ \A x \in S : Min(S) <= x
<1>1. \E m \in S : \A x \in S : m =< x
  BY LeastNat
<1> QED
  BY <1>1 DEF Min

Increasing(s) == \A i, j \in 1 .. Len(s) : i < j => s[i] < s[j]

(* Selecting from an increasing sequence leaves it increasing. *)
LEMMA KeptIncreasing ==
    ASSUME NEW s \in Seq(Int), Increasing(s), NEW S
    PROVE  Increasing(Kept(s, S))
<1> DEFINE t == Kept(s, S)
<1>1. t \in Seq(Int) /\ \A k, l \in 1 .. Len(t) :
         k < l => \E i, j \in 1 .. Len(s) : i < j /\ t[k] = s[i] /\ t[l] = s[j]
  BY KeptInOrder
<1> HIDE DEF t
<1>2. ASSUME NEW k \in 1 .. Len(t), NEW l \in 1 .. Len(t), k < l PROVE t[k] < t[l]
  <2>1. PICK i \in 1 .. Len(s), j \in 1 .. Len(s) : i < j /\ t[k] = s[i] /\ t[l] = s[j]
    BY <1>1, <1>2
  <2>2. s[i] < s[j]
    BY <2>1 DEF Increasing
  <2> QED
    BY <2>1, <2>2
<1> QED
  BY <1>2 DEF Increasing, t

(* Of an increasing sequence, a prefix takes all that is not above some element
   of it. *)
LEMMA PrefixIncreasing ==
    ASSUME NEW s \in Seq(Int), Increasing(s), NEW n \in 0 .. Len(s)
    PROVE  LET t == SubSeq(s, 1, n)
           IN  /\ t \in Seq(Int) /\ Len(t) = n /\ Increasing(t)
               /\ \A i \in 1 .. n : t[i] = s[i]
               /\ ToSet(t) \subseteq ToSet(s)
               /\ \A x \in ToSet(s), y \in ToSet(t) : x <= y => x \in ToSet(t)
<1> DEFINE t == SubSeq(s, 1, n)
<1>1. Len(s) \in Nat /\ DOMAIN s = 1 .. Len(s) /\ \A i \in 1 .. Len(s) : s[i] \in Int
  BY LenProperties
<1>2. n \in Nat /\ n <= Len(s) /\ \A i \in 1 .. n : i \in 1 .. Len(s)
  BY <1>1
<1>3. t \in Seq(Int) /\ Len(t) = n /\ \A i \in 1 .. n : t[i] = s[i]
  BY <1>1, <1>2, SubSeqProperties
<1>4. DOMAIN t = 1 .. n
  BY <1>3, LenProperties
<1> HIDE DEF t
<1>5. Increasing(t)
  BY <1>2, <1>3 DEF Increasing
<1>6. ToSet(t) \subseteq ToSet(s)
  BY <1>1, <1>2, <1>3, <1>4 DEF ToSet
<1>7. ASSUME NEW i \in 1 .. Len(s), NEW j \in 1 .. n, s[i] <= s[j] PROVE s[i] \in ToSet(t)
  <2>1. ~(j < i)
    BY <1>1, <1>2, <1>7 DEF Increasing
  <2>2. i \in 1 .. n
    BY <1>1, <1>2, <2>1
  <2> QED
    BY <1>3, <1>4, <2>2 DEF ToSet
<1>8. \A x \in ToSet(s), y \in ToSet(t) : x <= y => x \in ToSet(t)
  BY <1>1, <1>3, <1>4, <1>7 DEF ToSet
<1> QED
  BY <1>3, <1>5, <1>6, <1>8 DEF t

(* Increasing sequences, one below the other, joined. *)
LEMMA JoinedIncreasing ==
    ASSUME NEW s \in Seq(Int), NEW t \in Seq(Int), Increasing(s), Increasing(t),
           \A x \in ToSet(s), y \in ToSet(t) : x < y
    PROVE  /\ s \o t \in Seq(Int) /\ Increasing(s \o t)
           /\ ToSet(s \o t) = ToSet(s) \cup ToSet(t)
<1> DEFINE u == s \o t
           m == Len(s)
           n == Len(t)
<1>1. /\ u \in Seq(Int) /\ Len(u) = m + n
      /\ \A i \in 1 .. m + n : u[i] = IF i <= m THEN s[i] ELSE t[i - m]
  BY ConcatProperties
<1>2. m \in Nat /\ DOMAIN s = 1 .. m /\ n \in Nat /\ DOMAIN t = 1 .. n
  BY LenProperties
<1>3. ToSet(u) = ToSet(s) \cup ToSet(t)
  BY RangeConcatenation, ToSetIsRange
<1>4. \A i, j \in 1 .. m : i < j => s[i] < s[j]
  BY DEF Increasing
<1>5. \A i, j \in 1 .. n : i < j => t[i] < t[j]
  BY DEF Increasing
<1>6. \A i \in 1 .. m, j \in 1 .. n : s[i] < t[j]
  <2>1. \A i \in 1 .. m : s[i] \in ToSet(s)
    BY <1>2 DEF ToSet
  <2>2. \A j \in 1 .. n : t[j] \in ToSet(t)
    BY <1>2 DEF ToSet
  <2> QED
    BY <2>1, <2>2
<1> HIDE DEF u, m, n
<1>7. ASSUME NEW i \in 1 .. m + n
      PROVE  \/ i \in 1 .. m /\ u[i] = s[i]
             \/ i > m /\ i - m \in 1 .. n /\ u[i] = t[i - m]
  <2>1. CASE i <= m
    BY ONLY <1>1, <1>2, <2>1
  <2>2. CASE ~(i <= m)
    <3>1. u[i] = t[i - m]
      BY ONLY <1>1, <2>2
    <3>2. i > m /\ i - m \in 1 .. n
      BY ONLY <1>2, <2>2
    <3> QED
      BY ONLY <3>1, <3>2
  <2> QED
    BY ONLY <2>1, <2>2
<1>8. ASSUME NEW i \in 1 .. m + n, NEW j \in 1 .. m + n, i < j PROVE u[i] < u[j]
  <2>1. CASE j \in 1 .. m /\ u[j] = s[j]
    <3>1. i \in 1 .. m /\ u[i] = s[i]
      BY ONLY <1>2, <1>7, <1>8, <2>1
    <3> QED
      BY ONLY <1>4, <1>8, <2>1, <3>1
  <2>2. CASE j - m \in 1 .. n /\ u[j] = t[j - m]
    <3>1. CASE i \in 1 .. m /\ u[i] = s[i]
      BY ONLY <1>6, <2>2, <3>1
    <3>2. CASE i - m \in 1 .. n /\ u[i] = t[i - m]
      <4>1. i - m < j - m
        BY ONLY <1>2, <1>8
      <4> QED
        BY ONLY <1>5, <2>2, <3>2, <4>1
    <3> QED
      BY ONLY <1>7, <3>1, <3>2
  <2> QED
    BY ONLY <1>7, <2>1, <2>2
<1>9. Increasing(u)
  BY ONLY <1>1, <1>8 DEF Increasing
<1> QED
  BY <1>1, <1>3, <1>9 DEF u

(* The head and the tail of an increasing sequence. *)
LEMMA TailIncreasing ==
    ASSUME NEW S \in SUBSET Int, NEW s \in Seq(S), Increasing(s), s # <<>>
    PROVE  /\ Tail(s) \in Seq(S) /\ Increasing(Tail(s)) /\ Head(s) \in S
           /\ ToSet(s) = {Head(s)} \cup ToSet(Tail(s))
<1> DEFINE t == Tail(s)
<1>1. Len(s) \in Nat /\ Len(s) >= 1 /\ DOMAIN s = 1 .. Len(s) /\ Head(s) = s[1]
  BY EmptySeq, LenProperties
<1>2. t \in Seq(S) /\ Len(t) = Len(s) - 1 /\ \A i \in 1 .. Len(s) - 1 : t[i] = s[i + 1]
  BY HeadTailProperties
<1>3. DOMAIN t = 1 .. Len(s) - 1
  BY <1>2, LenProperties
<1> HIDE DEF t
<1>4. Increasing(t)
  BY <1>1, <1>2 DEF Increasing
<1>5. \A i \in 1 .. Len(s) - 1 : t[i] \in ToSet(s)
  BY <1>1, <1>2 DEF ToSet
<1>6. ASSUME NEW i \in 1 .. Len(s), i # 1 PROVE s[i] \in ToSet(t)
  <2>1. i - 1 \in DOMAIN t /\ t[i - 1] = s[i]
    BY <1>1, <1>2, <1>3, <1>6
  <2> QED
    BY <2>1 DEF ToSet
<1>7. ToSet(s) \subseteq {s[1]} \cup ToSet(t)
  BY <1>1, <1>6 DEF ToSet
<1>8. {s[1]} \cup ToSet(t) \subseteq ToSet(s)
  BY <1>1, <1>3, <1>5 DEF ToSet
<1>9. Head(s) \in S
  BY <1>1
<1> QED
  BY <1>1, <1>2, <1>4, <1>7, <1>8, <1>9 DEF t

(* Its front and its last element. *)
LEMMA FrontIncreasing ==
    ASSUME NEW S \in SUBSET Int, NEW s \in Seq(S), Increasing(s), s # <<>>
    PROVE  /\ Front(s) \in Seq(S) /\ Increasing(Front(s)) /\ Last(s) \in S
           /\ ToSet(s) = ToSet(Front(s)) \cup {Last(s)}
<1> DEFINE t == Front(s)
           n == Len(s) - 1
<1>1. /\ Len(s) \in Nat /\ n \in 0 .. Len(s) /\ DOMAIN s = 1 .. Len(s)
      /\ Last(s) = s[n + 1] /\ n + 1 \in 1 .. Len(s)
      /\ \A i \in 1 .. n : i \in 1 .. Len(s)
  BY EmptySeq, LenProperties DEF Last
<1>2. t = SubSeq(s, 1, n)
  BY DEF Front
<1>3. t \in Seq(S) /\ Len(t) = n /\ \A i \in 1 .. n : t[i] = s[i]
  <2>1. \A i \in 1 .. n : s[i] \in S
    BY <1>1
  <2>2. n - 1 + 1 = n /\ \A i \in 1 .. n : 1 + i - 1 = i
    BY <1>1
  <2> HIDE DEF t, n
  <2> QED
    BY <1>1, <1>2, <2>1, <2>2, SubSeqProperties
<1>4. DOMAIN t = 1 .. n
  BY <1>3, LenProperties
<1> HIDE DEF t
<1>5. Increasing(t)
  <2>1. \A i, j \in 1 .. n : i < j => s[i] < s[j]
    BY <1>1 DEF Increasing
  <2> QED
    BY <1>3, <2>1 DEF Increasing
<1>6. ToSet(t) \cup {s[n + 1]} \subseteq ToSet(s)
  BY <1>1, <1>3, <1>4 DEF ToSet
<1>7. \A i \in 1 .. Len(s) : i \in 1 .. n \/ i = n + 1
  <2>1. Len(s) \in Nat /\ n = Len(s) - 1
    BY <1>1
  <2> HIDE DEF n
  <2> QED
    BY <2>1
<1>8. ToSet(s) \subseteq ToSet(t) \cup {s[n + 1]}
  BY <1>1, <1>3, <1>4, <1>7 DEF ToSet
<1> QED
  BY <1>1, <1>3, <1>5, <1>6, <1>8 DEF t

(* A new element at the end of a sequence without repetitions. *)
LEMMA OnceMore ==
    ASSUME NEW S, NEW s \in Seq(S), IsInjective(s), NEW e \in S, e \notin ToSet(s)
    PROVE  /\ Append(s, e) \in Seq(S) /\ IsInjective(Append(s, e))
           /\ ToSet(Append(s, e)) = ToSet(s) \cup {e}
           /\ Len(Append(s, e)) = Len(s) + 1
<1> DEFINE t == Append(s, e)
           n == Len(s)
<1>1. /\ n \in Nat /\ DOMAIN s = 1 .. n
      /\ t \in Seq(S) /\ Len(t) = n + 1 /\ DOMAIN t = 1 .. n + 1
      /\ (\A i \in 1 .. n : t[i] = s[i]) /\ t[n + 1] = e
  BY AppendProperties, LenProperties
<1>2. ToSet(t) = ToSet(s) \cup {e}
  BY OneMoreInRange, ToSetIsRange
<1> HIDE DEF t, n
<1>3. \A i \in 1 .. n : s[i] # e
  BY <1>1 DEF ToSet
<1>4. ASSUME NEW i \in 1 .. n + 1, NEW j \in 1 .. n + 1, t[i] = t[j] PROVE i = j
  <2>1. CASE i \in 1 .. n /\ j \in 1 .. n
    BY <1>1, <1>4, <2>1 DEF IsInjective
  <2>2. CASE i = n + 1 \/ j = n + 1
    BY <1>1, <1>3, <1>4, <2>2
  <2> QED
    BY <1>1, <2>1, <2>2
<1>5. IsInjective(t)
  BY <1>1, <1>4 DEF IsInjective
<1> QED
  BY <1>1, <1>2, <1>5 DEF t, n

-----------------------------------------------------------------------------
(* Images and parts of finite sets; sorting; sums. *)

(* The image of a finite set is finite, and no larger. *)
LEMMA ImageFacts ==
    ASSUME NEW S, IsFiniteSet(S), NEW f
    PROVE  LET T == {f[x] : x \in S}
           IN  /\ IsFiniteSet(T) /\ Cardinality(T) <= Cardinality(S)
               /\ Cardinality(T) \in Nat /\ Cardinality(S) \in Nat
<1> DEFINE T == {f[x] : x \in S}
           g == [x \in S |-> f[x]]
<1>1. g \in Surjection(S, T)
  <2>1. g \in [S -> T] /\ \A y \in T : \E x \in S : g[x] = y
    OBVIOUS
  <2> QED
    BY <2>1 DEF Surjection
<1> QED
  BY <1>1, FS_Surjection, FS_CardinalityType

(* So is a part of it. *)
LEMMA PartFacts ==
    ASSUME NEW S, IsFiniteSet(S), NEW T, T \subseteq S
    PROVE  /\ IsFiniteSet(T) /\ Cardinality(T) <= Cardinality(S)
           /\ Cardinality(T) \in Nat /\ Cardinality(S) \in Nat
BY FS_Subset, FS_CardinalityType

(* A strict order of all elements of a set. *)
Orders(before, S) ==
    /\ \A x \in S : <<x, x>> \notin before
    /\ \A x, y, z \in S : <<x, y>> \in before /\ <<y, z>> \in before => <<x, z>> \in before
    /\ \A x, y \in S : x = y \/ <<x, y>> \in before \/ <<y, x>> \in before

(* sorted() returns every element once, and in order: of two places the
   earlier holds the element that comes before. *)
LEMMA Ordered ==
    ASSUME NEW S, IsFiniteSet(S), NEW before, Orders(before, S)
    PROVE  LET s == SortedBy(S, before)
           IN  /\ s \in Seq(S) /\ Len(s) = Cardinality(S) /\ Cardinality(S) \in Nat
               /\ DOMAIN s = 1 .. Cardinality(S)
               /\ Range(s) = S /\ IsInjective(s)
               /\ \A i, j \in 1 .. Cardinality(S) : i < j <=> <<s[i], s[j]>> \in before
<1> DEFINE n == Cardinality(S)
           s == SortedBy(S, before)
           Below(x) == {y \in S : <<y, x>> \in before}
           R(x) == Cardinality(Below(x))
           place == [x \in S |-> R(x)]
<1>1. n \in Nat
  BY FS_CardinalityType
<1>2. \A x \in S : IsFiniteSet(Below(x)) /\ Cardinality(Below(x)) \in Nat
  BY FS_Subset, FS_CardinalityType
<1>3. ASSUME NEW x \in S, NEW y \in S, <<x, y>> \in before PROVE place[x] < place[y]
  <2>1. x \notin Below(x) /\ Below(x) \cup {x} \subseteq Below(y)
    BY <1>3 DEF Orders
  <2>2. Cardinality(Below(x) \cup {x}) = Cardinality(Below(x)) + 1
    BY <1>2, <2>1, FS_AddElement
  <2>3. Cardinality(Below(x) \cup {x}) <= Cardinality(Below(y))
    BY <1>2, <2>1, FS_Subset
  <2>4. place[x] = Cardinality(Below(x)) /\ place[y] = Cardinality(Below(y))
    OBVIOUS
  <2> HIDE DEF Below, place
  <2> QED
    BY <1>2, <2>2, <2>3, <2>4
<1>4. ASSUME NEW x \in S PROVE place[x] \in 0 .. n - 1
  <2>1. x \notin Below(x) /\ Below(x) \cup {x} \subseteq S
    BY DEF Orders
  <2>2. Cardinality(Below(x) \cup {x}) = Cardinality(Below(x)) + 1
    BY <1>2, <2>1, FS_AddElement
  <2>3. Cardinality(Below(x) \cup {x}) <= n
    BY <2>1, FS_Subset
  <2>4. place[x] = Cardinality(Below(x))
    OBVIOUS
  <2> HIDE DEF Below, place
  <2> QED
    BY <1>1, <1>2, <2>2, <2>3, <2>4
<1>0. \A x \in S : place[x] \in Int
  BY <1>1, <1>4
<1>00. \A x \in S : place[x] = R(x)
  OBVIOUS
<1> HIDE DEF place, R, Below
<1>5. ASSUME NEW x \in S, NEW y \in S, place[x] = place[y] PROVE x = y
  <2>1. place[x] \in Int /\ ~(place[x] < place[y]) /\ ~(place[y] < place[x])
    BY <1>0, <1>5
  <2>2. <<x, y>> \notin before
    BY <1>3, <2>1
  <2>3. <<y, x>> \notin before
    BY <1>3, <2>1
  <2> QED
    BY <2>2, <2>3 DEF Orders
<1>6. place \in Injection(S, 0 .. n - 1)
  BY <1>4, <1>5 DEF Injection, IsInjective, place
<1>7. place \in Surjection(S, 0 .. n - 1)
  <2>1. IsFiniteSet(0 .. n - 1) /\ Cardinality(0 .. n - 1) = n
    BY <1>1, FS_Interval
  <2> QED
    BY <1>6, <2>1, FS_Injection
<1>8. s = [i \in 1 .. n |-> CHOOSE x \in S : R(x) = i - 1]
  BY DEF SortedBy, R, Below
<1> HIDE DEF s
<1>9. ASSUME NEW i \in 1 .. n PROVE s[i] \in S /\ place[s[i]] = i - 1
  <2>1. i - 1 \in 0 .. n - 1
    BY <1>1
  <2>2. \E x \in S : place[x] = i - 1
    BY <1>7, <2>1 DEF Surjection
  <2>3. \E x \in S : R(x) = i - 1
    BY <1>00, <2>2
  <2>4. s[i] \in S /\ R(s[i]) = i - 1
    BY <1>8, <2>3
  <2> QED
    BY <1>00, <2>4
<1>10. ASSUME NEW x \in S PROVE place[x] + 1 \in 1 .. n /\ s[place[x] + 1] = x
  <2>1. place[x] + 1 \in 1 .. n /\ place[x] + 1 - 1 = place[x]
    BY <1>1, <1>4
  <2>2. s[place[x] + 1] \in S /\ place[s[place[x] + 1]] = place[x]
    <3> DEFINE k == place[x] + 1
    <3>1. k \in 1 .. n /\ k - 1 = place[x]
      BY <1>0, <1>1, <2>1
    <3>2. s[k] \in S /\ place[s[k]] = k - 1
      BY <1>9, <3>1
    <3> QED
      BY <3>1, <3>2
  <2> QED
    BY <1>5, <2>1, <2>2
<1>11. s \in Seq(S) /\ Len(s) = n /\ DOMAIN s = 1 .. n
  <2>1. s \in [1 .. n -> S]
    BY <1>8, <1>9
  <2> QED
    BY <1>1, <2>1, IsASeq, LenProperties
<1>12. Range(s) = S
  <2>1. Range(s) \subseteq S
    BY <1>9, <1>11 DEF Range
  <2>2. S \subseteq Range(s)
    BY <1>10, <1>11 DEF Range
  <2> QED
    BY <2>1, <2>2
<1>13. IsInjective(s)
  BY <1>9, <1>11 DEF IsInjective
<1>14. ASSUME NEW i \in 1 .. n, NEW j \in 1 .. n PROVE i < j <=> <<s[i], s[j]>> \in before
  <2>1. place[s[i]] = i - 1 /\ place[s[j]] = j - 1 /\ s[i] \in S /\ s[j] \in S /\ i \in Int /\ j \in Int
    BY <1>9
  <2>2. ASSUME <<s[i], s[j]>> \in before PROVE i < j
    BY <1>3, <2>1, <2>2
  <2>3. ASSUME i < j PROVE <<s[i], s[j]>> \in before
    <3>1. ~(<<s[j], s[i]>> \in before) /\ s[i] # s[j]
      BY <1>3, <2>1, <2>3
    <3> QED
      BY <2>1, <3>1 DEF Orders
  <2> QED
    BY <2>2, <2>3
<1> QED
  BY <1>1, <1>11, <1>12, <1>13, <1>14 DEF s

(* A sum over a finite set is what any U gives that adds one element at a time. *)
Adds(U, w, S) ==
    /\ U \in [SUBSET S -> Int] /\ U[{}] = 0
    /\ \A T \in SUBSET S : \A x \in T : U[T] = w[x] + U[T \ {x}]

(* A sum over a finite set is what any function that adds one element at a
   time says. *)
LEMMA SumIs ==
    ASSUME NEW S, IsFiniteSet(S), NEW w, NEW U, Adds(U, w, S)
    PROVE  SumFunctionOnSet(w, S) = U[S]
<1> USE DEF Adds
<1> DEFINE F(g) == [T \in SUBSET S |->
                      IF T = {} THEN 0
                      ELSE LET x == CHOOSE x \in T : TRUE IN w[x] + g[T \ {x}]]
<1>1. SumFunctionOnSet(w, S) = (CHOOSE g : g = F(g))[S]
  BY DEF SumFunctionOnSet, FoldFunctionOnSet, MapThenFoldSet
<1>2. U = F(U)
  <2>1. \A T \in SUBSET S :
           U[T] = IF T = {} THEN 0 ELSE LET x == CHOOSE x \in T : TRUE IN w[x] + U[T \ {x}]
    OBVIOUS
  <2> QED
    BY <2>1
<1> DEFINE g == CHOOSE h : h = F(h)
<1>3. g = F(g)
  <2> HIDE DEF F
  <2> QED
    BY <1>2
<1> HIDE DEF g
<1> DEFINE A == {k \in 0 .. Cardinality(S) : \A T \in SUBSET S : Cardinality(T) = k => g[T] = U[T]}
<1>4. Cardinality(S) \in Nat /\ \A T \in SUBSET S : IsFiniteSet(T) /\ Cardinality(T) \in Nat
  BY FS_CardinalityType, FS_Subset
<1>5. 0 \in A
  <2>1. \A T \in SUBSET S : Cardinality(T) = 0 => T = {}
    BY <1>4, FS_EmptySet
  <2>2. {} \in SUBSET S
    OBVIOUS
  <2>3. g[{}] = 0
    BY <1>3, <2>2
  <2>4. \A T \in SUBSET S : Cardinality(T) = 0 => g[T] = U[T]
    BY <2>1, <2>3
  <2> QED
    BY <1>4, <2>4
<1>6. ASSUME NEW k \in 1 .. Cardinality(S), k - 1 \in A PROVE k \in A
  <2> SUFFICES ASSUME NEW T \in SUBSET S, Cardinality(T) = k PROVE g[T] = U[T]
    BY <1>4
  <2>1. T # {}
    <3>1. Cardinality({}) = 0 /\ k # 0
      BY FS_EmptySet
    <3> QED
      BY <3>1
  <2> DEFINE x == CHOOSE x \in T : TRUE
  <2>2. x \in T
    BY <2>1
  <2>3. Cardinality(T \ {x}) = k - 1 /\ T \ {x} \in SUBSET S
    BY <1>4, <2>2, FS_RemoveElement
  <2>4. g[T] = w[x] + g[T \ {x}]
    BY <1>3, <2>1
  <2> QED
    BY <1>6, <2>2, <2>3, <2>4
<1>7. Cardinality(S) \in A
  <2>1. Cardinality(S) \in 0 .. Cardinality(S)
    BY <1>4
  <2> HIDE DEF A
  <2> QED
    BY <1>4, <1>5, <1>6, <2>1, CountingUp
<1> QED
  BY <1>1, <1>7 DEF g

(* Counting the elements of a set key by key. *)
LEMMA CountByKey ==
    ASSUME NEW S, IsFiniteSet(S), NEW K, IsFiniteSet(K), NEW key, \A x \in S : key[x] \in K
    PROVE  SumFunction([k \in K |-> Cardinality({x \in S : key[x] = k})]) = Cardinality(S)
<1> DEFINE In(T) == {x \in S : key[x] \in T}
           w == [k \in K |-> Cardinality({x \in S : key[x] = k})]
           U == [T \in SUBSET K |-> Cardinality(In(T))]
<1>1. \A T : IsFiniteSet(In(T)) /\ Cardinality(In(T)) \in Nat
  BY FS_Subset, FS_CardinalityType
<1>2. U \in [SUBSET K -> Int]
  BY <1>1
<1>3. U[{}] = 0
  <2>1. In({}) = {}
    OBVIOUS
  <2> QED
    BY <2>1, FS_EmptySet
<1>4. ASSUME NEW T \in SUBSET K, NEW k \in T PROVE U[T] = w[k] + U[T \ {k}]
  <2> DEFINE A == {x \in S : key[x] = k}
             B == In(T \ {k})
  <2>1. In(T) = A \cup B /\ A \cap B = {}
    OBVIOUS
  <2>2. IsFiniteSet(A) /\ Cardinality(A) \in Nat
    BY FS_Subset, FS_CardinalityType
  <2>3. U[T] = Cardinality(In(T)) /\ U[T \ {k}] = Cardinality(B) /\ w[k] = Cardinality(A)
    OBVIOUS
  <2>4. Cardinality(A \cup B) = Cardinality(A) + Cardinality(B) - Cardinality(A \cap B)
    BY <1>1, <2>2, FS_Union
  <2>5. Cardinality(B) \in Nat
    BY <1>1
  <2> HIDE DEF A, B, In, U, w
  <2> QED
    BY <2>1, <2>2, <2>3, <2>4, <2>5, FS_EmptySet
<1>5. U[K] = Cardinality(S)
  <2>1. In(K) = S
    OBVIOUS
  <2> QED
    BY <2>1
<1>6. DOMAIN w = K
  OBVIOUS
<1> HIDE DEF U, w, In
<1>7. SumFunctionOnSet(w, K) = U[K]
  <2>1. \A T \in SUBSET K : \A k \in T : U[T] = w[k] + U[T \ {k}]
    BY <1>4
  <2>2. Adds(U, w, K)
    BY <1>2, <1>3, <2>1 DEF Adds
  <2> QED
    BY <2>2, SumIs
<1> QED
  BY <1>5, <1>6, <1>7 DEF SumFunction, w

(* A sum of numbers, one element at a time. *)
LEMMA SumSteps ==
    ASSUME NEW S, IsFiniteSet(S), NEW w, \A x \in S : w[x] \in Nat
    PROVE  /\ SumFunctionOnSet(w, {}) = 0
           /\ \A T \in SUBSET S :
                 /\ SumFunctionOnSet(w, T) \in Nat
                 /\ \A x \in T : SumFunctionOnSet(w, T) = w[x] + SumFunctionOnSet(w, T \ {x})
<1> DEFINE Under(T) == UNION {{x} \X (1 .. w[x]) : x \in T}
           U == [T \in SUBSET S |-> Cardinality(Under(T))]
<1>1. ASSUME NEW x \in S
      PROVE  IsFiniteSet({x} \X (1 .. w[x])) /\ Cardinality({x} \X (1 .. w[x])) = w[x]
  <2>1. IsFiniteSet(1 .. w[x]) /\ Cardinality(1 .. w[x]) = w[x]
    BY FS_Interval
  <2>2. IsFiniteSet({x}) /\ Cardinality({x}) = 1
    BY FS_Singleton
  <2>3. 1 * w[x] = w[x]
    OBVIOUS
  <2> QED
    BY <2>1, <2>2, <2>3, FS_Product
<1>2. ASSUME NEW T \in SUBSET S PROVE IsFiniteSet(Under(T)) /\ Cardinality(Under(T)) \in Nat
  <2> DEFINE F == {{x} \X (1 .. w[x]) : x \in T}
             f == [x \in T |-> {x} \X (1 .. w[x])]
  <2>1. IsFiniteSet(T)
    BY FS_Subset
  <2>2. f \in Surjection(T, F)
    BY DEF Surjection
  <2>3. IsFiniteSet(F) /\ \A X \in F : IsFiniteSet(X)
    BY <1>1, <2>1, <2>2, FS_Surjection
  <2> QED
    BY <2>3, FS_UNION, FS_CardinalityType
<1>3. ASSUME NEW T \in SUBSET S, NEW x \in T
      PROVE  Cardinality(Under(T)) = w[x] + Cardinality(Under(T \ {x}))
  <2> DEFINE A == {x} \X (1 .. w[x])
             B == Under(T \ {x})
  <2>1. Under(T) = A \cup B
    OBVIOUS
  <2>2. A \cap B = {}
    <3> SUFFICES ASSUME NEW p \in A, NEW y \in T \ {x}, p \in {y} \X (1 .. w[y]) PROVE FALSE
      OBVIOUS
    <3> QED
      OBVIOUS
  <2>3. T \ {x} \in SUBSET S
    OBVIOUS
  <2>4. IsFiniteSet(A) /\ Cardinality(A) = w[x] /\ IsFiniteSet(B) /\ Cardinality(B) \in Nat
    BY <1>1, <1>2, <2>3
  <2> HIDE DEF A, B, Under
  <2>5. Cardinality(A \cup B) = Cardinality(A) + Cardinality(B) - Cardinality(A \cap B)
    BY <2>4, FS_Union
  <2>6. w[x] \in Nat
    OBVIOUS
  <2>7. Cardinality(Under(T)) = w[x] + Cardinality(B)
    BY <2>1, <2>2, <2>4, <2>5, <2>6, FS_EmptySet
  <2> QED
    BY <2>7 DEF B
<1>4. Under({}) = {}
  OBVIOUS
<1> HIDE DEF Under
<1>5. ASSUME NEW T \in SUBSET S PROVE SumFunctionOnSet(w, T) = Cardinality(Under(T))
  <2> DEFINE V == [X \in SUBSET T |-> Cardinality(Under(X))]
  <2>1. V \in [SUBSET T -> Int]
    BY <1>2
  <2>2. V[{}] = 0
    BY <1>4, FS_EmptySet
  <2>3. ASSUME NEW X \in SUBSET T, NEW x \in X PROVE V[X] = w[x] + V[X \ {x}]
    <3>1. X \in SUBSET S /\ X \ {x} \in SUBSET T
      OBVIOUS
    <3> QED
      BY <1>3, <3>1
  <2>4. V[T] = Cardinality(Under(T)) /\ IsFiniteSet(T)
    BY FS_Subset
  <2> HIDE DEF V
  <2>5. \A X \in SUBSET T : \A x \in X : V[X] = w[x] + V[X \ {x}]
    BY <2>3
  <2>6. SumFunctionOnSet(w, T) = V[T]
    <3>1. Adds(V, w, T)
      BY <2>1, <2>2, <2>5 DEF Adds
    <3> QED
      BY <2>4, <3>1, SumIs
  <2> QED
    BY <2>4, <2>6
<1>6. SumFunctionOnSet(w, {}) = 0
  BY <1>4, <1>5, FS_EmptySet
<1>7. ASSUME NEW T \in SUBSET S, NEW x \in T
      PROVE  SumFunctionOnSet(w, T) = w[x] + SumFunctionOnSet(w, T \ {x})
  <2>1. T \ {x} \in SUBSET S
    OBVIOUS
  <2> QED
    BY <1>3, <1>5, <2>1
<1> QED
  BY <1>2, <1>5, <1>6, <1>7

(* Equal terms, equal sums. *)
LEMMA SumAgrees ==
    ASSUME NEW S, IsFiniteSet(S), NEW w, NEW v, \A x \in S : w[x] = v[x] /\ v[x] \in Nat
    PROVE  SumFunctionOnSet(w, S) = SumFunctionOnSet(v, S)
<1> DEFINE U == [T \in SUBSET S |-> SumFunctionOnSet(v, T)]
<1>1. /\ SumFunctionOnSet(v, {}) = 0
      /\ \A T \in SUBSET S :
            /\ SumFunctionOnSet(v, T) \in Nat
            /\ \A x \in T : SumFunctionOnSet(v, T) = v[x] + SumFunctionOnSet(v, T \ {x})
  BY SumSteps
<1>2. U \in [SUBSET S -> Int] /\ U[{}] = 0
  BY <1>1
<1>3. ASSUME NEW T \in SUBSET S, NEW x \in T PROVE U[T] = w[x] + U[T \ {x}]
  <2>1. x \in S /\ T \ {x} \in SUBSET S
    OBVIOUS
  <2> QED
    BY <1>1, <2>1
<1>4. U[S] = SumFunctionOnSet(v, S)
  OBVIOUS
<1> HIDE DEF U
<1>5. Adds(U, w, S)
  BY <1>2, <1>3 DEF Adds
<1> QED
  BY <1>4, <1>5, SumIs

(* A sum over more elements is no smaller. *)
LEMMA SumGrows ==
    ASSUME NEW S, IsFiniteSet(S), NEW w, \A x \in S : w[x] \in Nat, NEW T, T \subseteq S
    PROVE  /\ SumFunctionOnSet(w, T) \in Nat /\ SumFunctionOnSet(w, S) \in Nat
           /\ SumFunctionOnSet(w, T) <= SumFunctionOnSet(w, S)
<1> DEFINE Sum(X) == SumFunctionOnSet(w, X)
           bad == {X \in SUBSET S : T \subseteq X /\ ~(Sum(T) <= Sum(X))}
           sizes == {Cardinality(X) : X \in bad}
<1>1. \A X \in SUBSET S : Sum(X) \in Nat /\ \A x \in X : Sum(X) = w[x] + Sum(X \ {x})
  BY SumSteps
<1>2. \A X \in SUBSET S : IsFiniteSet(X) /\ Cardinality(X) \in Nat
  BY PartFacts
<1> HIDE DEF Sum
<1>3. ASSUME bad # {} PROVE FALSE
  <2>1. sizes # {} /\ sizes \subseteq Nat
    BY <1>2, <1>3
  <2>2. PICK m \in sizes : \A k \in sizes : m <= k
    <3> HIDE DEF sizes
    <3> QED
      BY <2>1, LeastNat
  <2>3. PICK X \in bad : Cardinality(X) = m
    OBVIOUS
  <2>4. X # T
    BY <1>1
  <2>5. PICK x \in X : x \notin T
    BY <2>4
  <2> DEFINE Y == X \ {x}
  <2>6. Y \in SUBSET S /\ T \subseteq Y
    BY <2>5
  <2>7. Cardinality(Y) = m - 1 /\ m \in Nat
    BY <1>2, <2>3, FS_RemoveElement
  <2>8. Y \notin bad
    BY <2>2, <2>7
  <2>9. Sum(T) <= Sum(Y)
    BY <2>6, <2>8
  <2>10. Sum(X) = w[x] + Sum(Y) /\ Sum(Y) \in Nat /\ w[x] \in Nat /\ Sum(T) \in Nat
    BY <1>1, <2>6
  <2> HIDE DEF Y
  <2> QED
    BY <2>3, <2>9, <2>10
<1>4. Sum(T) \in Nat /\ Sum(S) \in Nat /\ Sum(T) <= Sum(S)
  BY <1>1, <1>3
<1> QED
  BY <1>4 DEF Sum

(* A sum is at most as many times its largest element as it has elements,
   and at least each of them. *)
LEMMA SumAtMost ==
    ASSUME NEW S, IsFiniteSet(S), NEW w, NEW m \in Nat, \A x \in S : w[x] \in Nat /\ w[x] <= m
    PROVE  /\ SumFunctionOnSet(w, S) \in Nat /\ Cardinality(S) \in Nat
           /\ SumFunctionOnSet(w, S) <= Cardinality(S) * m
           /\ \A x \in S : w[x] <= SumFunctionOnSet(w, S)
<1> DEFINE Sum(X) == SumFunctionOnSet(w, X)
           bad == {X \in SUBSET S : ~(Sum(X) <= Cardinality(X) * m)}
           sizes == {Cardinality(X) : X \in bad}
<1>1. /\ Sum({}) = 0
      /\ \A X \in SUBSET S : Sum(X) \in Nat /\ \A x \in X : Sum(X) = w[x] + Sum(X \ {x})
  BY SumSteps
<1>2. \A X \in SUBSET S : IsFiniteSet(X) /\ Cardinality(X) \in Nat
  BY PartFacts
<1> HIDE DEF Sum
<1>3. ASSUME bad # {} PROVE FALSE
  <2>1. sizes # {} /\ sizes \subseteq Nat
    BY <1>2, <1>3
  <2>2. PICK k \in sizes : \A l \in sizes : k <= l
    <3> HIDE DEF sizes
    <3> QED
      BY <2>1, LeastNat
  <2>3. PICK X \in bad : Cardinality(X) = k
    OBVIOUS
  <2>4. X # {}
    <3> SUFFICES ASSUME X = {} PROVE FALSE
      OBVIOUS
    <3>1. Cardinality(X) = 0 /\ Sum(X) = 0 /\ 0 * m = 0
      BY <1>1, FS_EmptySet
    <3>2. ~(Sum(X) <= Cardinality(X) * m)
      OBVIOUS
    <3> QED
      BY <3>1, <3>2
  <2>5. PICK x \in X : TRUE
    BY <2>4
  <2> DEFINE Y == X \ {x}
  <2>6. Y \in SUBSET S
    OBVIOUS
  <2>7. Cardinality(Y) = k - 1 /\ k \in Nat /\ k - 1 \in Nat
    <3>1. IsFiniteSet(X) /\ Cardinality(X) \in Nat /\ Cardinality(Y) \in Nat
      BY <1>2, <2>6
    <3>2. Cardinality(Y) = Cardinality(X) - 1
      BY <2>5, <3>1, FS_RemoveElement
    <3> HIDE DEF Y
    <3> QED
      BY <2>3, <3>1, <3>2
  <2>8. Y \notin bad
    BY <2>2, <2>7
  <2>9. Sum(Y) <= (k - 1) * m
    BY <2>6, <2>7, <2>8
  <2>10. Sum(X) = w[x] + Sum(Y) /\ Sum(Y) \in Nat /\ w[x] \in Nat /\ w[x] <= m
    BY <1>1, <2>5, <2>6
  <2>11. (k - 1) * m + m = k * m /\ k * m \in Nat /\ (k - 1) * m \in Nat
    BY <2>7
  <2>12. ~(Sum(X) <= k * m)
    BY <2>3
  <2> HIDE DEF Y, bad
  <2> QED
    BY <2>9, <2>10, <2>11, <2>12
<1>4. Sum(S) \in Nat /\ Sum(S) <= Cardinality(S) * m
  BY <1>1, <1>3
<1>5. \A x \in S : w[x] <= Sum(S)
  <2> SUFFICES ASSUME NEW x \in S PROVE w[x] <= Sum(S)
    OBVIOUS
  <2>1. Sum(S) = w[x] + Sum(S \ {x}) /\ Sum(S \ {x}) \in Nat /\ w[x] \in Nat
    BY <1>1
  <2> QED
    BY <2>1
<1> QED
  BY <1>2, <1>4, <1>5 DEF Sum

(* A sum of one element, and of none. *)
LEMMA SumOfOne ==
    ASSUME NEW x, NEW w, DOMAIN w = {x}, w[x] \in Nat
    PROVE  SumFunction(w) = w[x]
<1>1. IsFiniteSet({x}) /\ \A y \in {x} : w[y] \in Nat
  BY FS_Singleton
<1>2. SumFunctionOnSet(w, {}) = 0 /\ SumFunctionOnSet(w, {x}) = w[x] + SumFunctionOnSet(w, {x} \ {x})
  BY <1>1, SumSteps
<1>3. {x} \ {x} = {}
  OBVIOUS
<1> QED
  BY <1>2, <1>3 DEF SumFunction
LEMMA SumOfNone ==
    ASSUME NEW w, DOMAIN w = {}
    PROVE  SumFunction(w) = 0
<1>1. IsFiniteSet({}) /\ \A y \in {} : w[y] \in Nat
  BY FS_EmptySet
<1>2. SumFunctionOnSet(w, {}) = 0
  BY <1>1, SumSteps
<1> QED
  BY <1>2 DEF SumFunction

(* Numbers in order ascend. *)
LEMMA NumbersInOrder ==
    ASSUME NEW S, IsFiniteSet(S), S \subseteq Nat
    PROVE  LET s == SortedNumbers(S)
           IN  /\ s \in Seq(S) /\ Len(s) = Cardinality(S) /\ Len(s) \in Nat /\ DOMAIN s = 1..Len(s)
               /\ Range(s) = S /\ IsInjective(s)
               /\ \A i, j \in 1..Len(s) : i < j => s[i] < s[j]
<1> DEFINE before == {p \in S \X S : p[1] < p[2]}
           s == SortedBy(S, before)
<1>1. \A a, b \in S : <<a, b>> \in before <=> a < b
  OBVIOUS
<1> HIDE DEF before
<1>2. Orders(before, S)
  BY <1>1 DEF Orders
<1>3. /\ s \in Seq(S) /\ Len(s) = Cardinality(S) /\ Cardinality(S) \in Nat
      /\ DOMAIN s = 1..Cardinality(S) /\ Range(s) = S /\ IsInjective(s)
      /\ \A i, j \in 1..Cardinality(S) : i < j <=> <<s[i], s[j]>> \in before
  BY <1>2, Ordered
<1> HIDE DEF s
<1>4. \A i, j \in 1..Len(s) : i < j => s[i] < s[j]
  <2>1. \A i \in 1..Len(s) : s[i] \in S
    BY <1>3 DEF Range
  <2> QED
    BY <1>1, <1>3, <2>1
<1> QED
  BY <1>3, <1>4 DEF SortedNumbers, s, before
=============================================================================
