----------------------------- MODULE LibraryLemmas -----------------------------
(***************************************************************************)
(* Facts about the library operators the models are built from: inserting  *)
(* into a sequence and removing from it, and the sum of the weights of a   *)
(* finite set.  A sum is the value of a recursive function; the inductions *)
(* about it are over sets of numbers, from the theorem that a well-founded *)
(* relation has minima.                                                    *)
(***************************************************************************)
EXTENDS SequencesExt, SequenceTheorems, FiniteSetTheorems, TLAPS

\* Every nonempty set of numbers has a least element.
LEMMA Least ==
  ASSUME NEW S, S \subseteq Nat, S # {}
  PROVE  \E i \in S : \A j \in S : i <= j
<1> DEFINE R == {pair \in Nat \X Nat : pair[1] < pair[2]}
<1>1. IsWellFoundedOn(R, Nat)
  BY NatLessThanWellFounded, Zenon DEF OpToRel
<1> HIDE DEF R
<1>2. PICK i \in S : \A j \in S : <<j, i>> \notin R
  BY <1>1, WFMin, Zenon
<1>3. ASSUME NEW j \in S PROVE i <= j
  <2>1. i \in Nat /\ j \in Nat
    BY <1>3
  <2>2. ~(j < i)
    BY <1>2, <1>3, <2>1 DEF R
  <2> QED BY <2>1, <2>2
<1> QED BY <1>3

\* A set of numbers with 0 and every successor of its members has them all.
LEMMA Induction ==
  ASSUME NEW T, 0 \in T, \A n \in Nat : n \in T => n + 1 \in T
  PROVE  \A n \in Nat : n \in T
<1> SUFFICES ASSUME NEW m \in Nat, m \notin T PROVE FALSE
  OBVIOUS
<1> DEFINE S == Nat \ T
<1>1. PICK i \in S : \A j \in S : i <= j
  <2>1. S \subseteq Nat /\ m \in S
    OBVIOUS
  <2> HIDE DEF S
  <2> QED BY <2>1, Least
<1>2. i \in Nat /\ i # 0 /\ i - 1 \in Nat /\ i = (i - 1) + 1
  OBVIOUS
<1>3. i - 1 \notin S
  BY <1>1, <1>2
<1> QED BY <1>2, <1>3

----------------------------------------------------------------------------
(* What the list operations return. *)

\* r is the sequence s over S with e inserted at place i, or with its place i removed.
IsInsertion(S, s, i, e, r) ==
  /\ r \in Seq(S) /\ Len(r) = Len(s) + 1 /\ DOMAIN r = 1..(Len(s) + 1)
  /\ \A j \in 1..(Len(s) + 1) : r[j] = IF j < i THEN s[j] ELSE IF j = i THEN e ELSE s[j - 1]
IsRemoval(S, s, i, r) ==
  /\ r \in Seq(S) /\ Len(r) = Len(s) - 1 /\ DOMAIN r = 1..(Len(s) - 1)
  /\ \A j \in 1..(Len(s) - 1) : r[j] = IF j < i THEN s[j] ELSE s[j + 1]

\* What inserting one element into a sequence returns.
LEMMA InsertAtIsSeq ==
  ASSUME NEW S, NEW s \in Seq(S), NEW e \in S, NEW i \in 1..(Len(s) + 1)
  PROVE  IsInsertion(S, s, i, e, InsertAt(s, i, e))
<1> DEFINE a == SubSeq(s, 1, i - 1)
           b == SubSeq(s, i, Len(s))
           ab == a \o <<e>>
<1>1. /\ a \in Seq(S) /\ Len(a) = i - 1 /\ \A j \in 1..(i - 1) : a[j] = s[j]
  BY SubSeqProperties, ElementOfSeq, LenProperties
<1>2. /\ b \in Seq(S) /\ Len(b) = Len(s) - i + 1
      /\ \A j \in 1..(Len(s) - i + 1) : b[j] = s[i + j - 1]
  BY SubSeqProperties, ElementOfSeq, LenProperties
<1>3. <<e>> \in Seq(S) /\ Len(<<e>>) = 1 /\ <<e>>[1] = e
  OBVIOUS
<1> HIDE DEF a, b
<1>4. /\ ab \in Seq(S) /\ Len(ab) = i
      /\ \A j \in 1..i : ab[j] = IF j < i THEN s[j] ELSE e
  BY <1>1, <1>3, ConcatProperties
<1> HIDE DEF ab
<1>5. /\ ab \o b \in Seq(S) /\ Len(ab \o b) = Len(ab) + Len(b)
      /\ \A j \in 1..(Len(ab) + Len(b)) :
           (ab \o b)[j] = IF j <= Len(ab) THEN ab[j] ELSE b[j - Len(ab)]
  BY <1>2, <1>4, ConcatProperties
<1>6. Len(s) \in Nat /\ Len(ab) + Len(b) = Len(s) + 1
  BY <1>2, <1>4
<1>7. ASSUME NEW j \in 1..(Len(s) + 1)
      PROVE  (ab \o b)[j] = IF j < i THEN s[j] ELSE IF j = i THEN e ELSE s[j - 1]
  <2>1. CASE j <= i
    BY <2>1, <1>4, <1>5, <1>6
  <2>2. CASE j > i
    <3>1. j - i \in 1..(Len(s) - i + 1) /\ i + (j - i) - 1 = j - 1
      BY <2>2, <1>6
    <3>2. (ab \o b)[j] = b[j - i] /\ b[j - i] = s[j - 1]
      BY <2>2, <3>1, <1>2, <1>4, <1>5, <1>6
    <3> QED BY <2>2, <3>2, <1>6
  <2> QED BY <2>1, <2>2, <1>6
<1>8. InsertAt(s, i, e) = ab \o b
  BY DEF InsertAt, a, b, ab
<1>9. ab \o b \in Seq(S) /\ Len(ab \o b) = Len(s) + 1 /\ DOMAIN (ab \o b) = 1..(Len(s) + 1)
  BY <1>5, <1>6
<1> QED BY <1>7, <1>8, <1>9 DEF IsInsertion

\* What removing one element from a sequence returns.
LEMMA RemoveAtIsSeq ==
  ASSUME NEW S, NEW s \in Seq(S), NEW i \in 1..Len(s)
  PROVE  IsRemoval(S, s, i, RemoveAt(s, i))
<1> DEFINE a == SubSeq(s, 1, i - 1)
           b == SubSeq(s, i + 1, Len(s))
<1>1. /\ a \in Seq(S) /\ Len(a) = i - 1 /\ \A j \in 1..(i - 1) : a[j] = s[j]
  BY SubSeqProperties, ElementOfSeq, LenProperties
<1>2. /\ b \in Seq(S) /\ Len(b) = Len(s) - i
      /\ \A j \in 1..(Len(s) - i) : b[j] = s[i + j]
  BY SubSeqProperties, ElementOfSeq, LenProperties
<1> HIDE DEF a, b
<1>3. /\ a \o b \in Seq(S) /\ Len(a \o b) = Len(a) + Len(b)
      /\ \A j \in 1..(Len(a) + Len(b)) :
           (a \o b)[j] = IF j <= Len(a) THEN a[j] ELSE b[j - Len(a)]
  BY <1>1, <1>2, ConcatProperties
<1>4. Len(s) \in Nat /\ Len(a) + Len(b) = Len(s) - 1
  BY <1>1, <1>2
<1>5. ASSUME NEW j \in 1..(Len(s) - 1)
      PROVE  (a \o b)[j] = IF j < i THEN s[j] ELSE s[j + 1]
  <2>1. CASE j < i
    BY <2>1, <1>1, <1>3, <1>4
  <2>2. CASE j >= i
    <3>1. j - (i - 1) \in 1..(Len(s) - i) /\ i + (j - (i - 1)) = j + 1
      BY <2>2, <1>4
    <3>2. (a \o b)[j] = b[j - (i - 1)] /\ b[j - (i - 1)] = s[j + 1]
      BY <2>2, <3>1, <1>1, <1>2, <1>3, <1>4
    <3> QED BY <2>2, <3>2, <1>4
  <2> QED BY <2>1, <2>2, <1>4
<1>6. RemoveAt(s, i) = a \o b
  BY DEF RemoveAt, a, b
<1>7. a \o b \in Seq(S) /\ Len(a \o b) = Len(s) - 1 /\ DOMAIN (a \o b) = 1..(Len(s) - 1)
  BY <1>3, <1>4
<1> QED BY <1>5, <1>6, <1>7 DEF IsRemoval

\* The elements of a sequence.
Distinct(s) == \A i, j \in DOMAIN s : s[i] = s[j] => i = j
Has(s, x) == \E i \in DOMAIN s : s[i] = x

\* Inserting a new element keeps the elements distinct and adds just that element.
LEMMA InsertKeeps ==
  ASSUME NEW S, NEW s \in Seq(S), NEW e \in S, NEW i \in 1..(Len(s) + 1),
         Distinct(s), ~Has(s, e)
  PROVE  /\ Distinct(InsertAt(s, i, e))
         /\ \A x : Has(InsertAt(s, i, e), x) <=> (x = e \/ Has(s, x))
<1> DEFINE r == InsertAt(s, i, e)
<1>0. IsInsertion(S, s, i, e, r)
  BY InsertAtIsSeq
<1> HIDE DEF r
<1>1. /\ r \in Seq(S) /\ Len(r) = Len(s) + 1 /\ DOMAIN r = 1..(Len(s) + 1)
      /\ \A j \in 1..(Len(s) + 1) :
           r[j] = IF j < i THEN s[j] ELSE IF j = i THEN e ELSE s[j - 1]
  BY <1>0 DEF IsInsertion
<1>2. Len(s) \in Nat /\ DOMAIN s = 1..Len(s)
  OBVIOUS
<1>3. ASSUME NEW j \in DOMAIN r, NEW k \in DOMAIN r, r[j] = r[k], j < k
      PROVE  FALSE
  <2>1. j = i => r[k] = s[k - 1] /\ k - 1 \in DOMAIN s  BY <1>1, <1>2, <1>3
  <2>2. j < i /\ k = i => r[j] = s[j] /\ j \in DOMAIN s  BY <1>1, <1>2, <1>3
  <2>3. j < i /\ k < i => s[j] = s[k] /\ j \in DOMAIN s /\ k \in DOMAIN s  BY <1>1, <1>2, <1>3
  <2>4. j < i /\ k > i => s[j] = s[k - 1] /\ j \in DOMAIN s /\ k - 1 \in DOMAIN s /\ j # k - 1
    BY <1>1, <1>2, <1>3
  <2>5. j > i => s[j - 1] = s[k - 1] /\ j - 1 \in DOMAIN s /\ k - 1 \in DOMAIN s
    BY <1>1, <1>2, <1>3
  <2>6. r[i] = e  BY <1>1, <1>2
  <2> QED BY <2>1, <2>2, <2>3, <2>4, <2>5, <2>6, <1>1, <1>3 DEF Distinct, Has
<1>4. Distinct(r)  BY <1>1, <1>3 DEF Distinct
<1>5. ASSUME NEW x, Has(r, x)
      PROVE  x = e \/ Has(s, x)
  <2>1. PICK j \in 1..(Len(s) + 1) : r[j] = x  BY <1>1, <1>5 DEF Has
  <2>2. j < i => j \in DOMAIN s /\ s[j] = x  BY <1>1, <1>2, <2>1
  <2>3. j > i => j - 1 \in DOMAIN s /\ s[j - 1] = x  BY <1>1, <1>2, <2>1
  <2> QED BY <1>1, <2>1, <2>2, <2>3 DEF Has
<1>6. ASSUME NEW x, Has(s, x)
      PROVE  Has(r, x)
  <2>1. PICK j \in 1..Len(s) : s[j] = x  BY <1>2, <1>6 DEF Has
  <2>2. j < i => j \in DOMAIN r /\ r[j] = x  BY <1>1, <1>2, <2>1
  <2>3. j >= i => j + 1 \in DOMAIN r /\ r[j + 1] = x  BY <1>1, <1>2, <2>1
  <2> QED BY <2>1, <2>2, <2>3 DEF Has
<1>7. Has(r, e)  BY <1>1, <1>2 DEF Has
<1> QED BY <1>4, <1>5, <1>6, <1>7 DEF r

\* Removing one of distinct elements removes just that element.
LEMMA RemoveKeeps ==
  ASSUME NEW S, NEW s \in Seq(S), NEW i \in 1..Len(s), Distinct(s)
  PROVE  /\ Distinct(RemoveAt(s, i))
         /\ \A x : Has(RemoveAt(s, i), x) <=> (Has(s, x) /\ x # s[i])
<1> DEFINE r == RemoveAt(s, i)
<1>0. IsRemoval(S, s, i, r)
  BY RemoveAtIsSeq
<1> HIDE DEF r
<1>1. /\ r \in Seq(S) /\ Len(r) = Len(s) - 1 /\ DOMAIN r = 1..(Len(s) - 1)
      /\ \A j \in 1..(Len(s) - 1) : r[j] = IF j < i THEN s[j] ELSE s[j + 1]
  BY <1>0 DEF IsRemoval
<1>2. Len(s) \in Nat /\ DOMAIN s = 1..Len(s)
  OBVIOUS
<1>3. ASSUME NEW j \in DOMAIN r, NEW k \in DOMAIN r, r[j] = r[k], j < k
      PROVE  FALSE
  <2>1. k < i => s[j] = s[k] /\ j \in DOMAIN s /\ k \in DOMAIN s  BY <1>1, <1>2, <1>3
  <2>2. j < i /\ k >= i => s[j] = s[k + 1] /\ j \in DOMAIN s /\ k + 1 \in DOMAIN s /\ j # k + 1
    BY <1>1, <1>2, <1>3
  <2>3. j >= i => s[j + 1] = s[k + 1] /\ j + 1 \in DOMAIN s /\ k + 1 \in DOMAIN s
    BY <1>1, <1>2, <1>3
  <2> QED BY <2>1, <2>2, <2>3, <1>1, <1>3 DEF Distinct
<1>4. Distinct(r)  BY <1>1, <1>3 DEF Distinct
<1>5. ASSUME NEW x, Has(r, x)
      PROVE  Has(s, x) /\ x # s[i]
  <2>1. PICK j \in 1..(Len(s) - 1) : r[j] = x  BY <1>1, <1>5 DEF Has
  <2>2. j < i => j \in DOMAIN s /\ s[j] = x /\ j # i  BY <1>1, <1>2, <2>1
  <2>3. j >= i => j + 1 \in DOMAIN s /\ s[j + 1] = x /\ j + 1 # i  BY <1>1, <1>2, <2>1
  <2> QED BY <1>2, <2>1, <2>2, <2>3 DEF Has, Distinct
<1>6. ASSUME NEW x, Has(s, x), x # s[i]
      PROVE  Has(r, x)
  <2>1. PICK j \in 1..Len(s) : s[j] = x  BY <1>2, <1>6 DEF Has
  <2>2. j < i => j \in DOMAIN r /\ r[j] = x  BY <1>1, <1>2, <2>1
  <2>3. j > i => j - 1 \in DOMAIN r /\ r[j - 1] = x  BY <1>1, <1>2, <2>1
  <2> QED BY <1>6, <2>1, <2>2, <2>3 DEF Has
<1> QED BY <1>4, <1>5, <1>6 DEF r

\* RemoveFirst takes out one occurrence of an element, if there is one.
LEMMA RemoveFirstIs ==
  ASSUME NEW S, NEW s \in Seq(S), NEW e, Has(s, e)
  PROVE  \E i \in 1..Len(s) : s[i] = e /\ RemoveFirst(s, e) = RemoveAt(s, i)
<1> DEFINE I == {i \in 1..Len(s) : s[i] = e}
<1>1. I \subseteq Nat /\ I # {}
  BY DEF Has
<1>2. \E i \in I : \A j \in I : i <= j
  <2> HIDE DEF I
  <2> QED BY <1>1, Least
<1>3. Min(I) \in I
  <2> HIDE DEF I
  <2> QED BY <1>2 DEF Min
<1>4. SelectInSeq(s, LAMBDA v : v = e) = Min(I)
  BY <1>1 DEF SelectInSeq
<1>5. RemoveFirst(s, e) = RemoveAt(s, Min(I))
  BY <1>1, <1>4 DEF RemoveFirst
<1> HIDE DEF I
<1>6. Min(I) \in 1..Len(s) /\ s[Min(I)] = e
  BY <1>3 DEF I
<1> QED BY <1>5, <1>6

LEMMA RemoveFirstIsSeq ==
  ASSUME NEW S, NEW s \in Seq(S), NEW e
  PROVE  RemoveFirst(s, e) \in Seq(S)
<1>1. CASE Has(s, e)
  BY <1>1, RemoveFirstIs, RemoveAtIsSeq DEF IsRemoval
<1>2. CASE ~Has(s, e)
  <2>1. ~\E i \in 1..Len(s) : s[i] = e
    BY <1>2 DEF Has
  <2> QED BY <2>1 DEF RemoveFirst
<1> QED BY <1>1, <1>2

\* Taking one of distinct elements out, or looking for one that is not there.
LEMMA RemoveFirstKeeps ==
  ASSUME NEW S, NEW s \in Seq(S), NEW e, Distinct(s)
  PROVE  /\ RemoveFirst(s, e) \in Seq(S) /\ Distinct(RemoveFirst(s, e))
         /\ \A x : Has(RemoveFirst(s, e), x) <=> (Has(s, x) /\ x # e)
<1>1. CASE Has(s, e)
  <2>1. PICK i \in 1..Len(s) : s[i] = e /\ RemoveFirst(s, e) = RemoveAt(s, i)
    BY <1>1, RemoveFirstIs
  <2> QED BY <2>1, RemoveKeeps, RemoveAtIsSeq DEF IsRemoval
<1>2. CASE ~Has(s, e)
  <2>1. ~\E i \in 1..Len(s) : s[i] = e
    BY <1>2 DEF Has
  <2>2. RemoveFirst(s, e) = s
    BY <2>1 DEF RemoveFirst
  <2> QED BY <1>2, <2>2
<1> QED BY <1>1, <1>2

\* Appending an element.
LEMMA AppendKeeps ==
  ASSUME NEW S, NEW s \in Seq(S), NEW e \in S, Distinct(s), ~Has(s, e)
  PROVE  /\ Append(s, e) \in Seq(S) /\ Distinct(Append(s, e))
         /\ \A x : Has(Append(s, e), x) <=> (x = e \/ Has(s, x))
<1>1. /\ Append(s, e) \in Seq(S) /\ Len(Append(s, e)) = Len(s) + 1 /\ Len(s) \in Nat
      /\ Append(s, e)[Len(s) + 1] = e /\ \A i \in 1..Len(s) : Append(s, e)[i] = s[i]
      /\ DOMAIN Append(s, e) = 1..(Len(s) + 1) /\ DOMAIN s = 1..Len(s)
  OBVIOUS
<1>2. \A i \in 1..(Len(s) + 1) : i \in 1..Len(s) \/ i = Len(s) + 1
  BY <1>1
<1> DEFINE a == Append(s, e)
<1> HIDE DEF a
<1>3. Distinct(a)
  BY <1>1, <1>2 DEF Distinct, Has, a
<1>4. ASSUME NEW x PROVE Has(a, x) <=> (x = e \/ Has(s, x))
  <2>1. Len(s) + 1 \in 1..(Len(s) + 1) /\ \A i \in 1..Len(s) : i \in 1..(Len(s) + 1)
    BY <1>1
  <2> QED BY <1>1, <1>2, <2>1 DEF Has, a
<1> QED BY <1>1, <1>3, <1>4 DEF a

----------------------------------------------------------------------------
(* Sums over a finite set. *)

Total(W, S) == MapThenSumSet(LAMBDA x : W[x], S)

\* The recursive function Total is the last value of.
NextTotal(g, W, s) ==
  IF s = {} THEN 0 ELSE W[CHOOSE x \in s : TRUE] + g[s \ {CHOOSE x \in s : TRUE}]
Totals(g, W, S) == g = [s \in SUBSET S |-> NextTotal(g, W, s)]

LEMMA ChooseOne == ASSUME NEW s, s # {} PROVE (CHOOSE x \in s : TRUE) \in s
  OBVIOUS

\* A subset with one element less.
LEMMA OneLess ==
  ASSUME NEW S, IsFiniteSet(S), NEW s \in SUBSET S, NEW x \in s
  PROVE  /\ IsFiniteSet(s) /\ Cardinality(s) \in Nat \ {0}
         /\ s \ {x} \in SUBSET S /\ Cardinality(s \ {x}) = Cardinality(s) - 1
<1>1. IsFiniteSet(s)
  BY FS_Subset
<1>2. Cardinality(s) \in Nat /\ Cardinality(s \ {x}) \in Nat
      /\ Cardinality(s \ {x}) = Cardinality(s) - 1
  BY <1>1, FS_RemoveElement, FS_CardinalityType
<1> QED BY <1>1, <1>2

LEMMA TotalsExist ==
  ASSUME NEW W, NEW S, IsFiniteSet(S)
  PROVE  \E g : Totals(g, W, S)
<1> DEFINE Upto(g, n) == /\ g = [s \in SUBSET S |-> g[s]]
                         /\ \A s \in SUBSET S : Cardinality(s) <= n => g[s] = NextTotal(g, W, s)
           T == {n \in Nat : \E g : Upto(g, n)}
<1>0. \A s \in SUBSET S : IsFiniteSet(s) /\ Cardinality(s) \in Nat
  BY FS_Subset, FS_CardinalityType
<1>1. 0 \in T
  <2> DEFINE g == [s \in SUBSET S |-> 0]
  <2>1. ASSUME NEW s \in SUBSET S, Cardinality(s) <= 0 PROVE g[s] = NextTotal(g, W, s)
    <3>1. s = {}
      BY <1>0, <2>1, FS_EmptySet
    <3> QED BY <3>1 DEF NextTotal
  <2>2. Upto(g, 0)
    BY <2>1
  <2> HIDE DEF g
  <2> QED BY <2>2
<1>2. ASSUME NEW n \in Nat, n \in T PROVE n + 1 \in T
  <2>1. PICK g : Upto(g, n)
    BY <1>2
  <2> DEFINE h == [s \in SUBSET S |-> IF Cardinality(s) <= n THEN g[s] ELSE NextTotal(g, W, s)]
  <2>2. ASSUME NEW s \in SUBSET S, Cardinality(s) <= n + 1 PROVE h[s] = NextTotal(h, W, s)
    <3>1. h[s] = NextTotal(g, W, s)
      BY <2>1
    <3>2. CASE s = {}
      BY <3>1, <3>2 DEF NextTotal
    <3>3. CASE s # {}
      <4>1. PICK x : x = CHOOSE y \in s : TRUE
        OBVIOUS
      <4>2. x \in s
        BY <3>3, <4>1, ChooseOne
      <4>3. s \ {x} \in SUBSET S /\ Cardinality(s \ {x}) <= n
        BY <1>0, <2>2, <4>2, OneLess
      <4>4. h[s \ {x}] = g[s \ {x}]
        BY <4>3
      <4> HIDE DEF h
      <4> QED BY <3>1, <3>3, <4>1, <4>4 DEF NextTotal
    <3> QED BY <3>2, <3>3
  <2>3. h = [s \in SUBSET S |-> h[s]]
    OBVIOUS
  <2> HIDE DEF h
  <2>4. Upto(h, n + 1)
    BY <2>2, <2>3
  <2>5. \E f : Upto(f, n + 1)
    <3> HIDE DEF Upto
    <3> QED BY <2>4
  <2> HIDE DEF Upto
  <2> QED BY <2>5
<1>3. PICK g : Upto(g, Cardinality(S))
  <2>1. Cardinality(S) \in T
    <3>1. Cardinality(S) \in Nat
      BY FS_CardinalityType
    <3> HIDE DEF T
    <3> QED BY <1>1, <1>2, <3>1, Induction
  <2> QED BY <2>1
<1>4. \A s \in SUBSET S : Cardinality(s) <= Cardinality(S)
  BY FS_Subset
<1>5. \A s \in SUBSET S : g[s] = NextTotal(g, W, s)
  BY <1>3, <1>4
<1>6. g = [s \in SUBSET S |-> g[s]]
  BY <1>3
<1>7. Totals(g, W, S)
  BY <1>5, <1>6 DEF Totals
<1> QED BY <1>7

\* A total is the value of such a function.
LEMMA TotalIs ==
  ASSUME NEW W, NEW S, IsFiniteSet(S)
  PROVE  \E g : Totals(g, W, S) /\ Total(W, S) = g[S]
<1> DEFINE g == CHOOSE g : g = [s \in SUBSET S |-> IF s = {} THEN 0 ELSE
                                  W[CHOOSE x \in s : TRUE] + g[s \ {CHOOSE x \in s : TRUE}]]
<1>1. Total(W, S) = g[S]
  BY DEF Total, MapThenSumSet, MapThenFoldSet
<1>2. \E f : f = [s \in SUBSET S |-> IF s = {} THEN 0 ELSE
                                  W[CHOOSE x \in s : TRUE] + f[s \ {CHOOSE x \in s : TRUE}]]
  <2>1. PICK f : Totals(f, W, S)
    BY TotalsExist
  <2>2. f = [s \in SUBSET S |-> IF s = {} THEN 0 ELSE
                                  W[CHOOSE x \in s : TRUE] + f[s \ {CHOOSE x \in s : TRUE}]]
    BY <2>1, Zenon DEF Totals, NextTotal
  <2> QED BY <2>2, Zenon
<1>3. g = [s \in SUBSET S |-> IF s = {} THEN 0 ELSE
                                  W[CHOOSE x \in s : TRUE] + g[s \ {CHOOSE x \in s : TRUE}]]
  BY <1>2, Zenon
<1> HIDE DEF g
<1>4. Totals(g, W, S)
  BY <1>3, Zenon DEF Totals, NextTotal
<1> QED BY <1>1, <1>4

\* A sum that can be unfolded at any element, and is a number.
Unfolds(g, W, S) ==
  \A s \in SUBSET S : g[s] \in Nat /\ \A x \in s : g[s] = W[x] + g[s \ {x}]
Natural(W, S) == \A x \in S : W[x] \in Nat
LEMMA TotalsStep ==
  ASSUME NEW W, NEW S, IsFiniteSet(S), Natural(W, S), NEW g, Totals(g, W, S)
  PROVE  Unfolds(g, W, S)
<1> DEFINE Fine(s) == g[s] \in Nat /\ \A x \in s : g[s] = W[x] + g[s \ {x}]
           T == {n \in Nat : \A s \in SUBSET S : Cardinality(s) <= n => Fine(s)}
<1>0. \A s \in SUBSET S : IsFiniteSet(s) /\ Cardinality(s) \in Nat
  BY FS_Subset, FS_CardinalityType
<1>1. \A s \in SUBSET S : g[s] = NextTotal(g, W, s)
  BY DEF Totals
<1>2. g[{}] = 0
  BY <1>1 DEF NextTotal
<1>3. 0 \in T
  <2>1. ASSUME NEW s \in SUBSET S, Cardinality(s) <= 0 PROVE Fine(s)
    <3>1. s = {}
      BY <1>0, <2>1, FS_EmptySet
    <3> QED BY <1>2, <3>1
  <2> QED BY <2>1
<1>4. ASSUME NEW n \in Nat, n \in T PROVE n + 1 \in T
  <2>1. ASSUME NEW s \in SUBSET S, Cardinality(s) <= n + 1, s # {} PROVE Fine(s)
    <3>1. s # {}
      BY <2>1
    <3>2. PICK y : y = CHOOSE x \in s : TRUE
      OBVIOUS
    <3>3. y \in s /\ W[y] \in Nat
      BY <3>1, <3>2, ChooseOne DEF Natural
    <3>4. g[s] = W[y] + g[s \ {y}]
      BY <1>1, <3>1, <3>2 DEF NextTotal
    <3>5. ASSUME NEW x \in s PROVE s \ {x} \in SUBSET S /\ Fine(s \ {x})
      <4>1. s \ {x} \in SUBSET S /\ Cardinality(s \ {x}) <= n
        BY <2>1, OneLess
      <4> QED BY <1>4, <4>1
    <3>6. g[s] \in Nat
      <4>1. g[s \ {y}] \in Nat
        BY <3>3, <3>5
      <4> QED BY <3>3, <3>4, <4>1
    <3>7. ASSUME NEW x \in s PROVE g[s] = W[x] + g[s \ {x}]
      <4>1. CASE x = y
        BY <3>4, <4>1
      <4>2. CASE x # y
        <5>1. /\ x \in s \ {y} /\ y \in s \ {x} /\ W[x] \in Nat
              /\ (s \ {y}) \ {x} = (s \ {x}) \ {y}
          BY <3>3, <4>2 DEF Natural
        <5>2. g[s \ {y}] = W[x] + g[(s \ {y}) \ {x}]
          BY <3>3, <3>5, <5>1
        <5>3. g[s \ {x}] = W[y] + g[(s \ {x}) \ {y}]
          BY <3>3, <3>5, <5>1
        <5>4. g[(s \ {x}) \ {y}] \in Nat
          <6>1. (s \ {x}) \ {y} \in SUBSET S /\ Cardinality((s \ {x}) \ {y}) <= n
            <7>1. Cardinality(s \ {x}) = Cardinality(s) - 1 /\ Cardinality(s) \in Nat
              BY OneLess
            <7>2. Cardinality((s \ {x}) \ {y}) = Cardinality(s \ {x}) - 1
                  /\ (s \ {x}) \ {y} \in SUBSET S
              BY <3>5, <5>1, OneLess
            <7> QED BY <2>1, <7>1, <7>2
          <6> QED BY <1>4, <6>1
        <5> DEFINE rest == g[(s \ {x}) \ {y}]
        <5>5. g[s] = W[y] + (W[x] + rest) /\ g[s \ {x}] = W[y] + rest /\ rest \in Nat
          BY <3>4, <5>1, <5>2, <5>3, <5>4
        <5> HIDE DEF rest
        <5> QED BY <3>3, <5>1, <5>5
      <4> QED BY <4>1, <4>2
    <3> QED BY <3>6, <3>7
  <2>2. Fine({})
    BY <1>2
  <2>3. \A s \in SUBSET S : Cardinality(s) <= n + 1 => Fine(s)
    <3> HIDE DEF Fine
    <3> QED BY <2>1, <2>2
  <2> HIDE DEF Fine
  <2> QED BY <2>3
<1>5. ASSUME NEW s \in SUBSET S PROVE Fine(s)
  <2>1. Cardinality(s) \in T
    <3> HIDE DEF T
    <3> QED BY <1>0, <1>3, <1>4, Induction
  <2> QED BY <1>0, <2>1
<1> QED BY <1>5 DEF Unfolds

\* Two such functions agree where both are defined.
LEMMA TotalsAgree ==
  ASSUME NEW W, NEW S, NEW R, IsFiniteSet(S), R \subseteq S, NEW g, Totals(g, W, S),
         NEW h, Totals(h, W, R)
  PROVE  g[R] = h[R]
<1> DEFINE T == {n \in Nat : \A s \in SUBSET R : Cardinality(s) <= n => g[s] = h[s]}
<1>0. IsFiniteSet(R) /\ \A s \in SUBSET R : IsFiniteSet(s) /\ Cardinality(s) \in Nat
  BY FS_Subset, FS_CardinalityType
<1>1. \A s \in SUBSET R : g[s] = NextTotal(g, W, s) /\ h[s] = NextTotal(h, W, s)
  BY DEF Totals
<1>2. g[{}] = h[{}]
  BY <1>1 DEF NextTotal
<1>3. 0 \in T
  <2>1. ASSUME NEW s \in SUBSET R, Cardinality(s) <= 0 PROVE g[s] = h[s]
    <3>1. s = {}
      BY <1>0, <2>1, FS_EmptySet
    <3> QED BY <1>2, <3>1
  <2> QED BY <2>1
<1>4. ASSUME NEW n \in Nat, n \in T PROVE n + 1 \in T
  <2>1. ASSUME NEW s \in SUBSET R, Cardinality(s) <= n + 1, s # {} PROVE g[s] = h[s]
    <3>1. PICK y : y = CHOOSE x \in s : TRUE
      OBVIOUS
    <3>2. y \in s
      BY <2>1, <3>1, ChooseOne
    <3>3. s \ {y} \in SUBSET R /\ Cardinality(s \ {y}) <= n
      BY <1>0, <2>1, <3>2, OneLess
    <3>4. g[s \ {y}] = h[s \ {y}]
      BY <1>4, <3>3
    <3> QED BY <1>1, <2>1, <3>1, <3>4 DEF NextTotal
  <2>2. \A s \in SUBSET R : Cardinality(s) <= n + 1 => g[s] = h[s]
    BY <1>2, <2>1
  <2> QED BY <2>2
<1>5. Cardinality(R) \in T
  <2> HIDE DEF T
  <2> QED BY <1>0, <1>3, <1>4, Induction
<1> QED BY <1>0, <1>5

\* The sum over no element is nothing, and one more or one less element changes it by its
\* weight.
LEMMA TotalEmpty == ASSUME NEW W PROVE Total(W, {}) = 0
<1>1. PICK g : Totals(g, W, {}) /\ Total(W, {}) = g[{}]
  BY TotalIs, FS_EmptySet
<1> QED BY <1>1 DEF Totals, NextTotal

LEMMA TotalRemove ==
  ASSUME NEW W, NEW S, IsFiniteSet(S), Natural(W, S), NEW e \in S
  PROVE  /\ Total(W, S) \in Nat /\ Total(W, S \ {e}) \in Nat
         /\ Total(W, S) = W[e] + Total(W, S \ {e})
<1>0. IsFiniteSet(S \ {e}) /\ S \ {e} \subseteq S
  BY FS_Subset
<1>1. PICK g : Totals(g, W, S) /\ Total(W, S) = g[S]
  BY TotalIs
<1>2. PICK h : Totals(h, W, S \ {e}) /\ Total(W, S \ {e}) = h[S \ {e}]
  BY <1>0, TotalIs
<1>3. g[S \ {e}] = h[S \ {e}]
  BY <1>0, <1>1, <1>2, TotalsAgree
<1>4. g[S] \in Nat /\ g[S] = W[e] + g[S \ {e}] /\ g[S \ {e}] \in Nat
  <2>1. Unfolds(g, W, S)
    BY <1>1, TotalsStep
  <2>2. S \in SUBSET S /\ S \ {e} \in SUBSET S
    OBVIOUS
  <2> QED BY <2>1, <2>2 DEF Unfolds
<1> QED BY <1>1, <1>2, <1>3, <1>4

LEMMA TotalNat ==
  ASSUME NEW W, NEW S, IsFiniteSet(S), Natural(W, S)
  PROVE  Total(W, S) \in Nat
<1>1. CASE S = {}
  BY <1>1, TotalEmpty
<1>2. CASE S # {}
  BY <1>2, TotalRemove
<1> QED BY <1>1, <1>2

LEMMA TotalAdd ==
  ASSUME NEW W, NEW S, IsFiniteSet(S), NEW e, e \notin S, Natural(W, S \cup {e})
  PROVE  Total(W, S \cup {e}) = W[e] + Total(W, S)
<1>1. IsFiniteSet(S \cup {e}) /\ (S \cup {e}) \ {e} = S
  BY FS_AddElement
<1> QED BY <1>1, TotalRemove

\* The sum depends on the weights of the elements alone.
LEMMA TotalSame ==
  ASSUME NEW V, NEW W, NEW S, IsFiniteSet(S), Natural(W, S), \A x \in S : V[x] = W[x]
  PROVE  Total(V, S) = Total(W, S)
<1> DEFINE T == {n \in Nat : \A s \in SUBSET S : Cardinality(s) <= n => Total(V, s) = Total(W, s)}
<1>0. \A s \in SUBSET S : /\ IsFiniteSet(s) /\ Cardinality(s) \in Nat
                          /\ Natural(V, s) /\ Natural(W, s)
  BY FS_Subset, FS_CardinalityType DEF Natural
<1>1. 0 \in T
  <2>1. ASSUME NEW s \in SUBSET S, Cardinality(s) <= 0 PROVE Total(V, s) = Total(W, s)
    <3>1. s = {}
      BY <1>0, <2>1, FS_EmptySet
    <3> QED BY <3>1, TotalEmpty
  <2> QED BY <2>1
<1>2. ASSUME NEW n \in Nat, n \in T PROVE n + 1 \in T
  <2>1. ASSUME NEW s \in SUBSET S, Cardinality(s) <= n + 1, NEW x \in s
        PROVE  Total(V, s) = Total(W, s)
    <3>1. s \ {x} \in SUBSET S /\ Cardinality(s \ {x}) <= n
      BY <1>0, <2>1, OneLess
    <3>2. Total(V, s \ {x}) = Total(W, s \ {x})
      BY <1>2, <3>1
    <3>3. Total(V, s) = V[x] + Total(V, s \ {x}) /\ Total(W, s) = W[x] + Total(W, s \ {x})
      BY <1>0, TotalRemove
    <3> QED BY <3>2, <3>3
  <2>2. Total(V, {}) = Total(W, {})
    BY TotalEmpty
  <2>3. \A s \in SUBSET S : Cardinality(s) <= n + 1 => Total(V, s) = Total(W, s)
    BY <2>1, <2>2
  <2> QED BY <2>3
<1>3. Cardinality(S) \in T
  <2> HIDE DEF T
  <2> QED BY <1>0, <1>1, <1>2, Induction
<1> QED BY <1>0, <1>3

LEMMA TotalZero ==
  ASSUME NEW W, NEW S, IsFiniteSet(S), \A x \in S : W[x] = 0
  PROVE  Total(W, S) = 0
<1> DEFINE T == {n \in Nat : \A s \in SUBSET S : Cardinality(s) <= n => Total(W, s) = 0}
<1>0. \A s \in SUBSET S : IsFiniteSet(s) /\ Cardinality(s) \in Nat /\ Natural(W, s)
  BY FS_Subset, FS_CardinalityType DEF Natural
<1>1. 0 \in T
  <2>1. ASSUME NEW s \in SUBSET S, Cardinality(s) <= 0 PROVE Total(W, s) = 0
    <3>1. s = {}
      BY <1>0, <2>1, FS_EmptySet
    <3> QED BY <3>1, TotalEmpty
  <2> QED BY <2>1
<1>2. ASSUME NEW n \in Nat, n \in T PROVE n + 1 \in T
  <2>1. ASSUME NEW s \in SUBSET S, Cardinality(s) <= n + 1, NEW x \in s
        PROVE  Total(W, s) = 0
    <3>1. s \ {x} \in SUBSET S /\ Cardinality(s \ {x}) <= n
      BY <1>0, <2>1, OneLess
    <3>2. Total(W, s \ {x}) = 0
      BY <1>2, <3>1
    <3>3. Total(W, s) = W[x] + Total(W, s \ {x}) /\ W[x] = 0
      BY <1>0, TotalRemove
    <3> QED BY <3>2, <3>3
  <2>2. Total(W, {}) = 0
    BY TotalEmpty
  <2>3. \A s \in SUBSET S : Cardinality(s) <= n + 1 => Total(W, s) = 0
    BY <2>1, <2>2
  <2> QED BY <2>3
<1>3. Cardinality(S) \in T
  <2> HIDE DEF T
  <2> QED BY <1>0, <1>1, <1>2, Induction
<1> QED BY <1>0, <1>3

\* One more at one place is one more in the sum.
LEMMA TotalBump ==
  ASSUME NEW V, NEW W, NEW S, IsFiniteSet(S), Natural(W, S), NEW e \in S,
         V[e] = W[e] + 1, \A x \in S \ {e} : V[x] = W[x]
  PROVE  Total(V, S) = Total(W, S) + 1
<1>1. IsFiniteSet(S \ {e}) /\ Natural(V, S) /\ Natural(W, S \ {e}) /\ W[e] \in Nat
  BY FS_Subset DEF Natural
<1>2. Total(V, S \ {e}) = Total(W, S \ {e})
  BY <1>1, TotalSame
<1>3. /\ Total(V, S) = V[e] + Total(V, S \ {e}) /\ Total(W, S) = W[e] + Total(W, S \ {e})
      /\ Total(W, S \ {e}) \in Nat
  BY <1>1, TotalRemove
<1> QED BY <1>1, <1>2, <1>3
=============================================================================
