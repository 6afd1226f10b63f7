----------------------------- MODULE DataLemmas -----------------------------
(***************************************************************************)
(* Facts about natural numbers and sequences that the proofs of several    *)
(* modules rest on.  Induction is stated over sets, not over operators.    *)
(***************************************************************************)
EXTENDS SequencesExt, WellFoundedInduction, SequenceTheorems, FunctionTheorems,
        FiniteSetTheorems, TLAPS

-----------------------------------------------------------------------------
(* Induction and iteration *)

\* A set that holds 0 and the successor of every number in it holds them all.
LEMMA NatSetInduction ==
  ASSUME NEW S, 0 \in S, \A n \in Nat : n \in S => n + 1 \in S
  PROVE  Nat \subseteq S
<1> DEFINE R == OpToRel(<, Nat)
<1>1. IsWellFoundedOn(R, Nat)
  BY NatLessThanWellFounded
<1> HIDE DEF R
<1>2. SUFFICES ASSUME Nat \ S # {} PROVE FALSE
  OBVIOUS
<1>3. PICK n \in Nat \ S : \A m \in Nat \ S : <<m, n>> \notin R
  BY <1>1, <1>2, WFMin
<1>4. n # 0 /\ n - 1 \in Nat /\ n - 1 < n
  OBVIOUS
<1>5. <<n - 1, n>> \in R
  BY <1>4 DEF R, OpToRel
<1>6. n - 1 \in S
  BY <1>3, <1>4, <1>5
<1>7. (n - 1) + 1 \in S
  BY <1>4, <1>6
<1> QED BY <1>3, <1>7

LEMMA LeastOf ==
  ASSUME NEW S \in SUBSET Nat, S # {}
  PROVE  \E m \in S : \A n \in S : m <= n
<1> DEFINE R == OpToRel(<, Nat)
<1>1. IsWellFoundedOn(R, Nat)
  BY NatLessThanWellFounded
<1> HIDE DEF R
<1>2. PICK m \in S : \A n \in S : <<n, m>> \notin R
  BY <1>1, WFMin
<1>3. \A n \in S : ~(n < m)
  <2> SUFFICES ASSUME NEW n \in S, n < m PROVE FALSE
    OBVIOUS
  <2>1. <<n, m>> \in R
    BY DEF R, OpToRel
  <2> QED BY <1>2, <2>1
<1> QED BY <1>3

LEMMA MinOf ==
  ASSUME NEW S \in SUBSET Nat, S # {}
  PROVE  Min(S) \in S /\ \A n \in S : Min(S) <= n
<1>1. \E m \in S : \A n \in S : m <= n
  BY LeastOf
<1> QED BY <1>1 DEF Min

LEMMA MaxOf ==
  ASSUME NEW S \in SUBSET Nat, S # {}, NEW b \in Nat, \A n \in S : n <= b
  PROVE  Max(S) \in S /\ \A n \in S : n <= Max(S)
<1> DEFINE T == {b - n : n \in S}
<1>1. T \in SUBSET Nat /\ T # {}
  <2>1. \A n \in S : b - n \in Nat
    OBVIOUS
  <2>2. \A e \in T : e \in Nat
    BY <2>1
  <2>3. T # {}
    OBVIOUS
  <2> QED BY <2>2, <2>3
<1> HIDE DEF T
<1>2. PICK d \in T : \A e \in T : d <= e
  BY <1>1, LeastOf
<1>3. PICK m \in S : d = b - m
  BY DEF T
<1>4. \A n \in S : n \in Nat /\ b - n \in T
  BY DEF T
<1>5. \A n \in S : m >= n /\ n <= m
  BY <1>2, <1>3, <1>4
<1>6. Max(S) \in S /\ \A n \in S : Max(S) >= n
  BY <1>5 DEF Max
<1>7. Max(S) \in Nat
  BY <1>6
<1> QED BY <1>4, <1>6, <1>7

\* f counts the applications of g, from b.
Iterates(f, b, g) == f[0] = b /\ \A n \in Nat : f[n + 1] = g[f[n]]

\* A function can be applied again and again.
LEMMA Iteration ==
  ASSUME NEW V, NEW b \in V, NEW g \in [V -> V]
  PROVE  \E f \in [Nat -> V] : Iterates(f, b, g)
<1> DEFINE Runs(n) == {f \in [Nat -> V] : /\ f[0] = b
                                          /\ \A k \in Nat : k < n => f[k + 1] = g[f[k]]}
<1>1. \A n \in Nat : Runs(n) # {}
  <2> DEFINE S == {n \in Nat : Runs(n) # {}}
  <2>1. 0 \in S
    <3>1. [k \in Nat |-> b] \in Runs(0)
      OBVIOUS
    <3> QED BY <3>1
  <2>2. ASSUME NEW n \in Nat, n \in S PROVE n + 1 \in S
    <3>1. PICK f \in [Nat -> V] : /\ f[0] = b
                                  /\ \A k \in Nat : k < n => f[k + 1] = g[f[k]]
      BY <2>2
    <3> DEFINE h == [f EXCEPT ![n + 1] = g[f[n]]]
    <3>2. h \in [Nat -> V] /\ h[0] = b
      BY <3>1
    <3>3. ASSUME NEW k \in Nat, k < n + 1 PROVE h[k + 1] = g[h[k]]
      BY <3>1, <3>3
    <3>4. h \in Runs(n + 1)
      BY <3>2, <3>3
    <3>5. Runs(n + 1) # {}
      BY <3>4
    <3> HIDE DEF Runs
    <3> QED BY <3>5
  <2> HIDE DEF S
  <2>3. Nat \subseteq S
    BY <2>1, <2>2, NatSetInduction
  <2> QED BY <2>3 DEF S
<1>2. ASSUME NEW m \in Nat, NEW n \in Nat, NEW e \in Runs(m), NEW f \in Runs(n)
      PROVE  \A k \in Nat : k <= m /\ k <= n => e[k] = f[k]
  <2> DEFINE S == {k \in Nat : k <= m /\ k <= n => e[k] = f[k]}
  <2>1. 0 \in S
    OBVIOUS
  <2>2. ASSUME NEW k \in Nat, k \in S PROVE k + 1 \in S
    <3>1. ASSUME k + 1 <= m, k + 1 <= n PROVE e[k + 1] = f[k + 1]
      <4>1. e[k] = f[k]
        BY <2>2, <3>1
      <4>2. e[k + 1] = g[e[k]] /\ f[k + 1] = g[f[k]]
        BY <3>1
      <4> QED BY <4>1, <4>2
    <3> HIDE DEF Runs
    <3> QED BY <3>1
  <2> HIDE DEF S
  <2>3. Nat \subseteq S
    BY <2>1, <2>2, NatSetInduction
  <2> QED BY <2>3 DEF S
<1> DEFINE run == [n \in Nat |-> CHOOSE f \in Runs(n) : TRUE]
           at  == [n \in Nat |-> run[n][n]]
<1>3. \A n \in Nat : run[n] \in Runs(n)
  BY <1>1
<1> HIDE DEF run
<1>4. at \in [Nat -> V] /\ at[0] = b
  BY <1>3
<1>5. ASSUME NEW n \in Nat PROVE at[n + 1] = g[at[n]]
  <2>1. run[n + 1] \in Runs(n + 1) /\ run[n] \in Runs(n)
    BY <1>3
  <2>2. run[n + 1][n] = run[n][n]
    <3> HIDE DEF Runs
    <3>1. n + 1 \in Nat /\ n <= n + 1 /\ n <= n
      OBVIOUS
    <3> QED BY <1>2, <2>1, <3>1
  <2>3. run[n + 1][n + 1] = g[run[n + 1][n]]
    BY <2>1
  <2> QED BY <2>2, <2>3
<1> QED BY <1>4, <1>5 DEF Iterates

-----------------------------------------------------------------------------
(* Putting an element into a sequence, and taking one out *)

LEMMA InsertAtProperties ==
  ASSUME NEW S, NEW s \in Seq(S), NEW i \in 1 .. Len(s) + 1, NEW e \in S
  PROVE  /\ InsertAt(s, i, e) \in Seq(S)
         /\ Len(InsertAt(s, i, e)) = Len(s) + 1
         /\ \A j \in 1 .. Len(s) + 1 :
              InsertAt(s, i, e)[j] = IF j < i THEN s[j]
                                     ELSE IF j = i THEN e ELSE s[j - 1]
<1> DEFINE a == SubSeq(s, 1, i - 1)
           b == SubSeq(s, i, Len(s))
<1>1. Len(s) \in Nat /\ \A j \in 1 .. Len(s) : s[j] \in S
  BY LenProperties, ElementOfSeq
<1>2. a \in Seq(S) /\ Len(a) = i - 1 /\ \A j \in 1 .. i - 1 : a[j] = s[j]
  <2>1. \A j \in 1 .. i - 1 : s[j] \in S
    BY <1>1
  <2> QED BY <1>1, <2>1, SubSeqProperties
<1>3. /\ b \in Seq(S) /\ Len(b) = Len(s) - i + 1
      /\ \A j \in 1 .. Len(s) - i + 1 : b[j] = s[j + i - 1]
  <2>1. \A j \in i .. Len(s) : s[j] \in S
    BY <1>1
  <2>2. /\ SubSeq(s, i, Len(s)) \in Seq(S)
        /\ Len(SubSeq(s, i, Len(s))) = IF i <= Len(s) THEN Len(s) - i + 1 ELSE 0
        /\ \A j \in 1 .. Len(s) - i + 1 : SubSeq(s, i, Len(s))[j] = s[i + j - 1]
    BY <1>1, <2>1, SubSeqProperties
  <2> QED BY <1>1, <2>2
<1>4. <<e>> \in Seq(S) /\ Len(<<e>>) = 1 /\ <<e>>[1] = e
  OBVIOUS
<1> HIDE DEF a, b
<1>5. /\ a \o <<e>> \in Seq(S) /\ Len(a \o <<e>>) = i
      /\ \A j \in 1 .. i : (a \o <<e>>)[j] = IF j < i THEN s[j] ELSE e
  <2>1. /\ a \o <<e>> \in Seq(S) /\ Len(a \o <<e>>) = Len(a) + 1
        /\ \A j \in 1 .. Len(a) + 1 :
             (a \o <<e>>)[j] = IF j <= Len(a) THEN a[j] ELSE <<e>>[j - Len(a)]
    BY <1>2, <1>4, ConcatProperties
  <2> QED BY <1>1, <1>2, <1>4, <2>1
<1>6. /\ (a \o <<e>>) \o b \in Seq(S)
      /\ Len((a \o <<e>>) \o b) = Len(s) + 1
      /\ \A j \in 1 .. Len(s) + 1 :
           ((a \o <<e>>) \o b)[j] = IF j <= i THEN (a \o <<e>>)[j] ELSE b[j - i]
  <2> DEFINE c == a \o <<e>>
  <2>1. c \in Seq(S) /\ Len(c) = i
    BY <1>5
  <2> HIDE DEF c
  <2>2. /\ c \o b \in Seq(S) /\ Len(c \o b) = Len(c) + Len(b)
        /\ \A j \in 1 .. Len(c) + Len(b) :
             (c \o b)[j] = IF j <= Len(c) THEN c[j] ELSE b[j - Len(c)]
    BY <1>3, <2>1, ConcatProperties
  <2>3. Len(c) + Len(b) = Len(s) + 1
    BY <1>1, <1>3, <2>1
  <2>4. /\ c \o b \in Seq(S) /\ Len(c \o b) = Len(s) + 1
        /\ \A j \in 1 .. Len(s) + 1 :
             (c \o b)[j] = IF j <= i THEN c[j] ELSE b[j - i]
    BY <2>1, <2>2, <2>3
  <2> QED BY <2>4 DEF c
<1>7. InsertAt(s, i, e) = (a \o <<e>>) \o b
  BY DEF InsertAt, a, b
<1>8. ASSUME NEW j \in 1 .. Len(s) + 1
      PROVE  InsertAt(s, i, e)[j] = IF j < i THEN s[j]
                                    ELSE IF j = i THEN e ELSE s[j - 1]
  <2>1. CASE j <= i
    BY <1>1, <1>5, <1>6, <1>7, <2>1
  <2>2. CASE j > i
    BY <1>1, <1>3, <1>6, <1>7, <2>2
  <2> QED BY <1>1, <2>1, <2>2
<1> QED BY <1>6, <1>7, <1>8

\* An element put behind the last one is appended.
LEMMA InsertLast ==
  ASSUME NEW S, NEW s \in Seq(S), NEW e \in S
  PROVE  InsertAt(s, Len(s) + 1, e) = Append(s, e)
<1> DEFINE k == Len(s) + 1
           t == InsertAt(s, k, e)
<1>1. Len(s) \in Nat /\ k \in 1 .. Len(s) + 1
  BY LenProperties
<1>2. /\ t \in Seq(S) /\ Len(t) = Len(s) + 1
      /\ \A j \in 1 .. Len(s) + 1 :
           t[j] = IF j < k THEN s[j] ELSE IF j = k THEN e ELSE s[j - 1]
  <2>1. /\ InsertAt(s, k, e) \in Seq(S)
        /\ Len(InsertAt(s, k, e)) = Len(s) + 1
        /\ \A j \in 1 .. Len(s) + 1 :
             InsertAt(s, k, e)[j] = IF j < k THEN s[j]
                                    ELSE IF j = k THEN e ELSE s[j - 1]
    <3>1. \A i \in 1 .. Len(s) + 1 :
            /\ InsertAt(s, i, e) \in Seq(S)
            /\ Len(InsertAt(s, i, e)) = Len(s) + 1
            /\ \A j \in 1 .. Len(s) + 1 :
                 InsertAt(s, i, e)[j] = IF j < i THEN s[j]
                                        ELSE IF j = i THEN e ELSE s[j - 1]
      BY InsertAtProperties
    <3> HIDE DEF k, t
    <3> QED BY <1>1, <3>1
  <2> QED BY <2>1
<1>3. \A j \in 1 .. Len(s) + 1 : t[j] = Append(s, e)[j]
  <2> HIDE DEF t
  <2> QED BY <1>1, <1>2
<1> HIDE DEF t
<1>4. Append(s, e) \in Seq(S) /\ Len(Append(s, e)) = Len(s) + 1
  BY <1>1
<1>5. t = Append(s, e)
  BY <1>1, <1>2, <1>3, <1>4, SeqEqual
<1> QED BY <1>5 DEF t

LEMMA RemoveAtProperties ==
  ASSUME NEW S, NEW s \in Seq(S), NEW i \in 1 .. Len(s)
  PROVE  /\ RemoveAt(s, i) \in Seq(S)
         /\ Len(RemoveAt(s, i)) = Len(s) - 1
         /\ \A j \in 1 .. Len(s) - 1 : RemoveAt(s, i)[j] = IF j < i THEN s[j] ELSE s[j + 1]
<1> DEFINE a == SubSeq(s, 1, i - 1)
           b == SubSeq(s, i + 1, Len(s))
<1>1. Len(s) \in Nat /\ \A j \in 1 .. Len(s) : s[j] \in S
  BY LenProperties, ElementOfSeq
<1>2. a \in Seq(S) /\ Len(a) = i - 1 /\ \A j \in 1 .. i - 1 : a[j] = s[j]
  <2>1. \A j \in 1 .. i - 1 : s[j] \in S
    BY <1>1
  <2> QED BY <1>1, <2>1, SubSeqProperties
<1>3. /\ b \in Seq(S) /\ Len(b) = Len(s) - i
      /\ \A j \in 1 .. Len(s) - i : b[j] = s[j + i]
  <2>1. \A j \in i + 1 .. Len(s) : s[j] \in S
    BY <1>1
  <2>2. /\ SubSeq(s, i + 1, Len(s)) \in Seq(S)
        /\ Len(SubSeq(s, i + 1, Len(s))) =
             IF i + 1 <= Len(s) THEN Len(s) - (i + 1) + 1 ELSE 0
        /\ \A j \in 1 .. Len(s) - (i + 1) + 1 :
             SubSeq(s, i + 1, Len(s))[j] = s[(i + 1) + j - 1]
    BY <1>1, <2>1, SubSeqProperties
  <2> QED BY <1>1, <2>2
<1> HIDE DEF a, b
<1>4. /\ a \o b \in Seq(S)
      /\ Len(a \o b) = Len(s) - 1
      /\ \A j \in 1 .. Len(s) - 1 :
           (a \o b)[j] = IF j <= i - 1 THEN a[j] ELSE b[j - (i - 1)]
  <2>1. /\ a \o b \in Seq(S) /\ Len(a \o b) = Len(a) + Len(b)
        /\ \A j \in 1 .. Len(a) + Len(b) :
             (a \o b)[j] = IF j <= Len(a) THEN a[j] ELSE b[j - Len(a)]
    BY <1>2, <1>3, ConcatProperties
  <2>2. Len(a) + Len(b) = Len(s) - 1
    BY <1>1, <1>2, <1>3
  <2> QED BY <1>2, <2>1, <2>2
<1>5. RemoveAt(s, i) = a \o b
  BY DEF RemoveAt, a, b
<1>6. ASSUME NEW j \in 1 .. Len(s) - 1
      PROVE  RemoveAt(s, i)[j] = IF j < i THEN s[j] ELSE s[j + 1]
  BY <1>1, <1>2, <1>3, <1>4, <1>5
<1> QED BY <1>4, <1>5, <1>6

-----------------------------------------------------------------------------
(* A sequence divided behind its k-th element *)

Before(s, k) == SubSeq(s, 1, k)
Behind(s, k) == SubSeq(s, k + 1, Len(s))

LEMMA DividedProperties ==
  ASSUME NEW S, NEW s \in Seq(S), NEW k \in 0 .. Len(s)
  PROVE  /\ Before(s, k) \in Seq(S) /\ Len(Before(s, k)) = k
         /\ \A j \in 1 .. k : Before(s, k)[j] = s[j]
         /\ Behind(s, k) \in Seq(S) /\ Len(Behind(s, k)) = Len(s) - k
         /\ \A j \in 1 .. Len(s) - k : Behind(s, k)[j] = s[k + j]
<1>1. Len(s) \in Nat /\ k \in Nat /\ \A j \in 1 .. Len(s) : s[j] \in S
  BY LenProperties, ElementOfSeq
<1>2. /\ Before(s, k) \in Seq(S) /\ Len(Before(s, k)) = k
      /\ \A j \in 1 .. k : Before(s, k)[j] = s[j]
  <2>1. \A j \in 1 .. k : s[j] \in S
    BY <1>1
  <2>2. /\ SubSeq(s, 1, k) \in Seq(S)
        /\ Len(SubSeq(s, 1, k)) = IF 1 <= k THEN k - 1 + 1 ELSE 0
        /\ \A j \in 1 .. k - 1 + 1 : SubSeq(s, 1, k)[j] = s[1 + j - 1]
    BY <1>1, <2>1, SubSeqProperties
  <2> QED BY <1>1, <2>2 DEF Before
<1>3. /\ Behind(s, k) \in Seq(S) /\ Len(Behind(s, k)) = Len(s) - k
      /\ \A j \in 1 .. Len(s) - k : Behind(s, k)[j] = s[k + j]
  <2> DEFINE m == k + 1
  <2>1. m \in Int /\ \A j \in m .. Len(s) : s[j] \in S
    BY <1>1
  <2> HIDE DEF m
  <2>2. /\ SubSeq(s, m, Len(s)) \in Seq(S)
        /\ Len(SubSeq(s, m, Len(s))) = IF m <= Len(s) THEN Len(s) - m + 1 ELSE 0
        /\ \A j \in 1 .. Len(s) - m + 1 : SubSeq(s, m, Len(s))[j] = s[m + j - 1]
    BY <1>1, <2>1, SubSeqProperties
  <2> QED BY <1>1, <2>2 DEF Behind, m
<1> QED BY <1>2, <1>3

LEMMA DividedWhole ==
  ASSUME NEW S, NEW s \in Seq(S), NEW k \in 0 .. Len(s)
  PROVE  Before(s, k) \o Behind(s, k) = s
<1> DEFINE a == Before(s, k)
           b == Behind(s, k)
<1>1. /\ Len(s) \in Nat /\ k \in Nat
      /\ a \in Seq(S) /\ Len(a) = k /\ \A j \in 1 .. k : a[j] = s[j]
      /\ b \in Seq(S) /\ Len(b) = Len(s) - k
      /\ \A j \in 1 .. Len(s) - k : b[j] = s[k + j]
  BY DividedProperties
<1> HIDE DEF a, b
<1>2. /\ a \o b \in Seq(S) /\ Len(a \o b) = Len(a) + Len(b)
      /\ \A j \in 1 .. Len(a) + Len(b) :
           (a \o b)[j] = IF j <= Len(a) THEN a[j] ELSE b[j - Len(a)]
  BY <1>1, ConcatProperties
<1>3. Len(a \o b) = Len(s)
  BY <1>1, <1>2
<1>4. ASSUME NEW j \in 1 .. Len(s) PROVE (a \o b)[j] = s[j]
  <2>1. j \in 1 .. Len(a) + Len(b)
    BY <1>1
  <2>2. CASE j <= Len(a)
    BY <1>1, <1>2, <2>1, <2>2
  <2>3. CASE ~(j <= Len(a))
    <3>1. j - k \in 1 .. Len(s) - k /\ k + (j - k) = j
      BY <1>1, <2>3
    <3> QED BY <1>1, <1>2, <2>1, <2>3, <3>1
  <2> QED BY <2>2, <2>3
<1>5. a \o b = s
  BY <1>2, <1>3, <1>4, SeqEqual
<1> QED BY <1>5 DEF a, b

LEMMA FrontProperties ==
  ASSUME NEW S, NEW s \in Seq(S), s # <<>>
  PROVE  /\ Front(s) \in Seq(S) /\ Len(Front(s)) = Len(s) - 1
         /\ \A j \in 1 .. Len(s) - 1 : Front(s)[j] = s[j]
         /\ Last(s) = s[Len(s)] /\ Last(s) \in S
<1> DEFINE k == Len(s) - 1
<1>1. k \in 0 .. Len(s) /\ Len(s) \in 1 .. Len(s)
  BY LenProperties, EmptySeq
<1>2. Front(s) = Before(s, k)
  BY DEF Front, Before
<1> HIDE DEF k
<1>3. /\ Before(s, k) \in Seq(S) /\ Len(Before(s, k)) = k
      /\ \A j \in 1 .. k : Before(s, k)[j] = s[j]
  BY <1>1, DividedProperties
<1>4. s[Len(s)] \in S
  BY <1>1, ElementOfSeq
<1> QED BY <1>2, <1>3, <1>4 DEF k, Last

\* The division moves back over one element ...
LEMMA DivideBack ==
  ASSUME NEW S, NEW s \in Seq(S), NEW k \in 1 .. Len(s)
  PROVE  /\ Before(s, k - 1) = Front(Before(s, k))
         /\ Behind(s, k - 1) = <<Last(Before(s, k))>> \o Behind(s, k)
<1> DEFINE a == Before(s, k)
           b == Behind(s, k)
           c == Before(s, k - 1)
           d == Behind(s, k - 1)
<1>1. /\ Len(s) \in Nat /\ k \in Nat \ {0} /\ s[k] \in S
      /\ a \in Seq(S) /\ Len(a) = k /\ (\A j \in 1 .. k : a[j] = s[j])
      /\ b \in Seq(S) /\ Len(b) = Len(s) - k
      /\ \A j \in 1 .. Len(s) - k : b[j] = s[k + j]
  <2>1. k \in 0 .. Len(s)
    BY LenProperties
  <2> QED BY <2>1, DividedProperties, ElementOfSeq
<1>2. /\ c \in Seq(S) /\ Len(c) = k - 1 /\ (\A j \in 1 .. k - 1 : c[j] = s[j])
      /\ d \in Seq(S) /\ Len(d) = Len(s) - (k - 1)
      /\ \A j \in 1 .. Len(s) - (k - 1) : d[j] = s[(k - 1) + j]
  <2>1. k - 1 \in 0 .. Len(s)
    BY LenProperties
  <2> QED BY <2>1, DividedProperties
<1> HIDE DEF a, b, c, d
<1>3. a # <<>>
  BY <1>1
<1>4. /\ Front(a) \in Seq(S) /\ Len(Front(a)) = Len(a) - 1
      /\ \A j \in 1 .. Len(a) - 1 : Front(a)[j] = a[j]
      /\ Last(a) = a[Len(a)]
  BY <1>1, <1>3, FrontProperties
<1>5. c = Front(a)
  <2>1. Len(c) = Len(Front(a)) /\ \A j \in 1 .. Len(c) : c[j] = Front(a)[j]
    BY <1>1, <1>2, <1>4
  <2> QED BY <1>2, <1>4, <2>1, SeqEqual
<1>6. Last(a) = s[k] /\ <<s[k]>> \in Seq(S) /\ Len(<<s[k]>>) = 1 /\ <<s[k]>>[1] = s[k]
  BY <1>1, <1>4
<1>7. d = <<s[k]>> \o b
  <2> DEFINE e == <<s[k]>>
  <2>1. e \in Seq(S) /\ Len(e) = 1 /\ e[1] = s[k]
    BY <1>6
  <2> HIDE DEF e
  <2>2. /\ e \o b \in Seq(S) /\ Len(e \o b) = Len(e) + Len(b)
        /\ \A j \in 1 .. Len(e) + Len(b) :
             (e \o b)[j] = IF j <= Len(e) THEN e[j] ELSE b[j - Len(e)]
    BY <1>1, <2>1, ConcatProperties
  <2>3. Len(d) = Len(e \o b)
    BY <1>1, <1>2, <2>1, <2>2
  <2>4. ASSUME NEW j \in 1 .. Len(d) PROVE d[j] = (e \o b)[j]
    <3>1. d[j] = s[(k - 1) + j] /\ j \in 1 .. 1 + (Len(s) - k)
      BY <1>1, <1>2
    <3>2. (e \o b)[j] = IF j <= 1 THEN e[j] ELSE b[j - 1]
      BY <1>1, <2>1, <2>2, <3>1
    <3>3. CASE j = 1
      <4>1. (k - 1) + 1 = k
        BY <1>1
      <4> QED BY <2>1, <3>1, <3>2, <3>3, <4>1
    <3>4. CASE j # 1
      <4>1. j - 1 \in 1 .. Len(s) - k /\ k + (j - 1) = (k - 1) + j
        BY <1>1, <3>1, <3>4
      <4> QED BY <1>1, <3>1, <3>2, <3>4, <4>1
    <3> QED BY <3>3, <3>4
  <2>5. d = e \o b
    BY <1>2, <2>2, <2>3, <2>4, SeqEqual
  <2> QED BY <2>5 DEF e
<1>8. c = Front(a) /\ d = <<Last(a)>> \o b
  BY <1>5, <1>6, <1>7
<1> QED BY <1>8 DEF a, b, c, d

\* ... and forward.
LEMMA DivideForward ==
  ASSUME NEW S, NEW s \in Seq(S), NEW k \in 0 .. Len(s) - 1
  PROVE  /\ Before(s, k + 1) = Append(Before(s, k), Head(Behind(s, k)))
         /\ Behind(s, k + 1) = Tail(Behind(s, k))
         /\ Behind(s, k) # <<>>
<1> DEFINE a == Before(s, k)
           b == Behind(s, k)
           c == Before(s, k + 1)
           d == Behind(s, k + 1)
<1>1. /\ Len(s) \in Nat /\ k \in Nat /\ k < Len(s) /\ s[k + 1] \in S
      /\ a \in Seq(S) /\ Len(a) = k /\ (\A j \in 1 .. k : a[j] = s[j])
      /\ b \in Seq(S) /\ Len(b) = Len(s) - k
      /\ \A j \in 1 .. Len(s) - k : b[j] = s[k + j]
  <2>1. k \in 0 .. Len(s) /\ k + 1 \in 1 .. Len(s) /\ k < Len(s) /\ Len(s) \in Nat
    BY LenProperties
  <2>2. s[k + 1] \in S
    BY <2>1, ElementOfSeq
  <2>3. /\ a \in Seq(S) /\ Len(a) = k /\ (\A j \in 1 .. k : a[j] = s[j])
        /\ b \in Seq(S) /\ Len(b) = Len(s) - k
        /\ \A j \in 1 .. Len(s) - k : b[j] = s[k + j]
    BY <2>1, DividedProperties
  <2> QED BY <2>1, <2>2, <2>3
<1>2. /\ c \in Seq(S) /\ Len(c) = k + 1 /\ (\A j \in 1 .. k + 1 : c[j] = s[j])
      /\ d \in Seq(S) /\ Len(d) = Len(s) - (k + 1)
      /\ \A j \in 1 .. Len(s) - (k + 1) : d[j] = s[(k + 1) + j]
  <2> DEFINE m == k + 1
  <2>1. m \in 0 .. Len(s)
    BY LenProperties
  <2> HIDE DEF m
  <2>2. /\ Before(s, m) \in Seq(S) /\ Len(Before(s, m)) = m
        /\ (\A j \in 1 .. m : Before(s, m)[j] = s[j])
        /\ Behind(s, m) \in Seq(S) /\ Len(Behind(s, m)) = Len(s) - m
        /\ \A j \in 1 .. Len(s) - m : Behind(s, m)[j] = s[m + j]
    BY <2>1, DividedProperties
  <2> QED BY <2>2 DEF m
<1> HIDE DEF a, b, c, d
<1>3. b # <<>> /\ Head(b) = s[k + 1]
  BY <1>1
<1>4. c = Append(a, s[k + 1])
  <2>1. /\ Append(a, s[k + 1]) \in Seq(S) /\ Len(Append(a, s[k + 1])) = k + 1
        /\ \A j \in 1 .. k + 1 : Append(a, s[k + 1])[j] = c[j]
    BY <1>1, <1>2
  <2> QED BY <1>2, <2>1, SeqEqual
<1>5. d = Tail(b)
  <2>1. /\ Tail(b) \in Seq(S) /\ Len(Tail(b)) = Len(b) - 1
        /\ \A j \in 1 .. Len(Tail(b)) : Tail(b)[j] = b[j + 1]
    BY <1>1, <1>3, HeadTailProperties
  <2>2. Len(d) = Len(Tail(b))
    BY <1>1, <1>2, <2>1
  <2>3. ASSUME NEW j \in 1 .. Len(d) PROVE d[j] = Tail(b)[j]
    <3>1. j + 1 \in 1 .. Len(s) - k /\ k + (j + 1) = (k + 1) + j
      BY <1>1, <1>2
    <3> QED BY <1>1, <1>2, <2>1, <2>2, <3>1
  <2> QED BY <1>2, <2>1, <2>2, <2>3, SeqEqual
<1>6. c = Append(a, Head(b)) /\ d = Tail(b) /\ b # <<>>
  BY <1>3, <1>4, <1>5
<1> QED BY <1>6 DEF a, b, c, d

\* The element before the division is taken out ...
LEMMA DivideErase ==
  ASSUME NEW S, NEW s \in Seq(S), NEW k \in 1 .. Len(s)
  PROVE  /\ Before(RemoveAt(s, k), k - 1) = Before(s, k - 1)
         /\ Behind(RemoveAt(s, k), k - 1) = Behind(s, k)
<1> DEFINE t == RemoveAt(s, k)
           m == k - 1
<1>1. /\ Len(s) \in Nat /\ k \in 0 .. Len(s)
      /\ m \in 0 .. Len(s) /\ m \in 0 .. Len(s) - 1
  BY LenProperties
<1>2. /\ t \in Seq(S) /\ Len(t) = Len(s) - 1
      /\ \A j \in 1 .. Len(s) - 1 : t[j] = IF j < k THEN s[j] ELSE s[j + 1]
  BY RemoveAtProperties
<1> HIDE DEF t, m
<1>3. m \in 0 .. Len(t)
  BY <1>1, <1>2
<1>4. /\ Before(t, m) \in Seq(S) /\ Len(Before(t, m)) = m
      /\ (\A j \in 1 .. m : Before(t, m)[j] = t[j])
      /\ Behind(t, m) \in Seq(S) /\ Len(Behind(t, m)) = Len(t) - m
      /\ \A j \in 1 .. Len(t) - m : Behind(t, m)[j] = t[m + j]
  BY <1>2, <1>3, DividedProperties
<1>5. /\ Before(s, m) \in Seq(S) /\ Len(Before(s, m)) = m
      /\ (\A j \in 1 .. m : Before(s, m)[j] = s[j])
  BY <1>1, DividedProperties
<1>6. /\ Behind(s, k) \in Seq(S) /\ Len(Behind(s, k)) = Len(s) - k
      /\ (\A j \in 1 .. Len(s) - k : Behind(s, k)[j] = s[k + j])
  BY <1>1, DividedProperties
<1>7. Before(t, m) = Before(s, m)
  <2>1. ASSUME NEW j \in 1 .. m PROVE Before(t, m)[j] = Before(s, m)[j]
    <3>1. j \in 1 .. Len(s) - 1 /\ j < k
      BY <1>1 DEF m
    <3> QED BY <1>2, <1>4, <1>5, <3>1
  <2> QED BY <1>4, <1>5, <2>1, SeqEqual
<1>8. Behind(t, m) = Behind(s, k)
  <2>1. Len(Behind(t, m)) = Len(Behind(s, k))
    <3>1. (Len(s) - 1) - m = Len(s) - k
      BY <1>1 DEF m
    <3> QED BY <1>2, <1>4, <1>6, <3>1
  <2>2. ASSUME NEW j \in 1 .. Len(Behind(t, m))
        PROVE  Behind(t, m)[j] = Behind(s, k)[j]
    <3>1. /\ j \in 1 .. Len(t) - m /\ j \in 1 .. Len(s) - k
          /\ m + j \in 1 .. Len(s) - 1 /\ ~(m + j < k) /\ (m + j) + 1 = k + j
      BY <1>1, <1>2, <1>4, <1>6, <2>1 DEF m
    <3>2. Behind(t, m)[j] = t[m + j] /\ t[m + j] = s[(m + j) + 1]
      BY <1>2, <1>4, <3>1
    <3> QED BY <1>6, <3>1, <3>2
  <2> QED BY <1>4, <1>6, <2>1, <2>2, SeqEqual
<1> QED BY <1>7, <1>8 DEF t, m

\* ... and one is put there.
LEMMA DivideInsert ==
  ASSUME NEW S, NEW s \in Seq(S), NEW k \in 0 .. Len(s), NEW e \in S
  PROVE  /\ Before(InsertAt(s, k + 1, e), k + 1) = Append(Before(s, k), e)
         /\ Behind(InsertAt(s, k + 1, e), k + 1) = Behind(s, k)
<1> DEFINE m == k + 1
<1>1. Len(s) \in Nat /\ k \in Nat /\ m \in 1 .. Len(s) + 1
  BY LenProperties
<1> HIDE DEF m
<1> DEFINE t == InsertAt(s, m, e)
           a == Append(Before(s, k), e)
<1>2. /\ t \in Seq(S) /\ Len(t) = Len(s) + 1
      /\ \A j \in 1 .. Len(s) + 1 : t[j] = IF j < m THEN s[j]
                                           ELSE IF j = m THEN e ELSE s[j - 1]
  <2>1. /\ InsertAt(s, m, e) \in Seq(S)
        /\ Len(InsertAt(s, m, e)) = Len(s) + 1
        /\ \A j \in 1 .. Len(s) + 1 :
             InsertAt(s, m, e)[j] = IF j < m THEN s[j]
                                    ELSE IF j = m THEN e ELSE s[j - 1]
    <3> HIDE DEF t, a
    <3> QED BY ONLY <1>1, e \in S, s \in Seq(S), InsertAtProperties
  <2> QED BY <2>1
<1> HIDE DEF t
<1>3. m \in 0 .. Len(t)
  BY <1>1, <1>2
<1>4. /\ Before(t, m) \in Seq(S) /\ Len(Before(t, m)) = m
      /\ (\A j \in 1 .. m : Before(t, m)[j] = t[j])
      /\ Behind(t, m) \in Seq(S) /\ Len(Behind(t, m)) = Len(t) - m
      /\ \A j \in 1 .. Len(t) - m : Behind(t, m)[j] = t[m + j]
  BY <1>2, <1>3, DividedProperties
<1>5. /\ Before(s, k) \in Seq(S) /\ Len(Before(s, k)) = k
      /\ (\A j \in 1 .. k : Before(s, k)[j] = s[j])
      /\ Behind(s, k) \in Seq(S) /\ Len(Behind(s, k)) = Len(s) - k
      /\ (\A j \in 1 .. Len(s) - k : Behind(s, k)[j] = s[k + j])
  BY DividedProperties
<1>6. /\ a \in Seq(S) /\ Len(a) = m
      /\ \A j \in 1 .. m : a[j] = IF j < m THEN s[j] ELSE e
  BY <1>1, <1>5 DEF m
<1> HIDE DEF a
<1>7. Before(t, m) = a
  <2>1. ASSUME NEW j \in 1 .. m PROVE Before(t, m)[j] = a[j]
    <3>1. j \in 1 .. Len(s) + 1 /\ (j < m \/ j = m)
      BY <1>1
    <3> QED BY <1>2, <1>4, <1>6, <3>1
  <2> QED BY <1>4, <1>6, <2>1, SeqEqual
<1>8. Behind(t, m) = Behind(s, k)
  <2>1. Len(Behind(t, m)) = Len(Behind(s, k))
    <3>1. (Len(s) + 1) - m = Len(s) - k
      BY <1>1 DEF m
    <3> QED BY <1>2, <1>4, <1>5, <3>1
  <2>2. ASSUME NEW j \in 1 .. Len(Behind(t, m))
        PROVE  Behind(t, m)[j] = Behind(s, k)[j]
    <3> DEFINE x == Len(s)
               y == Len(t)
               z == Len(Behind(t, m))
    <3>a. x \in Nat /\ k \in 0 .. x /\ y = x + 1 /\ z = y - m /\ j \in 1 .. z
      BY <1>1, <1>2, <1>4, LenProperties
    <3> HIDE DEF x, y, z
    <3>b. /\ j \in 1 .. y - m /\ j \in 1 .. x - k
          /\ m + j \in 1 .. x + 1 /\ ~(m + j < m) /\ m + j # m
          /\ (m + j) - 1 = k + j
      BY ONLY <3>a DEF m
    <3>1. /\ j \in 1 .. Len(t) - m /\ j \in 1 .. Len(s) - k
          /\ m + j \in 1 .. Len(s) + 1 /\ ~(m + j < m) /\ m + j # m
          /\ (m + j) - 1 = k + j
      BY <3>b DEF x, y
    <3>2. Behind(t, m)[j] = t[m + j] /\ t[m + j] = s[(m + j) - 1]
      BY <1>2, <1>4, <3>1
    <3> QED BY <1>5, <3>1, <3>2
  <2> QED BY <1>4, <1>5, <2>1, <2>2, SeqEqual
<1> QED BY <1>7, <1>8 DEF t, m, a

-----------------------------------------------------------------------------
(* The elements of a sequence *)

LEMMA RangeIsFinite ==
  ASSUME NEW S, NEW s \in Seq(S)
  PROVE  Range(s) \subseteq S /\ IsFiniteSet(Range(s))
<1>1. Len(s) \in Nat /\ DOMAIN s = 1 .. Len(s) /\ s \in [1 .. Len(s) -> S]
  BY LenProperties
<1>2. Range(s) = {s[i] : i \in 1 .. Len(s)} /\ Range(s) \subseteq S
  BY <1>1 DEF Range
<1> DEFINE n == Len(s)
           R == Range(s)
<1>3. s \in [1 .. n -> R] /\ \A t \in R : \E i \in 1 .. n : s[i] = t
  BY <1>1, <1>2
<1> HIDE DEF n, R
<1>4. s \in Surjection(1 .. n, R)
  BY <1>3, Fun_IsSurj
<1>5. n \in Nat
  BY <1>1 DEF n
<1>6. ExistsSurjection(1 .. n, R)
  BY <1>4, Fun_ExistsSurj
<1>7. IsFiniteSet(R)
  BY <1>5, <1>6, FS_NatSurjection
<1> QED BY <1>2, <1>7 DEF R

-----------------------------------------------------------------------------
(* The elements of a finite set in the order of their keys *)

Rank(S, key, a) == Cardinality({b \in S : key[b] <= key[a]})

LEMMA RankOrders ==
  ASSUME NEW S, IsFiniteSet(S), NEW key \in [S -> Nat], NEW a \in S, NEW b \in S
  PROVE  /\ Rank(S, key, a) \in 1 .. Cardinality(S)
         /\ key[a] < key[b] => Rank(S, key, a) < Rank(S, key, b)
<1> DEFINE Upto(c) == {d \in S : key[d] <= key[c]}
<1>1. ASSUME NEW c \in S
      PROVE  /\ IsFiniteSet(Upto(c)) /\ Cardinality(Upto(c)) \in 1 .. Cardinality(S)
             /\ c \in Upto(c)
  <2>1. Upto(c) \in SUBSET S /\ c \in Upto(c) /\ Upto(c) # {}
    OBVIOUS
  <2> HIDE DEF Upto
  <2>2. IsFiniteSet(Upto(c)) /\ Cardinality(Upto(c)) <= Cardinality(S)
    BY <2>1, FS_Subset
  <2>3. Cardinality(Upto(c)) \in Nat /\ Cardinality(S) \in Nat
    BY <2>2, FS_CardinalityType
  <2>4. Cardinality(Upto(c)) # 0
    BY <2>1, <2>2, FS_EmptySet
  <2> QED BY <2>1, <2>2, <2>3, <2>4
<1>2. Rank(S, key, a) = Cardinality(Upto(a)) /\ Rank(S, key, b) = Cardinality(Upto(b))
  BY DEF Rank
<1>3. ASSUME key[a] < key[b]
      PROVE  Cardinality(Upto(a)) < Cardinality(Upto(b))
  <2>1. Upto(a) \in SUBSET Upto(b) /\ b \notin Upto(a)
    BY <1>3
  <2> HIDE DEF Upto
  <2>2. IsFiniteSet(Upto(b)) /\ b \in Upto(b)
    BY <1>1
  <2>3. Cardinality(Upto(a)) <= Cardinality(Upto(b))
        /\ (Cardinality(Upto(b)) = Cardinality(Upto(a)) => Upto(b) = Upto(a))
    BY <2>1, <2>2, FS_Subset
  <2>4. Cardinality(Upto(a)) \in Nat /\ Cardinality(Upto(b)) \in Nat
    BY <1>1, FS_CardinalityType
  <2> QED BY <2>1, <2>2, <2>3, <2>4
<1> HIDE DEF Upto
<1> QED BY <1>1, <1>2, <1>3

\* Where no two elements have the same key, every rank is taken once.
LEMMA RankOnto ==
  ASSUME NEW S, IsFiniteSet(S), NEW key \in [S -> Nat],
         \A a, b \in S : key[a] = key[b] => a = b
  PROVE  /\ Cardinality(S) \in Nat
         /\ \A a, b \in S : Rank(S, key, a) = Rank(S, key, b) => a = b
         /\ \A i \in 1 .. Cardinality(S) : \E a \in S : Rank(S, key, a) = i
<1> DEFINE n == Cardinality(S)
           rank == [a \in S |-> Rank(S, key, a)]
<1>1. n \in Nat
  BY FS_CardinalityType
<1>2. \A a, b \in S : Rank(S, key, a) \in 1 .. n /\
                      (key[a] < key[b] => Rank(S, key, a) < Rank(S, key, b))
  BY RankOrders
<1>3. \A a, b \in S : Rank(S, key, a) = Rank(S, key, b) => a = b
  <2> SUFFICES ASSUME NEW a \in S, NEW b \in S, a # b
               PROVE  Rank(S, key, a) # Rank(S, key, b)
    OBVIOUS
  <2>1. key[a] < key[b] \/ key[b] < key[a]
    OBVIOUS
  <2>2. Rank(S, key, a) \in Nat /\ Rank(S, key, b) \in Nat
    BY <1>1, <1>2
  <2> QED BY <1>2, <2>1, <2>2
<1>4. rank \in Injection(S, 1 .. n)
  <2>1. rank \in [S -> 1 .. n]
    BY <1>2
  <2>2. \A a, b \in S : rank[a] = rank[b] => a = b
    BY <1>3
  <2> HIDE DEF rank
  <2> QED BY <2>1, <2>2, Fun_IsInj
<1>5. IsFiniteSet(1 .. n) /\ Cardinality(1 .. n) = n
  <2>1. 1 \in Int /\ n \in Int /\ (1 > n => n = 0)
    BY <1>1
  <2> HIDE DEF n
  <2>2. IsFiniteSet(1 .. n) /\ Cardinality(1 .. n) = IF 1 > n THEN 0 ELSE n - 1 + 1
    BY <2>1, FS_Interval
  <2> QED BY <1>1, <2>1, <2>2
<1>6. rank \in Surjection(S, 1 .. n)
  <2> HIDE DEF rank
  <2>1. Cardinality(S) = Cardinality(1 .. n)
    BY <1>5
  <2> HIDE DEF n
  <2> QED BY <1>4, <1>5, <2>1, FS_Injection
<1>7. \A i \in 1 .. n : \E a \in S : rank[a] = i
  <2> HIDE DEF rank, n
  <2> QED BY <1>6, Fun_SurjectionProperties
<1> QED BY <1>1, <1>3, <1>7

=============================================================================
