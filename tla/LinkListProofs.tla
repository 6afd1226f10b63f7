--------------------------- MODULE LinkListProofs ---------------------------
(***************************************************************************)
(* What the operations of LinkList do to a list that holds a sequence of   *)
(* nodes, for any set of nodes.                                            *)
(***************************************************************************)
EXTENDS LinkList, DataLemmas, FiniteSetTheorems

-----------------------------------------------------------------------------
(* A walk over a list *)

Pointer == Node \cup {NULL, Junk}

\* The node at a place of a sequence, NULL beyond it.
At(s, i) == IF i \in 1 .. Len(s) THEN s[i] ELSE NULL

\* The list l holds the nodes of s, in that order and none twice, and ends.
IsPath(l, s) ==
  /\ s \in Seq(Node)
  /\ \A i, j \in 1 .. Len(s) : s[i] = s[j] => i = j
  /\ l.head = At(s, 1)
  /\ \A i \in 1 .. Len(s) : l.next[s[i]] = At(s, i + 1)

\* Nth follows the pointers, a step at a time.
LEMMA NthSteps ==
  ASSUME NEW l \in ListType
  PROVE  /\ \A i \in Nat : i <= 1 => Nth(l, i) = l.head
         /\ \A i \in Nat \ {0} : Nth(l, i + 1) = IF Nth(l, i) \in Node
                                                 THEN l.next[Nth(l, i)] ELSE Nth(l, i)
<1> DEFINE Rule(a) == [k \in Nat |-> IF k <= 1 THEN l.head
                                     ELSE IF a[k - 1] \in Node THEN l.next[a[k - 1]]
                                                               ELSE a[k - 1]]
           at == CHOOSE a : a = Rule(a)
           follow == [p \in Pointer |-> IF p \in Node THEN l.next[p] ELSE p]
<1>1. l.head \in Pointer /\ follow \in [Pointer -> Pointer]
  BY DEF ListType, Pointer
<1>2. PICK f \in [Nat -> Pointer] : Iterates(f, l.head, follow)
  <2> HIDE DEF follow
  <2> QED BY <1>1, Iteration
<1>3. \E a : a = Rule(a)
  <2> DEFINE a == [k \in Nat |-> IF k <= 1 THEN l.head ELSE f[k - 1]]
  <2>1. ASSUME NEW k \in Nat, ~(k <= 1)
        PROVE  a[k] = IF a[k - 1] \in Node THEN l.next[a[k - 1]] ELSE a[k - 1]
    <3>1. k - 1 \in Nat /\ k - 2 \in Nat /\ (k - 2) + 1 = k - 1
      BY <2>1
    <3>2. f[k - 1] = follow[f[k - 2]] /\ f[k - 2] \in Pointer
      BY <3>1, <1>2 DEF Iterates
    <3>3. a[k] = f[k - 1] /\ a[k - 1] = f[k - 2]
      BY <2>1, <3>1, <1>2 DEF Iterates
    <3> QED BY <3>2, <3>3
  <2> HIDE DEF a
  <2>2. a = Rule(a)
    BY <2>1 DEF a
  <2> QED BY <2>2
<1>4. at = Rule(at)
  <2> HIDE DEF Rule
  <2> QED BY <1>3
<1>5. \A i : Nth(l, i) = at[i]
  BY DEF Nth
<1> HIDE DEF at
<1>6. \A i \in Nat : at[i] = IF i <= 1 THEN l.head
                             ELSE IF at[i - 1] \in Node THEN l.next[at[i - 1]]
                                                        ELSE at[i - 1]
  BY <1>4
<1>7. ASSUME NEW i \in Nat \ {0}
      PROVE  at[i + 1] = IF at[i] \in Node THEN l.next[at[i]] ELSE at[i]
  BY <1>6
<1> QED BY <1>5, <1>6, <1>7

LEMMA PathNth ==
  ASSUME NEW l \in ListType, NEW s, IsPath(l, s)
  PROVE  \A i \in Nat \ {0} : Nth(l, i) = At(s, i)
<1> DEFINE S == {i \in Nat : Nth(l, i + 1) = At(s, i + 1)}
<1>1. 0 \in S
  BY NthSteps DEF IsPath
<1>2. ASSUME NEW i \in Nat, i \in S PROVE i + 1 \in S
  <2>1. /\ Nth(l, i + 1) = At(s, i + 1)
        /\ Nth(l, (i + 1) + 1) = IF Nth(l, i + 1) \in Node
                                 THEN l.next[Nth(l, i + 1)] ELSE Nth(l, i + 1)
    BY <1>2, NthSteps
  <2>2. CASE i + 1 \in 1 .. Len(s)
    BY <2>1, <2>2, ElementOfSeq DEF IsPath, At
  <2>3. CASE i + 1 \notin 1 .. Len(s)
    BY <2>1, <2>3, LinkListAssumption, LenProperties DEF IsPath, At
  <2> QED BY <2>2, <2>3
<1> HIDE DEF S
<1>3. Nat \subseteq S
  BY <1>1, <1>2, NatSetInduction
<1>4. ASSUME NEW i \in Nat \ {0} PROVE Nth(l, i) = At(s, i)
  <2>1. i - 1 \in S /\ (i - 1) + 1 = i
    BY <1>3
  <2> QED BY <2>1 DEF S
<1> QED BY <1>4

\* A path is no longer than there are nodes.
LEMMA PathFits ==
  ASSUME NEW l, NEW s, IsPath(l, s)
  PROVE  Len(s) \in Nat /\ Len(s) <= Cardinality(Node)
<1>1. Len(s) \in Nat /\ s \in [1 .. Len(s) -> Node]
  BY LenProperties DEF IsPath
<1>2. s \in Injection(1 .. Len(s), Node)
  BY <1>1 DEF IsPath, Injection, IsInjective
<1>3. Cardinality(1 .. Len(s)) <= Cardinality(Node)
  BY <1>2, FS_Injection, LinkListAssumption
<1>4. Cardinality(1 .. Len(s)) = Len(s)
  BY <1>1, FS_Interval
<1> QED BY <1>1, <1>3, <1>4

\* Length counts the nodes of the path.
LEMMA PathLength ==
  ASSUME NEW l \in ListType, NEW s, IsPath(l, s)
  PROVE  Length(l) = Len(s)
<1>1. Len(s) \in Nat /\ Len(s) <= Cardinality(Node) /\ Cardinality(Node) \in Nat
  BY PathFits, FS_CardinalityType, LinkListAssumption
<1>2. \A i \in 1 .. Len(s) : s[i] \in Node /\ s[i] # NULL
  BY LinkListAssumption, ElementOfSeq DEF IsPath
<1>3. {i \in Places : Nth(l, i) # NULL} = 1 .. Len(s)
  BY <1>1, <1>2, PathNth DEF Places, At
<1>4. Cardinality(1 .. Len(s)) = Len(s)
  <2>1. 1 \in Int /\ Len(s) \in Int
    BY <1>1
  <2>2. Cardinality(1 .. Len(s)) = IF 1 > Len(s) THEN 0 ELSE Len(s) - 1 + 1
    BY <2>1, FS_Interval
  <2> QED BY <1>1, <2>2
<1> QED BY <1>3, <1>4 DEF Length

\* What a walk meets.
Walk(l) == [i \in 1 .. Length(l) |-> Nth(l, i)]

LEMMA WalkIsPath ==
  ASSUME NEW l \in ListType, NEW s, IsPath(l, s)
  PROVE  Walk(l) = s
<1>1. Length(l) = Len(s) /\ \A i \in 1 .. Len(s) : Nth(l, i) = s[i]
  BY PathNth, PathLength, PathFits DEF At
<1>2. s = [i \in 1 .. Len(s) |-> s[i]]
  BY LenProperties DEF IsPath
<1> QED BY <1>1, <1>2 DEF Walk

LEMMA PathInList ==
  ASSUME NEW l \in ListType, NEW s, IsPath(l, s)
  PROVE  InList(l) = {s[i] : i \in 1 .. Len(s)}
BY PathNth, PathLength, PathFits DEF InList, At

LEMMA PathFinal ==
  ASSUME NEW l \in ListType, NEW s, IsPath(l, s)
  PROVE  /\ IsEmpty(l) <=> Len(s) = 0
         /\ Len(s) > 0 => Final(l) = s[Len(s)]
<1>1. Len(s) \in Nat
  BY PathFits
<1>2. l.head = At(s, 1)
  BY DEF IsPath
<1>3. Len(s) > 0 => s[1] \in Node /\ Nth(l, Len(s)) = s[Len(s)]
  BY <1>1, PathNth, ElementOfSeq DEF IsPath, At
<1> QED BY <1>1, <1>2, <1>3, PathLength, LinkListAssumption DEF IsEmpty, Final, At

LEMMA EmptyPath == EmptyList \in ListType /\ IsPath(EmptyList, <<>>)
<1>1. EmptyList \in ListType
  BY DEF EmptyList, ListType
<1>2. <<>> \in Seq(Node) /\ Len(<<>>) = 0
  OBVIOUS
<1> QED BY <1>1, <1>2 DEF IsPath, EmptyList, At

-----------------------------------------------------------------------------
(* Linking a node in *)

\* Node n is linked in at place i: its next is the node that was there, and the
\* pointer to that one is to n.
LinkedIn(l, m, s, i, n) ==
  /\ m.head = IF i = 1 THEN n ELSE l.head
  /\ m.next[n] = At(s, i)
  /\ \A j \in 1 .. Len(s) : m.next[s[j]] = IF j = i - 1 THEN n ELSE l.next[s[j]]

LEMMA LinkIn ==
  ASSUME NEW l, NEW m, NEW s, IsPath(l, s),
         NEW i \in 1 .. Len(s) + 1, NEW n \in Node,
         \A j \in 1 .. Len(s) : s[j] # n,
         LinkedIn(l, m, s, i, n)
  PROVE  IsPath(m, InsertAt(s, i, n))
<1> DEFINE t == InsertAt(s, i, n)
<1>1. s \in Seq(Node) /\ Len(s) \in Nat /\ \A j \in 1 .. Len(s) : s[j] \in Node
  BY PathFits, ElementOfSeq DEF IsPath
<1>2. /\ t \in Seq(Node) /\ Len(t) = Len(s) + 1
      /\ \A j \in 1 .. Len(s) + 1 :
           t[j] = IF j < i THEN s[j] ELSE IF j = i THEN n ELSE s[j - 1]
  BY <1>1, InsertAtProperties
<1> HIDE DEF t
<1>3. ASSUME NEW j \in 1 .. Len(t), NEW k \in 1 .. Len(t), t[j] = t[k]
      PROVE  j = k
  <2> DEFINE Old(x) == IF x < i THEN x ELSE x - 1
  <2>1. ASSUME NEW x \in 1 .. Len(t), x # i
        PROVE  Old(x) \in 1 .. Len(s) /\ t[x] = s[Old(x)]
    BY <1>1, <1>2, <2>1
  <2>2. CASE j = i \/ k = i
    BY <1>1, <1>2, <1>3, <2>1, <2>2
  <2>3. CASE j # i /\ k # i
    <3>1. /\ Old(j) \in 1 .. Len(s) /\ t[j] = s[Old(j)]
          /\ Old(k) \in 1 .. Len(s) /\ t[k] = s[Old(k)]
      BY <2>1, <2>3
    <3>2. s[Old(j)] = s[Old(k)] => Old(j) = Old(k)
      <4> HIDE DEF Old
      <4> QED BY <3>1 DEF IsPath
    <3>3. Old(j) = Old(k)
      <4> HIDE DEF Old
      <4> QED BY <1>3, <3>1, <3>2
    <3>4. j \in Nat /\ k \in Nat /\ i \in Nat
      BY <1>1, <1>2
    <3> QED BY <2>3, <3>3, <3>4
  <2> QED BY <2>2, <2>3
<1>4. m.head = At(t, 1)
  BY <1>1, <1>2 DEF IsPath, At, LinkedIn
<1>5. ASSUME NEW j \in 1 .. Len(t) PROVE m.next[t[j]] = At(t, j + 1)
  <2>1. CASE j < i
    <3>1. t[j] = s[j] /\ j \in 1 .. Len(s) /\ j + 1 \in 1 .. Len(t)
      BY <1>1, <1>2, <2>1
    <3>2. l.next[s[j]] = At(s, j + 1) /\ t[j + 1] = IF j + 1 < i THEN s[j + 1] ELSE n
      BY <1>1, <1>2, <2>1, <3>1 DEF IsPath
    <3>3. j + 1 < i => j + 1 \in 1 .. Len(s)
      BY <1>1, <2>1
    <3> QED BY <1>1, <2>1, <3>1, <3>2, <3>3 DEF LinkedIn, At
  <2>2. CASE j = i
    <3>1. t[j] = n /\ (j + 1 \in 1 .. Len(t) => j \in 1 .. Len(s) /\ t[j + 1] = s[j])
      BY <1>1, <1>2, <2>2
    <3> QED BY <1>1, <1>2, <2>2, <3>1 DEF LinkedIn, At
  <2>3. CASE j > i
    <3>1. t[j] = s[j - 1] /\ j - 1 \in 1 .. Len(s) /\ j - 1 # i - 1
      BY <1>1, <1>2, <2>3
    <3>2. m.next[t[j]] = At(s, (j - 1) + 1)
      BY <3>1 DEF LinkedIn, IsPath
    <3>3. j + 1 \in 1 .. Len(t) => t[j + 1] = s[j] /\ j \in 1 .. Len(s)
      BY <1>1, <1>2, <2>3
    <3> QED BY <1>1, <1>2, <2>3, <3>2, <3>3 DEF At
  <2> QED BY <1>1, <2>1, <2>2, <2>3
<1> QED BY <1>2, <1>3, <1>4, <1>5 DEF IsPath, t

\* sll_link_list_insert_at_tail (sll_linklist.c:70-91)
LEMMA InsertAtTailPath ==
  ASSUME NEW l \in ListType, NEW s, IsPath(l, s),
         NEW n \in Node, \A j \in 1 .. Len(s) : s[j] # n
  PROVE  /\ InsertAtTail(l, n) \in ListType
         /\ InsertAt(s, Len(s) + 1, n) = Append(s, n)
         /\ IsPath(InsertAtTail(l, n), Append(s, n))
<1> DEFINE m == InsertAtTail(l, n)
<1>1. s \in Seq(Node) /\ Len(s) \in Nat /\ \A j \in 1 .. Len(s) : s[j] \in Node
  BY PathFits, ElementOfSeq DEF IsPath
<1>2. IsEmpty(l) <=> Len(s) = 0
  BY PathFinal
<1>3. Len(s) > 0 => Final(l) = s[Len(s)]
  BY PathFinal
<1>4. m \in ListType
  BY <1>1, <1>2, <1>3 DEF InsertAtTail, ListType
<1>5. LinkedIn(l, m, s, Len(s) + 1, n)
  <2>1. CASE Len(s) = 0
    BY <1>1, <1>2, <2>1 DEF InsertAtTail, ListType, LinkedIn, At
  <2>2. CASE Len(s) > 0
    BY <1>1, <1>2, <1>3, <2>2 DEF InsertAtTail, ListType, LinkedIn, At, IsPath
  <2> QED BY <1>1, <2>1, <2>2
<1>6. Len(s) + 1 \in 1 .. Len(s) + 1
  BY <1>1
<1>7. InsertAt(s, Len(s) + 1, n) = Append(s, n)
  BY <1>1, InsertLast
<1> QED BY <1>4, <1>5, <1>6, <1>7, LinkIn

\* sll_link_list_insert_at_head
LEMMA InsertAtHeadPath ==
  ASSUME NEW l \in ListType, NEW s, IsPath(l, s),
         NEW n \in Node, \A j \in 1 .. Len(s) : s[j] # n
  PROVE  /\ InsertAtHead(l, n) \in ListType
         /\ IsPath(InsertAtHead(l, n), InsertAt(s, 1, n))
<1> DEFINE m == InsertAtHead(l, n)
<1>1. s \in Seq(Node) /\ Len(s) \in Nat /\ \A j \in 1 .. Len(s) : s[j] \in Node
  BY PathFits, ElementOfSeq DEF IsPath
<1>2. m \in ListType
  BY DEF InsertAtHead, ListType
<1>3. LinkedIn(l, m, s, 1, n)
  BY <1>1 DEF InsertAtHead, ListType, LinkedIn, IsPath
<1>4. 1 \in 1 .. Len(s) + 1
  BY <1>1
<1> QED BY <1>2, <1>3, <1>4, LinkIn

\* sll_link_list_insert_at_index: behind the i-th node, or nowhere.
LEMMA InsertAtIndexPath ==
  ASSUME NEW l \in ListType, NEW s, IsPath(l, s), NEW i \in Nat \ {0},
         NEW n \in Node, \A j \in 1 .. Len(s) : s[j] # n
  PROVE  /\ InsertAtIndex(l, n, i) \in ListType
         /\ i > Len(s) => InsertAtIndex(l, n, i) = l
         /\ i <= Len(s) => IsPath(InsertAtIndex(l, n, i), InsertAt(s, i + 1, n))
<1> DEFINE m == InsertAtIndex(l, n, i)
<1>1. s \in Seq(Node) /\ Len(s) \in Nat /\ \A j \in 1 .. Len(s) : s[j] \in Node
  BY PathFits, ElementOfSeq DEF IsPath
<1>2. Nth(l, i) = At(s, i)
  BY PathNth
<1>3. CASE i > Len(s)
  <2>1. Nth(l, i) = NULL
    BY <1>1, <1>2, <1>3 DEF At
  <2> QED BY <1>1, <1>3, <2>1 DEF InsertAtIndex
<1>4. CASE i <= Len(s)
  <2>1. /\ i \in 1 .. Len(s) /\ i + 1 \in 1 .. Len(s) + 1 /\ (i + 1) - 1 = i /\ i + 1 # 1
        /\ Nth(l, i) = s[i] /\ s[i] \in Node /\ s[i] # NULL /\ s[i] # n
    BY <1>1, <1>2, <1>4, LinkListAssumption DEF At
  <2>2. m = [l EXCEPT !.next = [@ EXCEPT ![n] = l.next[s[i]], ![s[i]] = n]]
    BY <2>1 DEF InsertAtIndex
  <2>3. l.next[s[i]] = At(s, i + 1)
    BY <2>1 DEF IsPath
  <2>4. m \in ListType
    BY <2>1, <2>2 DEF ListType
  <2>5. ASSUME NEW j \in 1 .. Len(s)
        PROVE  m.next[s[j]] = IF j = i THEN n ELSE l.next[s[j]]
    <3>1. s[j] = s[i] => j = i
      BY <2>1 DEF IsPath
    <3> QED BY <1>1, <2>1, <2>2, <3>1 DEF ListType
  <2>6. LinkedIn(l, m, s, i + 1, n)
    BY <1>1, <2>1, <2>2, <2>3, <2>5 DEF ListType, LinkedIn
  <2> HIDE DEF m
  <2>7. IsPath(m, InsertAt(s, i + 1, n))
    BY <2>1, <2>6, LinkIn
  <2> QED BY <1>1, <1>4, <2>4, <2>7 DEF m
<1> QED BY <1>1, <1>3, <1>4

-----------------------------------------------------------------------------
(* Taking a node out *)

\* The i-th node of s is taken out: the pointer to it is to the one behind it.
LinkedOut(l, m, s, i) ==
  /\ m.head = IF i = 1 THEN At(s, 2) ELSE l.head
  /\ \A j \in 1 .. Len(s) \ {i} :
       m.next[s[j]] = IF j = i - 1 THEN At(s, i + 1) ELSE l.next[s[j]]

LEMMA LinkOut ==
  ASSUME NEW l, NEW m, NEW s, IsPath(l, s), NEW i \in 1 .. Len(s),
         LinkedOut(l, m, s, i)
  PROVE  IsPath(m, RemoveAt(s, i))
<1> DEFINE t == RemoveAt(s, i)
           Old(j) == IF j < i THEN j ELSE j + 1
<1>1. s \in Seq(Node) /\ Len(s) \in Nat /\ \A j \in 1 .. Len(s) : s[j] \in Node
  BY PathFits, ElementOfSeq DEF IsPath
<1>2. /\ t \in Seq(Node) /\ Len(t) = Len(s) - 1
      /\ \A j \in 1 .. Len(s) - 1 : t[j] = IF j < i THEN s[j] ELSE s[j + 1]
  BY <1>1, RemoveAtProperties
<1> HIDE DEF t
<1>3. ASSUME NEW j \in 1 .. Len(t)
      PROVE  Old(j) \in 1 .. Len(s) /\ Old(j) # i /\ t[j] = s[Old(j)]
  BY <1>1, <1>2
<1>4. ASSUME NEW j \in 1 .. Len(t), NEW k \in 1 .. Len(t), t[j] = t[k]
      PROVE  j = k
  <2>1. /\ Old(j) \in 1 .. Len(s) /\ t[j] = s[Old(j)]
        /\ Old(k) \in 1 .. Len(s) /\ t[k] = s[Old(k)]
    BY <1>3
  <2>2. s[Old(j)] = s[Old(k)] => Old(j) = Old(k)
    <3> HIDE DEF Old
    <3> QED BY <2>1 DEF IsPath
  <2>3. Old(j) = Old(k)
    <3> HIDE DEF Old
    <3> QED BY <1>4, <2>1, <2>2
  <2>4. j \in Nat /\ k \in Nat /\ i \in Nat
    BY <1>1, <1>2
  <2> QED BY <2>3, <2>4
<1>5. m.head = At(t, 1)
  BY <1>1, <1>2 DEF IsPath, At, LinkedOut
<1>6. ASSUME NEW j \in 1 .. Len(t) PROVE m.next[t[j]] = At(t, j + 1)
  <2>1. CASE j < i - 1
    <3>1. t[j] = s[j] /\ j \in 1 .. Len(s) \ {i} /\ j # i - 1
      BY <1>1, <1>2, <2>1
    <3>2. m.next[t[j]] = At(s, j + 1)
      BY <3>1 DEF LinkedOut, IsPath
    <3>3. j + 1 \in 1 .. Len(t) /\ j + 1 \in 1 .. Len(s) /\ t[j + 1] = s[j + 1]
      BY <1>1, <1>2, <2>1
    <3> QED BY <3>2, <3>3 DEF At
  <2>2. CASE j = i - 1
    <3>1. t[j] = s[j] /\ j \in 1 .. Len(s) \ {i}
      BY <1>1, <1>2, <2>2
    <3>2. m.next[t[j]] = At(s, i + 1)
      BY <2>2, <3>1 DEF LinkedOut
    <3>3. /\ j + 1 = i /\ (i \in 1 .. Len(t) <=> i + 1 \in 1 .. Len(s))
          /\ i \in 1 .. Len(t) => t[i] = s[i + 1]
      BY <1>1, <1>2, <2>2
    <3> QED BY <3>2, <3>3 DEF At
  <2>3. CASE j > i - 1
    <3>1. t[j] = s[j + 1] /\ j + 1 \in 1 .. Len(s) \ {i} /\ j + 1 # i - 1
      BY <1>1, <1>2, <2>3
    <3>2. m.next[t[j]] = At(s, (j + 1) + 1)
      BY <3>1 DEF LinkedOut, IsPath
    <3>3. /\ j + 1 \in 1 .. Len(t) <=> (j + 1) + 1 \in 1 .. Len(s)
          /\ j + 1 \in 1 .. Len(t) => t[j + 1] = s[(j + 1) + 1]
      BY <1>1, <1>2, <2>3
    <3> QED BY <3>2, <3>3 DEF At
  <2> QED BY <1>1, <1>2, <2>1, <2>2, <2>3
<1> QED BY <1>2, <1>4, <1>5, <1>6 DEF IsPath, t

\* sll_link_list_head_remove
LEMMA HeadRemovePath ==
  ASSUME NEW l \in ListType, NEW s, IsPath(l, s), Len(s) > 0
  PROVE  /\ HeadRemove(l) \in ListType
         /\ IsPath(HeadRemove(l), RemoveAt(s, 1))
<1> DEFINE m == HeadRemove(l)
<1>1. s \in Seq(Node) /\ Len(s) \in Nat /\ \A j \in 1 .. Len(s) : s[j] \in Node
  BY PathFits, ElementOfSeq DEF IsPath
<1>2. 1 \in 1 .. Len(s) /\ l.head = s[1] /\ l.next[s[1]] = At(s, 2)
  BY <1>1 DEF IsPath, At
<1>3. At(s, 2) \in Node \cup {NULL}
  BY <1>1 DEF At
<1>4. m = [l EXCEPT !.head = At(s, 2)]
  BY <1>2 DEF HeadRemove
<1>5. m \in ListType
  BY <1>3, <1>4 DEF ListType
<1>6. LinkedOut(l, m, s, 1)
  BY <1>1, <1>4 DEF ListType, LinkedOut
<1> QED BY <1>2, <1>5, <1>6, LinkOut

\* sll_link_list_tail_remove, of a list of two nodes or more.
LEMMA TailRemovePath ==
  ASSUME NEW l \in ListType, NEW s, IsPath(l, s), Len(s) > 1
  PROVE  /\ TailRemove(l) \in ListType
         /\ IsPath(TailRemove(l), RemoveAt(s, Len(s)))
<1> DEFINE m == TailRemove(l)
<1>1. s \in Seq(Node) /\ Len(s) \in Nat /\ \A j \in 1 .. Len(s) : s[j] \in Node
  BY PathFits, ElementOfSeq DEF IsPath
<1>2. /\ Len(s) - 1 \in Nat \ {0} /\ Len(s) - 1 \in 1 .. Len(s)
      /\ Len(s) \in 1 .. Len(s) /\ Len(s) # 1 /\ Len(s) + 1 \notin 1 .. Len(s)
  BY <1>1
<1>3. Nth(l, Length(l) - 1) = s[Len(s) - 1] /\ s[Len(s) - 1] \in Node
  BY <1>1, <1>2, PathNth, PathLength DEF At
<1>4. m = [l EXCEPT !.next = [@ EXCEPT ![s[Len(s) - 1]] = NULL]]
  BY <1>3 DEF TailRemove
<1>5. m \in ListType
  BY <1>3, <1>4 DEF ListType
<1>6. ASSUME NEW j \in 1 .. Len(s)
      PROVE  m.next[s[j]] = IF j = Len(s) - 1 THEN NULL ELSE l.next[s[j]]
  <2>1. s[j] = s[Len(s) - 1] => j = Len(s) - 1
    BY <1>2 DEF IsPath
  <2> QED BY <1>1, <1>3, <1>4, <2>1 DEF ListType
<1>7. LinkedOut(l, m, s, Len(s))
  BY <1>1, <1>2, <1>4, <1>6 DEF ListType, LinkedOut, At
<1> QED BY <1>2, <1>5, <1>7, LinkOut

\* sll_link_list_node_remove: any node, wherever it is ...
LEMMA NodeRemovePath ==
  ASSUME NEW l \in ListType, NEW s, IsPath(l, s), NEW i \in 1 .. Len(s)
  PROVE  /\ NodeRemove(l, s[i]) \in ListType
         /\ IsPath(NodeRemove(l, s[i]), RemoveAt(s, i))
<1> DEFINE n == s[i]
<1>1. s \in Seq(Node) /\ Len(s) \in Nat /\ \A j \in 1 .. Len(s) : s[j] \in Node
  BY PathFits, ElementOfSeq DEF IsPath
<1>2. GetHead(l) = s[1] /\ GetTail(l) = s[Len(s)]
  <2>1. Len(s) > 0 /\ 1 \in 1 .. Len(s)
    BY <1>1
  <2>2. ~IsEmpty(l) /\ Final(l) = s[Len(s)]
    BY <2>1, PathFinal
  <2> QED BY <2>1, <2>2 DEF GetHead, GetTail, IsPath, At
<1>3. /\ n = s[1] => i = 1
      /\ n = s[Len(s)] => i = Len(s)
  <2>1. 1 \in 1 .. Len(s) /\ Len(s) \in 1 .. Len(s)
    BY <1>1
  <2> QED BY <2>1 DEF IsPath
<1>4. CASE i = 1
  BY <1>1, <1>2, <1>4, HeadRemovePath DEF NodeRemove
<1>5. CASE i # 1 /\ i = Len(s)
  BY <1>1, <1>2, <1>3, <1>5, TailRemovePath DEF NodeRemove
<1>6. CASE i # 1 /\ i # Len(s)
  <2> DEFINE m == NodeRemove(l, n)
  <2>1. /\ i - 1 \in 1 .. Len(s) /\ (i - 1) + 1 = i /\ i + 1 \in 1 .. Len(s)
        /\ l.next[n] = s[i + 1] /\ s[i + 1] \in Node /\ n \in Node
    BY <1>1, <1>6 DEF IsPath, At
  <2>2. m = [l EXCEPT !.next = [p \in Node |-> IF p \in InList(l) /\ l.next[p] = n
                                               THEN l.next[n] ELSE l.next[p]]]
    BY <1>2, <1>3, <1>6 DEF NodeRemove
  <2>3. m \in ListType
    <3> DEFINE f == [p \in Node |-> IF p \in InList(l) /\ l.next[p] = n
                                    THEN l.next[n] ELSE l.next[p]]
    <3>1. f \in [Node -> Node \cup {NULL, Junk}]
      BY <2>1 DEF ListType
    <3>2. m = [l EXCEPT !.next = f]
      BY <2>2
    <3> HIDE DEF f, m
    <3> QED BY <3>1, <3>2 DEF ListType
  <2>4. ASSUME NEW j \in 1 .. Len(s)
        PROVE  m.next[s[j]] = IF j = i - 1 THEN s[i + 1] ELSE l.next[s[j]]
    <3>1. s[j] \in InList(l)
      BY PathInList
    <3>2. l.next[s[j]] = At(s, j + 1)
      BY DEF IsPath
    <3>3. At(s, j + 1) = n <=> j = i - 1
      <4>1. CASE j + 1 \in 1 .. Len(s)
        <5>1. s[j + 1] = s[i] <=> j + 1 = i
          BY <4>1 DEF IsPath
        <5> QED BY <1>1, <4>1, <5>1 DEF At
      <4>2. CASE j + 1 \notin 1 .. Len(s)
        BY <1>1, <2>1, <4>2, LinkListAssumption DEF At
      <4> QED BY <4>1, <4>2
    <3> QED BY <1>1, <2>1, <2>2, <3>1, <3>2, <3>3 DEF ListType
  <2>5. LinkedOut(l, m, s, i)
    BY <1>1, <1>6, <2>1, <2>2, <2>4 DEF ListType, LinkedOut, At
  <2> QED BY <2>3, <2>5, LinkOut
<1> QED BY <1>4, <1>5, <1>6

\* ... and a node that is not in the list leaves it as it is.
LEMMA NodeRemoveAbsent ==
  ASSUME NEW l \in ListType, NEW s, IsPath(l, s), Len(s) > 0,
         NEW n \in Node, \A j \in 1 .. Len(s) : s[j] # n
  PROVE  NodeRemove(l, n) = l
<1>1. s \in Seq(Node) /\ Len(s) \in Nat /\ \A j \in 1 .. Len(s) : s[j] \in Node
  BY PathFits, ElementOfSeq DEF IsPath
<1>2. n # GetHead(l) /\ n # GetTail(l)
  <2>1. 1 \in 1 .. Len(s) /\ Len(s) \in 1 .. Len(s)
    BY <1>1
  <2>2. ~IsEmpty(l) /\ Final(l) = s[Len(s)]
    BY <2>1, PathFinal
  <2> QED BY <2>1, <2>2 DEF GetHead, GetTail, IsPath, At
<1>3. ASSUME NEW p \in Node, p \in InList(l) PROVE l.next[p] # n
  <2>1. PICK j \in 1 .. Len(s) : p = s[j]
    BY <1>3, PathInList
  <2>2. l.next[p] = At(s, j + 1)
    BY <2>1 DEF IsPath
  <2> QED BY <2>2, LinkListAssumption DEF At
<1>4. NodeRemove(l, n) = [l EXCEPT !.next = [p \in Node |-> l.next[p]]]
  BY <1>2, <1>3 DEF NodeRemove
<1> QED BY <1>4 DEF ListType

=============================================================================
