------------------------ MODULE LinkListClientProofs ------------------------
(***************************************************************************)
(* What holds of LinkListClient for every set of nodes: the list is always *)
(* walked safely, and implements NodeSeq.                                  *)
(***************************************************************************)
EXTENDS LinkListClient, LinkListProofs

-----------------------------------------------------------------------------
(* The inductive invariant *)

\* A walk meets a path of nodes, and until destory frees one of them the list
\* owns them all.
Owned ==
  /\ IsPath(list, Contents)
  /\ status # "destroyed" =>
       \A i \in 1 .. Len(Contents) : memory[Contents[i]] = "list"

IInv == TypeOK /\ Owned

LEMMA ContentsFacts ==
  ASSUME TypeOK, NEW s, IsPath(list, s)
  PROVE  /\ Contents = s /\ Length(list) = Len(s) /\ Len(s) \in Nat
         /\ s \in Seq(Node) /\ \A i \in 1 .. Len(s) : s[i] \in Node
         /\ InList(list) = {s[i] : i \in 1 .. Len(s)}
         /\ IsEmpty(list) <=> Len(s) = 0
         /\ Len(s) > 0 => list.head = s[1] /\ Final(list) = s[Len(s)]
<1>1. list \in ListType
  BY DEF TypeOK
<1>2. Contents = Walk(list)
  BY DEF Contents, Walk
<1>3. s \in Seq(Node) /\ Len(s) \in Nat /\ \A i \in 1 .. Len(s) : s[i] \in Node
  BY PathFits, ElementOfSeq DEF IsPath
<1>4. Len(s) > 0 => list.head = s[1]
  BY <1>3 DEF IsPath, At
<1> QED BY <1>1, <1>2, <1>3, <1>4, WalkIsPath, PathLength, PathInList, PathFinal

LEMMA InitIInv == Init => IInv /\ Contents = <<>>
<1> SUFFICES ASSUME Init PROVE IInv /\ Contents = <<>>
  OBVIOUS
<1>1. list \in ListType /\ IsPath(list, <<>>) /\ Len(<<>>) = 0
  BY EmptyPath DEF Init
<1>2. TypeOK
  BY <1>1 DEF Init, TypeOK
<1>3. Contents = <<>>
  BY <1>1, <1>2, ContentsFacts
<1> QED BY <1>1, <1>2, <1>3 DEF IInv, Owned

-----------------------------------------------------------------------------
(* What a step does to the contents, and to the memory *)

\* A node the caller had goes into the list, at some place.
PutsIn ==
  \E n \in Node, i \in 1 .. Len(Contents) + 1 :
    /\ Give(n)
    /\ list' \in ListType /\ IsPath(list', InsertAt(Contents, i, n))

\* The node at some place is taken out, and freed.
TakesOut ==
  \E i \in 1 .. Len(Contents) :
    /\ Free(Contents[i]) /\ UNCHANGED status
    /\ list' \in ListType /\ IsPath(list', RemoveAt(Contents, i))

\* The list stays, and no memory is freed.
StaysAsItIs ==
  /\ list' = list
  /\ \/ UNCHANGED memory /\ status' \in {"running", "aborted", "crashed"}
     \/ \E n \in Node : Give(n)

LEMMA GivenIsNew ==
  ASSUME IInv, status = "running", NEW n \in Node, memory[n] # "list"
  PROVE  \A j \in 1 .. Len(Contents) : Contents[j] # n
BY DEF IInv, Owned

LEMMA StepKinds ==
  ASSUME IInv, Next
  PROVE  PutsIn \/ TakesOut \/ StaysAsItIs \/ Destroy
<1> DEFINE s == Contents
<1>1. TypeOK /\ list \in ListType /\ status = "running" /\ IsPath(list, s)
  BY DEF IInv, TypeOK, Owned, Next
<1>2. /\ Length(list) = Len(s) /\ Len(s) \in Nat
      /\ s \in Seq(Node) /\ \A i \in 1 .. Len(s) : s[i] \in Node
      /\ InList(list) = {s[i] : i \in 1 .. Len(s)}
      /\ IsEmpty(list) <=> Len(s) = 0
      /\ Len(s) > 0 => list.head = s[1] /\ Final(list) = s[Len(s)]
  BY <1>1, ContentsFacts
<1>3. ASSUME NEW n \in Node, Give(n)
      PROVE  \A j \in 1 .. Len(s) : s[j] # n
  BY <1>1, <1>3, GivenIsNew DEF Give
<1>4. ASSUME NEW how \in {"aborted", "crashed"}, End(how) PROVE StaysAsItIs
  BY <1>4 DEF End, StaysAsItIs
<1> HIDE DEF s
<1>5. ASSUME NEW n \in Node, PutAtHead(n) PROVE PutsIn
  <2>1. list' \in ListType /\ IsPath(list', InsertAt(s, 1, n))
    BY <1>1, <1>3, <1>5, InsertAtHeadPath DEF PutAtHead
  <2> QED BY <1>2, <1>5, <2>1 DEF PutAtHead, PutsIn, s
<1>6. ASSUME NEW n \in Node, PutAtTail(n) PROVE PutsIn
  <2>1. list' \in ListType /\ IsPath(list', InsertAt(s, Len(s) + 1, n))
    BY <1>1, <1>3, <1>6, InsertAtTailPath DEF PutAtTail
  <2> QED BY <1>2, <1>6, <2>1 DEF PutAtTail, PutsIn, s
<1>7. ASSUME NEW n \in Node, NEW i \in Places, PutAtIndex(n, i)
      PROVE  PutsIn \/ StaysAsItIs
  <2>1. CASE IsEmpty(list)
    BY <1>4, <1>7, <2>1 DEF PutAtIndex
  <2>2. CASE ~IsEmpty(list)
    <3>1. Give(n) /\ list' = InsertAtIndex(list, n, i) /\ i \in Nat \ {0}
      BY <1>7, <2>2, FS_CardinalityType, LinkListAssumption DEF PutAtIndex, Places
    <3>2. /\ list' \in ListType
          /\ i > Len(s) => list' = list
          /\ i <= Len(s) => IsPath(list', InsertAt(s, i + 1, n))
      BY <1>1, <1>3, <3>1, InsertAtIndexPath
    <3>3. CASE i > Len(s)
      BY <3>1, <3>2, <3>3 DEF StaysAsItIs
    <3>4. CASE i <= Len(s)
      <4>1. i + 1 \in 1 .. Len(s) + 1
        BY <1>2, <3>1, <3>4
      <4> QED BY <3>1, <3>2, <3>4, <4>1 DEF PutsIn, s
    <3> QED BY <1>2, <3>1, <3>3, <3>4
  <2> QED BY <2>1, <2>2
<1>8. ASSUME NEW i \in Places, AskIndex(i) PROVE StaysAsItIs
  BY <1>4, <1>8 DEF AskIndex
<1>9. CASE TakeHead
  <2>1. CASE IsEmpty(list)
    BY <1>4, <1>9, <2>1 DEF TakeHead
  <2>2. CASE ~IsEmpty(list)
    <3>1. /\ Len(s) > 0 /\ 1 \in 1 .. Len(s)
          /\ list' = HeadRemove(list) /\ Free(s[1]) /\ UNCHANGED status
      BY <1>2, <1>9, <2>2 DEF TakeHead
    <3>2. list' \in ListType /\ IsPath(list', RemoveAt(s, 1))
      BY <1>1, <3>1, HeadRemovePath
    <3> QED BY <3>1, <3>2 DEF TakesOut, s
  <2> QED BY <2>1, <2>2
<1>10. CASE TakeTail
  <2>1. CASE IsEmpty(list)
    BY <1>4, <1>10, <2>1 DEF TakeTail
  <2>2. CASE ~IsEmpty(list) /\ TailRemoveCrashes(list)
    BY <1>4, <1>10, <2>2 DEF TakeTail
  <2>3. CASE ~IsEmpty(list) /\ ~TailRemoveCrashes(list)
    <3>1. /\ Len(s) > 1 /\ Len(s) \in 1 .. Len(s)
          /\ list' = TailRemove(list) /\ Free(s[Len(s)]) /\ UNCHANGED status
      BY <1>2, <1>10, <2>3 DEF TakeTail, TailRemoveCrashes
    <3>2. list' \in ListType /\ IsPath(list', RemoveAt(s, Len(s)))
      BY <1>1, <3>1, TailRemovePath
    <3> QED BY <3>1, <3>2 DEF TakesOut, s
  <2> QED BY <2>1, <2>2, <2>3
<1>11. ASSUME NEW n \in Node, Take(n) PROVE TakesOut \/ StaysAsItIs
  <2>1. CASE IsEmpty(list)
    BY <1>4, <1>11, <2>1 DEF Take
  <2>2. CASE ~IsEmpty(list) /\ n \in InList(list)
    <3>1. PICK i \in 1 .. Len(s) : n = s[i]
      BY <1>2, <2>2
    <3>2. list' = NodeRemove(list, s[i]) /\ Free(s[i]) /\ UNCHANGED status
      BY <1>11, <2>2, <3>1 DEF Take
    <3>3. list' \in ListType /\ IsPath(list', RemoveAt(s, i))
      BY <1>1, <3>2, NodeRemovePath
    <3> QED BY <3>2, <3>3 DEF TakesOut, s
  <2>3. CASE ~IsEmpty(list) /\ n \notin InList(list)
    <3>1. Len(s) > 0 /\ \A j \in 1 .. Len(s) : s[j] # n
      BY <1>2, <2>3
    <3>2. list' = list /\ UNCHANGED <<memory, status>>
      BY <1>1, <1>11, <2>3, <3>1, NodeRemoveAbsent DEF Take
    <3> QED BY <1>1, <3>2 DEF StaysAsItIs
  <2> QED BY <2>1, <2>2, <2>3
<1> QED BY <1>5, <1>6, <1>7, <1>8, <1>9, <1>10, <1>11 DEF Next

\* The contents after each kind of step, and what is freed by it.
LEMMA PutsInContents ==
  ASSUME IInv, PutsIn, status = "running"
  PROVE  /\ IInv'
         /\ \E n \in Node, i \in 1 .. Len(Contents) + 1 :
              /\ Contents' = InsertAt(Contents, i, n)
              /\ memory[n] = "caller" /\ memory' = [memory EXCEPT ![n] = "list"]
         /\ UNCHANGED status
<1>1. PICK n \in Node, i \in 1 .. Len(Contents) + 1 :
        Give(n) /\ list' \in ListType /\ IsPath(list', InsertAt(Contents, i, n))
  BY DEF PutsIn
<1> DEFINE s == Contents
           t == InsertAt(s, i, n)
<1>2. TypeOK /\ IsPath(list, s) /\ s \in Seq(Node) /\ Len(s) \in Nat
  BY ContentsFacts DEF IInv, Owned
<1>3. /\ memory[n] = "caller" /\ memory' = [memory EXCEPT ![n] = "list"]
      /\ UNCHANGED status
  BY <1>1 DEF Give
<1>4. TypeOK'
  BY <1>1, <1>2, <1>3 DEF TypeOK
<1>5. Contents' = t /\ Walk(list') = t
  <2>1. Walk(list') = t
    BY <1>1, WalkIsPath
  <2> QED BY <2>1 DEF Contents, Walk
<1>6. /\ Len(t) = Len(s) + 1
      /\ \A j \in 1 .. Len(s) + 1 :
           t[j] = IF j < i THEN s[j] ELSE IF j = i THEN n ELSE s[j - 1]
  <2> HIDE DEF s
  <2>1. i \in 1 .. Len(s) + 1
    BY DEF s
  <2> QED BY <1>2, <2>1, InsertAtProperties
<1>7. ASSUME NEW j \in 1 .. Len(s) PROVE memory[s[j]] = "list" /\ s[j] \in Node
  BY <1>2, ContentsFacts DEF IInv, Owned
<1>8. ASSUME NEW j \in 1 .. Len(t) PROVE memory'[t[j]] = "list"
  <2> HIDE DEF s, t
  <2>1. t[j] = n \/ \E k \in 1 .. Len(s) : t[j] = s[k]
    <3>1. i \in 1 .. Len(s) + 1
      BY DEF s
    <3>2. CASE j < i
      BY <1>2, <1>6, <3>1, <3>2
    <3>3. CASE j = i
      BY <1>2, <1>6, <3>1, <3>3
    <3>4. CASE j > i
      <4>1. j - 1 \in 1 .. Len(s) /\ t[j] = s[j - 1]
        BY <1>2, <1>6, <3>1, <3>4
      <4> QED BY <4>1
    <3> QED BY <1>2, <1>6, <3>1, <3>2, <3>3, <3>4
  <2> QED BY <1>2, <1>3, <1>7, <2>1 DEF TypeOK
<1>9. IInv'
  BY <1>1, <1>4, <1>5, <1>8 DEF IInv, Owned
<1> QED BY <1>3, <1>5, <1>9

LEMMA TakesOutContents ==
  ASSUME IInv, TakesOut, status = "running"
  PROVE  /\ IInv'
         /\ \E i \in 1 .. Len(Contents) :
              /\ Contents' = RemoveAt(Contents, i)
              /\ memory' = [memory EXCEPT ![Contents[i]] = "freed"]
         /\ UNCHANGED status
<1>1. PICK i \in 1 .. Len(Contents) :
        /\ Free(Contents[i]) /\ UNCHANGED status
        /\ list' \in ListType /\ IsPath(list', RemoveAt(Contents, i))
  BY DEF TakesOut
<1> DEFINE s == Contents
           t == RemoveAt(s, i)
<1>2. TypeOK /\ IsPath(list, s) /\ s \in Seq(Node) /\ Len(s) \in Nat
  BY ContentsFacts DEF IInv, Owned
<1>3. memory' = [memory EXCEPT ![s[i]] = "freed"] /\ UNCHANGED status
  BY <1>1 DEF Free
<1>4. TypeOK'
  BY <1>1, <1>2, <1>3 DEF TypeOK
<1>5. Contents' = t /\ Walk(list') = t
  <2>1. Walk(list') = t
    BY <1>1, WalkIsPath
  <2> QED BY <2>1 DEF Contents, Walk
<1>6. /\ Len(t) = Len(s) - 1
      /\ \A j \in 1 .. Len(s) - 1 : t[j] = IF j < i THEN s[j] ELSE s[j + 1]
  <2> HIDE DEF s
  <2>1. i \in 1 .. Len(s)
    BY DEF s
  <2> QED BY <1>2, <2>1, RemoveAtProperties
<1>7. ASSUME NEW j \in 1 .. Len(s), j # i
      PROVE  memory[s[j]] = "list" /\ s[j] \in Node /\ s[j] # s[i]
  BY <1>2, <1>7, ContentsFacts DEF IInv, Owned, IsPath
<1>8. ASSUME NEW j \in 1 .. Len(t) PROVE memory'[t[j]] = "list"
  <2> HIDE DEF s, t
  <2>1. \E k \in 1 .. Len(s) : k # i /\ t[j] = s[k]
    <3>1. i \in 1 .. Len(s)
      BY DEF s
    <3>2. CASE j < i
      BY <1>2, <1>6, <3>1, <3>2
    <3>3. CASE ~(j < i)
      <4>1. j + 1 \in 1 .. Len(s) /\ j + 1 # i /\ t[j] = s[j + 1]
        BY <1>2, <1>6, <3>1, <3>3
      <4> QED BY <4>1
    <3> QED BY <3>2, <3>3
  <2> QED BY <1>2, <1>3, <1>7, <2>1 DEF TypeOK
<1>9. IInv'
  BY <1>1, <1>4, <1>5, <1>8 DEF IInv, Owned
<1> QED BY <1>3, <1>5, <1>9

LEMMA StaysContents ==
  ASSUME IInv, StaysAsItIs, status = "running"
  PROVE  IInv' /\ Contents' = Contents /\ Freed' = Freed /\ status' # "destroyed"
<1>1. Contents' = Contents
  BY DEF StaysAsItIs, Contents
<1>2. CASE UNCHANGED memory /\ status' \in {"running", "aborted", "crashed"}
  BY <1>1, <1>2 DEF IInv, TypeOK, Owned, StaysAsItIs, Freed
<1>3. ASSUME NEW n \in Node, Give(n)
      PROVE  IInv' /\ Freed' = Freed /\ status' # "destroyed"
  <2>1. /\ memory[n] = "caller" /\ memory' = [memory EXCEPT ![n] = "list"]
        /\ UNCHANGED <<list, status>>
    BY <1>3 DEF Give, StaysAsItIs
  <2>2. \A i \in 1 .. Len(Contents) : Contents[i] \in Node
    BY ContentsFacts DEF IInv, Owned
  <2> QED BY <1>1, <2>1, <2>2 DEF IInv, TypeOK, Owned, Freed
<1> QED BY <1>1, <1>2, <1>3 DEF StaysAsItIs

LEMMA DestroyContents ==
  ASSUME IInv, Destroy, status = "running"
  PROVE  IInv' /\ Contents' = Contents /\ TakenOut' = TakenOut
<1>1. Contents' = Contents /\ list' = list /\ status' = "destroyed"
  BY DEF Destroy, Contents
<1>2. TypeOK' /\ IInv'
  BY <1>1 DEF IInv, TypeOK, Owned, Destroy
<1>3. ASSUME NEW n \in Node, n \in DestroyFrees(list) PROVE memory[n] = "list"
  <2>1. 2 \in 1 .. Length(list) /\ n = Nth(list, 2)
    BY <1>3 DEF DestroyFrees
  <2>2. Contents[2] = Nth(list, 2) /\ Length(list) = Len(Contents)
    BY <2>1, ContentsFacts DEF IInv, Owned, Contents
  <2> QED BY <2>1, <2>2 DEF IInv, Owned
<1>4. Freed' = Freed \cup {n \in Node : n \in DestroyFrees(list)}
  BY <1>3 DEF Freed, Destroy
<1>5. \A n \in Freed : n \notin DestroyFrees(list)
  BY <1>3 DEF Freed
<1>6. TakenOut = Freed
  BY DEF TakenOut
<1>7. TakenOut' = Freed' \ DestroyFrees(list)
  BY <1>1 DEF TakenOut
<1> QED BY <1>1, <1>2, <1>4, <1>5, <1>6, <1>7

LEMMA NextIInv == IInv /\ [Next]_cvars => IInv'
<1> SUFFICES ASSUME IInv, [Next]_cvars PROVE IInv'
  OBVIOUS
<1>1. CASE Next
  <2>1. status = "running"
    BY <1>1 DEF Next
  <2> QED BY <1>1, <2>1, StepKinds, PutsInContents, TakesOutContents, StaysContents,
             DestroyContents
<1>2. CASE UNCHANGED cvars
  BY <1>2 DEF cvars, IInv, TypeOK, Owned, Contents
<1> QED BY <1>1, <1>2

LEMMA Invariance == Spec => []IInv
<1>1. Init => IInv
  BY InitIInv
<1> QED BY <1>1, NextIInv, PTL DEF Spec

-----------------------------------------------------------------------------
(* What holds of every execution *)

\* The pointers and the memory have their types, whatever is called in whatever
\* order.
THEOREM TypeCorrect == Spec => []TypeOK
<1>1. IInv => TypeOK
  BY DEF IInv
<1> QED BY <1>1, Invariance, PTL

\* Whatever is inserted and removed where, in a list of any length: a walk over
\* next ends, at NULL, and meets only nodes the list owns.
THEOREM WalksAreSafe == Spec => []WalkIsSafe
<1>1. IInv => WalkIsSafe
  <2> SUFFICES ASSUME IInv, status = "running"
               PROVE  /\ Length(list) <= Cardinality(Node)
                      /\ Nth(list, Length(list) + 1) = NULL
                      /\ \A n \in InList(list) : memory[n] = "list"
    BY DEF WalkIsSafe
  <2>1. TypeOK /\ list \in ListType /\ IsPath(list, Contents)
    BY DEF IInv, TypeOK, Owned
  <2>2. /\ Length(list) = Len(Contents) /\ Len(Contents) \in Nat
        /\ InList(list) = {Contents[i] : i \in 1 .. Len(Contents)}
    BY <2>1, ContentsFacts
  <2>3. Length(list) <= Cardinality(Node)
    BY <2>1, <2>2, PathFits
  <2>4. Nth(list, Len(Contents) + 1) = NULL
    BY <2>1, <2>2, PathNth DEF At
  <2> QED BY <2>2, <2>3, <2>4 DEF IInv, Owned
<1> QED BY <1>1, Invariance, PTL

-----------------------------------------------------------------------------
(* The list implements a sequence *)

\* NodeSeq has the sequence operators of the library under its own name.
LEMMA SameOperators ==
  /\ Abstract!Range(Contents) = Range(Contents)
  /\ \A i, n : Abstract!InsertAt(Contents, i, n) = InsertAt(Contents, i, n)
  /\ \A i : Abstract!RemoveAt(Contents, i) = RemoveAt(Contents, i)
BY DEF Abstract!Range, Abstract!InsertAt, Abstract!RemoveAt, Range, InsertAt, RemoveAt

LEMMA InitRefines == Init => Abstract!Init
BY InitIInv DEF Init, TakenOut, Freed, Abstract!Init

LEMMA NextRefines == IInv /\ [Next]_cvars => [Abstract!Next]_(Abstract!qvars)
<1> SUFFICES ASSUME IInv, [Next]_cvars
             PROVE  Abstract!Next \/ (Contents' = Contents /\ TakenOut' = TakenOut)
  BY DEF Abstract!qvars
<1> DEFINE s == Contents
<1>1. /\ s \in Seq(Node) /\ Len(s) \in Nat /\ DOMAIN s = 1 .. Len(s)
      /\ \A i \in 1 .. Len(s) : s[i] \in Node
  BY ContentsFacts DEF IInv, Owned
<1>2. CASE UNCHANGED cvars
  BY <1>2 DEF cvars, Contents, TakenOut, Freed
<1>3. ASSUME Next PROVE status = "running" /\ TakenOut = Freed
  BY <1>3 DEF Next, TakenOut
<1>4. CASE Next /\ PutsIn
  <2>1. PICK n \in Node, i \in 1 .. Len(s) + 1 :
          /\ s' = InsertAt(s, i, n)
          /\ memory[n] = "caller" /\ memory' = [memory EXCEPT ![n] = "list"]
    BY <1>3, <1>4, PutsInContents
  <2>2. TakenOut' = TakenOut
    <3>1. status' = "running"
      BY <1>3, <1>4, PutsInContents
    <3> QED BY <1>3, <1>4, <2>1, <3>1 DEF TakenOut, Freed, IInv, TypeOK
  <2>3. n \notin Range(s) /\ n \notin TakenOut
    BY <1>1, <1>3, <1>4, <2>1, GivenIsNew DEF Range, Freed
  <2>4. i \in DOMAIN s \cup {Len(s) + 1}
    BY <1>1
  <2> HIDE DEF s
  <2>5. Abstract!Put
    BY SameOperators, <2>1, <2>2, <2>3, <2>4 DEF Abstract!Put, s
  <2> QED BY <2>5 DEF Abstract!Next
<1>5. CASE Next /\ TakesOut
  <2>1. PICK i \in 1 .. Len(s) : /\ s' = RemoveAt(s, i)
                                 /\ memory' = [memory EXCEPT ![s[i]] = "freed"]
    BY <1>3, <1>5, TakesOutContents
  <2>2. TakenOut' = TakenOut \cup {s[i]}
    <3>1. status' = "running"
      BY <1>3, <1>5, TakesOutContents
    <3> QED BY <1>1, <1>3, <1>5, <2>1, <3>1 DEF TakenOut, Freed, IInv, TypeOK
  <2>3. Abstract!TakeOut
    BY SameOperators, <1>1, <2>1, <2>2 DEF Abstract!TakeOut
  <2> QED BY <2>3 DEF Abstract!Next
<1>6. CASE Next /\ StaysAsItIs
  BY <1>3, <1>6, StaysContents DEF TakenOut
<1>7. CASE Next /\ Destroy
  BY <1>3, <1>7, DestroyContents
<1> QED BY <1>2, <1>4, <1>5, <1>6, <1>7, StepKinds

\* sll_linklist.c is a sequence of nodes: whatever is called, the list puts one
\* node into it or takes one out of it, or leaves it alone, and what is freed is
\* what was taken out.
THEOREM ListIsSequence == Spec => ImplementsSeq
<1>1. Spec => Abstract!Init /\ [][Abstract!Next]_(Abstract!qvars)
  <2>1. Spec => Abstract!Init
    BY InitRefines DEF Spec
  <2> QED BY <2>1, Invariance, NextRefines, PTL DEF Spec
<1> QED BY <1>1 DEF ImplementsSeq, Abstract!Spec

=============================================================================
