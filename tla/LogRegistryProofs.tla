------------------------- MODULE LogRegistryProofs -------------------------
(***************************************************************************)
(* What holds of LogRegistry for every set of nodes, modules and threads.  *)
(***************************************************************************)
EXTENDS LogRegistry, LinkListProofs

-----------------------------------------------------------------------------
(* The inductive invariant *)

\* The list is a path, of nodes that have been registered.
Linked ==
  /\ IsPath(reg_list, Walk(reg_list))
  /\ \A i \in 1 .. Length(reg_list) : Entry(i) # NoModule

\* A search is never further than one place behind what is counted, and ends
\* in vain only behind all that was counted when it began.  What it has passed
\* is not what it looks for: the first place always, the second one while no
\* third is linked.
Searched(t) ==
  /\ place[t] >= 1 /\ place[t] <= list_num + 1
  /\ since[t] <= list_num
  /\ pc[t] = "missing" => place[t] > since[t]
  /\ pc[t] \in {"searching", "missing"} =>
       /\ place[t] > 1 => Head(wanted[t]) # Entry(1)
       /\ Length(reg_list) = 2 /\ place[t] > 2 => Head(wanted[t]) # Entry(2)

\* Nobody else counts while a registration is under way.
AloneCounts == pc[Registrar] # "idle" => since[Registrar] = list_num

TwoDiffer == Length(reg_list) = 2 => Entry(1) # Entry(2)

IInv ==
  /\ TypeOK
  /\ Linked
  /\ NeverWalksOff
  /\ CountedIsLinked
  /\ \A t \in Thread : Searched(t)
  /\ AloneCounts
  /\ TwoDiffer

-----------------------------------------------------------------------------
(* The list of the registry *)

LEMMA RegistryList ==
  ASSUME TypeOK, Linked
  PROVE  /\ Length(reg_list) \in Nat /\ Length(reg_list) <= Cardinality(Node)
         /\ \A i \in 1 .. Length(reg_list) :
              /\ Nth(reg_list, i) \in Node /\ Nth(reg_list, i) # NULL
              /\ Entry(i) \in Module
         /\ \A i \in 1 .. Length(reg_list) : Walk(reg_list)[i] = Nth(reg_list, i)
<1>1. reg_list \in ListType /\ IsPath(reg_list, Walk(reg_list))
  BY DEF TypeOK, Linked
<1>2. Len(Walk(reg_list)) = Length(reg_list)
  BY <1>1, PathLength
<1>3. Length(reg_list) \in Nat /\ Length(reg_list) <= Cardinality(Node)
  BY <1>1, <1>2, PathFits
<1>4. ASSUME NEW i \in 1 .. Length(reg_list)
      PROVE  /\ Walk(reg_list)[i] = Nth(reg_list, i)
             /\ Nth(reg_list, i) \in Node
  <2>1. Walk(reg_list)[i] = Nth(reg_list, i)
    BY DEF Walk
  <2>2. Walk(reg_list) \in Seq(Node) /\ i \in 1 .. Len(Walk(reg_list))
    BY <1>1, <1>2 DEF IsPath
  <2> QED BY <2>1, <2>2, ElementOfSeq
<1>5. ASSUME NEW i \in 1 .. Length(reg_list)
      PROVE  Nth(reg_list, i) # NULL /\ Entry(i) \in Module
  BY <1>4, LinkListAssumption DEF TypeOK, Linked, Entry
<1> QED BY <1>3, <1>4, <1>5

\* What does not touch the list and the ids changes no entry.
LEMMA SameRegistry ==
  ASSUME reg_list' = reg_list, id' = id
  PROVE  /\ Length(reg_list)' = Length(reg_list)
         /\ \A i : Entry(i)' = Entry(i)
         /\ Linked => Linked'
         /\ TwoDiffer => TwoDiffer'
BY DEF Linked, TwoDiffer, Entry

\* A link makes the list one longer, and moves no entry.
LEMMA LinkGrows ==
  ASSUME IInv, NEW n \in Node, Link(n)
  PROVE  /\ reg_list' \in ListType /\ Linked'
         /\ Length(reg_list)' = Length(reg_list) + 1
         /\ \A i \in 1 .. Length(reg_list) + 1 :
              Entry(i)' = IF i <= Length(reg_list) THEN Entry(i)
                                                   ELSE Head(wanted[Registrar])
<1> DEFINE p == Walk(reg_list)
           q == Append(p, n)
<1>1. /\ TypeOK /\ reg_list \in ListType /\ Linked /\ IsPath(reg_list, p)
      /\ p \in Seq(Node)
  BY DEF IInv, TypeOK, Linked, IsPath
<1>2. /\ Len(p) = Length(reg_list) /\ Len(p) \in Nat
      /\ \A i \in 1 .. Len(p) : p[i] = Nth(reg_list, i) /\ p[i] \in Node
  BY <1>1, RegistryList, PathLength
<1>3. \A i \in 1 .. Len(p) : p[i] # n
  BY <1>1, <1>2 DEF Linked, Entry, Link
<1>4. reg_list' \in ListType /\ IsPath(reg_list', q)
  BY <1>1, <1>3, InsertAtTailPath DEF Link
<1>5. /\ q \in Seq(Node) /\ Len(q) = Len(p) + 1
      /\ \A i \in 1 .. Len(p) : q[i] = p[i]
      /\ q[Len(p) + 1] = n
  <2> HIDE DEF p
  <2> QED BY <1>1, <1>2
<1> HIDE DEF p, q
<1>6. /\ Walk(reg_list') = q /\ Length(reg_list') = Len(q)
      /\ \A i \in Nat \ {0} : Nth(reg_list', i) = At(q, i)
  BY <1>4, WalkIsPath, PathLength, PathNth
<1>7. /\ id \in [Node -> Module \cup {NoModule}]
      /\ id' = [id EXCEPT ![n] = Head(wanted[Registrar])]
      /\ Head(wanted[Registrar]) \in Module
  BY DEF IInv, TypeOK, Link, Thread
<1>8. ASSUME NEW i \in 1 .. Len(p) + 1
      PROVE  Entry(i)' = IF i <= Len(p) THEN Entry(i) ELSE Head(wanted[Registrar])
  <2>1. CASE i \in 1 .. Len(p)
    <3>1. Nth(reg_list', i) = p[i] /\ Nth(reg_list, i) = p[i] /\ p[i] # n
      BY <1>2, <1>3, <1>5, <1>6, <2>1 DEF At
    <3> QED BY <1>2, <1>7, <2>1, <3>1 DEF Entry
  <2>2. CASE i = Len(p) + 1
    <3>1. Nth(reg_list', i) = n
      BY <1>2, <1>5, <1>6, <2>2 DEF At
    <3> QED BY <1>2, <1>7, <2>2, <3>1 DEF Entry
  <2> QED BY <1>2, <2>1, <2>2
<1>9. Linked'
  <2>1. ASSUME NEW i \in 1 .. Length(reg_list') PROVE Entry(i)' # NoModule
    <3>1. i \in 1 .. Len(p) + 1 /\ (i <= Len(p) => i \in 1 .. Length(reg_list))
      BY <1>2, <1>5, <1>6
    <3>2. i <= Len(p) => Entry(i) # NoModule
      BY <1>1, <3>1 DEF Linked
    <3> QED BY <1>7, <1>8, <3>1, <3>2, LogRegistryAssumption
  <2> QED BY <1>4, <1>6, <2>1 DEF Linked
<1>10. Length(reg_list)' = Length(reg_list) + 1
  BY <1>2, <1>5, <1>6
<1> QED BY <1>2, <1>4, <1>8, <1>9, <1>10

-----------------------------------------------------------------------------
(* Init, and every step *)

LEMMA InitIInv == Init => IInv
<1> SUFFICES ASSUME Init PROVE IInv
  OBVIOUS
<1>1. reg_list \in ListType /\ IsPath(reg_list, <<>>) /\ Len(<<>>) = 0
  BY EmptyPath DEF Init
<1>2. Walk(reg_list) = <<>> /\ Length(reg_list) = 0
  BY <1>1, WalkIsPath, PathLength
<1>3. Cardinality(Node) \in Nat
  BY FS_CardinalityType, LinkListAssumption
<1>4. TypeOK
  BY <1>1, <1>3 DEF Init, TypeOK
<1>5. Linked /\ TwoDiffer
  BY <1>1, <1>2 DEF Linked, TwoDiffer
<1>6. CountedIsLinked /\ NeverWalksOff /\ AloneCounts
  BY <1>2 DEF Init, CountedIsLinked, NeverWalksOff, AloneCounts, Thread
<1>7. \A t \in Thread : Searched(t)
  BY DEF Init, Searched
<1> QED BY <1>4, <1>5, <1>6, <1>7 DEF IInv

\* A thread that searches, or stops searching, leaves the registry alone.
LEMMA OneMoves ==
  ASSUME IInv, NEW t \in Thread, TypeOK',
         UNCHANGED <<reg_list, list_num, id>>, status' # "crashed",
         \A u \in Thread \ {t} : /\ pc'[u] = pc[u] /\ wanted'[u] = wanted[u]
                                 /\ place'[u] = place[u] /\ since'[u] = since[u],
         pc'[Registrar] = "linked" <=> pc[Registrar] = "linked",
         Searched(t)', AloneCounts'
  PROVE  IInv'
<1>1. /\ Length(reg_list)' = Length(reg_list) /\ (\A i : Entry(i)' = Entry(i))
      /\ Linked' /\ TwoDiffer'
  BY SameRegistry DEF IInv
<1>2. CountedIsLinked'
  BY DEF IInv, CountedIsLinked
<1>3. ASSUME NEW u \in Thread PROVE Searched(u)'
  <2>1. CASE u = t
    BY <2>1
  <2>2. CASE u # t
    BY <1>1, <2>2 DEF IInv, Searched
  <2> QED BY <2>1, <2>2
<1> QED BY <1>1, <1>2, <1>3 DEF IInv, NeverWalksOff

LEMMA BatchesAreSeqs ==
  ASSUME NEW batch \in Batches
  PROVE  batch \in Seq(Module) /\ batch # <<>>
<1>1. PICK n \in 1 .. MaxBatch : batch \in [1 .. n -> Module]
  BY DEF Batches
<1>2. n \in Nat /\ n # 0
  BY <1>1, LogRegistryAssumption
<1> QED BY <1>1, <1>2

LEMMA RegisterInv ==
  ASSUME IInv, NEW batch \in Batches, Register(batch)
  PROVE  IInv'
<1>1. Registrar \in Thread /\ batch \in Seq(Module) /\ batch # <<>>
  BY BatchesAreSeqs DEF Thread
<1>2. TypeOK /\ list_num \in Nat
  BY FS_CardinalityType, LinkListAssumption DEF IInv, TypeOK
<1>3. TypeOK'
  BY <1>1, <1>2 DEF TypeOK, Register, Search, Goto
<1>4. Searched(Registrar)' /\ AloneCounts'
  BY <1>1, <1>2 DEF Register, Search, Goto, Searched, AloneCounts, TypeOK
<1> QED BY <1>1, <1>2, <1>3, <1>4, OneMoves
        DEF Register, Search, Goto, TypeOK, IInv, NeverWalksOff

LEMMA LogInv ==
  ASSUME IInv, NEW t \in Logger, NEW m \in Module, Log(t, m)
  PROVE  IInv'
<1>1. t \in Thread /\ Registrar \in Thread /\ t # Registrar
  BY LogRegistryAssumption DEF Thread
<1>2. TypeOK /\ list_num \in Nat
  BY FS_CardinalityType, LinkListAssumption DEF IInv, TypeOK
<1>3. TypeOK'
  BY <1>1, <1>2 DEF TypeOK, Log, Search, Goto
<1>4. Searched(t)' /\ AloneCounts'
  BY <1>1, <1>2 DEF Log, Search, Goto, Searched, AloneCounts, TypeOK, IInv
<1> QED BY <1>1, <1>2, <1>3, <1>4, OneMoves
        DEF Log, Search, Goto, TypeOK, IInv, NeverWalksOff

LEMMA AnsweredInv ==
  ASSUME IInv, NEW t \in Logger, Answered(t)
  PROVE  IInv'
<1>1. t \in Thread /\ Registrar \in Thread /\ t # Registrar
  BY LogRegistryAssumption DEF Thread
<1>2. TypeOK /\ list_num \in Nat
  BY FS_CardinalityType, LinkListAssumption DEF IInv, TypeOK
<1>3. TypeOK'
  BY <1>1, <1>2 DEF TypeOK, Answered, Idle, Goto
<1>4. Searched(t)' /\ AloneCounts'
  BY <1>1, <1>2 DEF Answered, Idle, Goto, Searched, AloneCounts, TypeOK, IInv
<1> QED BY <1>1, <1>2, <1>3, <1>4, OneMoves
        DEF Answered, Idle, Goto, TypeOK, IInv, NeverWalksOff

\* A place that is counted is linked, so the turn that looks at it finds a node;
\* the first place and, of two, the second are looked at exactly.
LEMMA CountedIsThere ==
  ASSUME IInv, NEW t \in Thread, Counted(t)
  PROVE  /\ ~NodeMissing(t)
         /\ place[t] = 1 => GetIndex(reg_list, place[t]) = Nth(reg_list, 1)
         /\ Length(reg_list) = 2 /\ place[t] = 2 =>
              GetIndex(reg_list, place[t]) = Nth(reg_list, 2)
<1>1. /\ Length(reg_list) \in Nat /\ list_num \in Nat /\ place[t] \in Nat
      /\ list_num <= Length(reg_list) /\ 1 <= place[t] /\ place[t] <= list_num
  BY RegistryList, FS_CardinalityType, LinkListAssumption
  DEF IInv, TypeOK, CountedIsLinked, Searched, Counted
<1>2. \A i \in 1 .. Length(reg_list) : Nth(reg_list, i) # NULL
  BY RegistryList DEF IInv
<1>3. Nth(reg_list, 1) = reg_list.head
  BY NthSteps DEF IInv, TypeOK
<1>4. CASE place[t] = 1
  BY <1>1, <1>2, <1>3, <1>4 DEF NodeMissing, GetIndexCrashes, GetIndex
<1>5. CASE place[t] # 1
  <2>1. Length(reg_list) >= 2
    BY <1>1, <1>5
  <2>2. GetIndex(reg_list, place[t]) =
          Nth(reg_list, IF place[t] + 2 <= Length(reg_list) THEN place[t] + 2
                                                            ELSE Length(reg_list))
    BY <1>5 DEF GetIndex
  <2>3. GetIndex(reg_list, place[t]) # NULL
    <3>1. CASE place[t] + 2 <= Length(reg_list)
      <4>1. place[t] + 2 \in 1 .. Length(reg_list)
        BY <1>1, <3>1
      <4> QED BY <1>2, <2>2, <3>1, <4>1
    <3>2. CASE ~(place[t] + 2 <= Length(reg_list))
      <4>1. Length(reg_list) \in 1 .. Length(reg_list)
        BY <1>1, <2>1
      <4> QED BY <1>2, <2>2, <3>2, <4>1
    <3> QED BY <3>1, <3>2
  <2> QED BY <1>1, <1>5, <2>1, <2>2, <2>3 DEF NodeMissing, GetIndexCrashes
<1> QED BY <1>4, <1>5

LEMMA LookInv ==
  ASSUME IInv, NEW t \in Thread, Look(t), status = "running"
  PROVE  IInv'
<1>1. TypeOK /\ list_num \in Nat /\ Registrar \in Thread
  BY FS_CardinalityType, LinkListAssumption DEF IInv, TypeOK, Thread
<1>2. Searched(t) /\ pc[t] = "searching" /\ place[t] \in Nat /\ since[t] \in Nat
  BY <1>1 DEF IInv, Look, TypeOK
<1>3. CASE ~Counted(t)
  <2>1. TypeOK'
    BY <1>1, <1>3 DEF TypeOK, Look, Goto
  <2>2. Searched(t)'
    BY <1>1, <1>2, <1>3 DEF Searched, Counted, Look, Goto, TypeOK, Entry
  <2>3. AloneCounts'
    BY <1>1, <1>2, <1>3 DEF AloneCounts, IInv, Look, Goto, TypeOK
  <2> QED BY <1>1, <1>2, <1>3, <2>1, <2>2, <2>3, OneMoves DEF Look, Goto, TypeOK
<1>4. CASE Counted(t) /\ id[GetIndex(reg_list, place[t])] = Head(wanted[t])
  <2>1. pc' = [pc EXCEPT ![t] = "found"]
        /\ UNCHANGED <<reg_list, list_num, id, wanted, since, place, status>>
    BY <1>4, CountedIsThere DEF Look, Goto
  <2>2. TypeOK'
    <3>1. \A u \in Thread : pc'[u] # "idle" => pc[u] # "idle"
      BY <1>1, <1>2, <2>1 DEF TypeOK
    <3>2. pc' \in [Thread -> {"idle", "searching", "found", "missing", "linked"}]
      BY <1>1, <2>1 DEF TypeOK
    <3> QED BY <1>1, <2>1, <3>1, <3>2 DEF TypeOK
  <2>3. Searched(t)' /\ AloneCounts'
    BY <1>1, <1>2, <2>1 DEF Searched, AloneCounts, IInv, TypeOK
  <2> QED BY <1>1, <1>2, <2>1, <2>2, <2>3, OneMoves DEF TypeOK
<1>5. CASE Counted(t) /\ id[GetIndex(reg_list, place[t])] # Head(wanted[t])
  <2>1. place' = [place EXCEPT ![t] = @ + 1]
        /\ UNCHANGED <<reg_list, list_num, id, pc, wanted, since, status>>
    BY <1>5, CountedIsThere DEF Look, Goto
  <2>2. TypeOK'
    BY <1>1, <1>2, <2>1 DEF TypeOK
  <2>3. place'[t] = place[t] + 1 /\ place[t] <= list_num
    BY <1>1, <1>5, <2>1 DEF TypeOK, Counted
  <2>4. /\ Head(wanted[t]) # Entry(1)
        /\ Length(reg_list) = 2 /\ place'[t] > 2 => Head(wanted[t]) # Entry(2)
    <3>1. place[t] = 1 => Head(wanted[t]) # Entry(1)
      BY <1>5, CountedIsThere DEF Entry
    <3>2. Length(reg_list) = 2 /\ place[t] = 2 => Head(wanted[t]) # Entry(2)
      BY <1>5, CountedIsThere DEF Entry
    <3> QED BY <1>2, <2>3, <3>1, <3>2 DEF Searched
  <2>5. Searched(t)'
    BY <1>1, <1>2, <2>1, <2>3, <2>4, SameRegistry DEF Searched
  <2>6. AloneCounts'
    BY <2>1 DEF AloneCounts, IInv
  <2> QED BY <1>1, <1>2, <2>1, <2>2, <2>5, <2>6, OneMoves DEF TypeOK
<1> QED BY <1>3, <1>4, <1>5

LEMMA AbortInv ==
  ASSUME IInv, Refuse \/ NoMemory
  PROVE  IInv'
<1>1. /\ UNCHANGED <<reg_list, list_num, id, pc, wanted, place, since>>
      /\ status' = "aborted"
  BY DEF Refuse, NoMemory
<1>2. TypeOK' /\ NeverWalksOff'
  BY <1>1 DEF IInv, TypeOK, NeverWalksOff
<1> QED BY <1>1, <1>2, SameRegistry
        DEF IInv, CountedIsLinked, Searched, AloneCounts

\* The node of a module that is not among two is put behind one of them: with
\* one linked, the registration has looked at it.
LEMMA LinkInv ==
  ASSUME IInv, NEW n \in Node, Link(n)
  PROVE  IInv'
<1>1. /\ TypeOK /\ Registrar \in Thread /\ list_num \in Nat
      /\ Length(reg_list) \in Nat /\ Length(reg_list) = list_num
      /\ pc[Registrar] = "missing" /\ Searched(Registrar)
      /\ since[Registrar] = list_num
  BY RegistryList, FS_CardinalityType, LinkListAssumption
  DEF IInv, TypeOK, Thread, Link, CountedIsLinked, AloneCounts
<1>2. /\ reg_list' \in ListType /\ Linked'
      /\ Length(reg_list)' = Length(reg_list) + 1
      /\ \A i \in 1 .. Length(reg_list) + 1 :
           Entry(i)' = IF i <= Length(reg_list) THEN Entry(i)
                                                ELSE Head(wanted[Registrar])
  BY LinkGrows
<1>3. /\ pc' = [pc EXCEPT ![Registrar] = "linked"]
      /\ UNCHANGED <<list_num, wanted, place, since, status>>
  BY DEF Link, Goto
<1>4. TypeOK'
  <2>1. Head(wanted[Registrar]) \in Module
    BY <1>1 DEF TypeOK
  <2>2. id' \in [Node -> Module \cup {NoModule}]
    BY <1>1, <2>1 DEF TypeOK, Link
  <2>3. \A t \in Thread : pc'[t] # "idle" => wanted'[t] # <<>>
    BY <1>1, <1>3 DEF TypeOK
  <2>4. pc' \in [Thread -> {"idle", "searching", "found", "missing", "linked"}]
    BY <1>1, <1>3 DEF TypeOK
  <2>5. /\ list_num' \in 0 .. Cardinality(Node) /\ wanted' \in [Thread -> Seq(Module)]
        /\ place' \in [Thread -> Nat] /\ since' \in [Thread -> Nat]
        /\ status' \in {"running", "aborted", "crashed"}
    BY <1>1, <1>3 DEF TypeOK
  <2> QED BY <1>2, <2>2, <2>3, <2>4, <2>5 DEF TypeOK
<1>5. CountedIsLinked' /\ NeverWalksOff' /\ AloneCounts'
  BY <1>1, <1>2, <1>3 DEF CountedIsLinked, NeverWalksOff, AloneCounts, IInv, TypeOK
<1>6. ASSUME NEW t \in Thread PROVE Searched(t)'
  <2>1. Searched(t) /\ place[t] \in Nat
    BY <1>1 DEF IInv, TypeOK
  <2>2. pc'[t] \in {"searching", "missing"} => pc[t] = pc'[t]
    BY <1>1, <1>3 DEF TypeOK
  <2>3. place[t] > 1 => Entry(1)' = Entry(1)
    BY <1>1, <1>2, <2>1 DEF Searched
  <2>4. Length(reg_list)' = 2 => ~(place[t] > 2)
    BY <1>1, <1>2, <2>1 DEF Searched
  <2>5. pc'[t] \in {"searching", "missing"} =>
          /\ place[t] > 1 => Head(wanted[t]) # Entry(1)'
          /\ ~(Length(reg_list)' = 2 /\ place[t] > 2)
    BY <2>1, <2>2, <2>3, <2>4 DEF Searched
  <2>6. pc'[t] = "missing" => place[t] > since[t]
    BY <2>1, <2>2 DEF Searched
  <2> QED BY <1>3, <2>1, <2>5, <2>6 DEF Searched
<1>7. TwoDiffer'
  <2>1. SUFFICES ASSUME Length(reg_list) = 1 PROVE Entry(1)' # Entry(2)'
    BY <1>1, <1>2 DEF TwoDiffer
  <2>2. Entry(1)' = Entry(1) /\ Entry(2)' = Head(wanted[Registrar])
    BY <1>2, <2>1
  <2>3. Head(wanted[Registrar]) # Entry(1)
    BY <1>1, <2>1 DEF Searched, TypeOK
  <2> QED BY <2>2, <2>3
<1> QED BY <1>2, <1>4, <1>5, <1>6, <1>7 DEF IInv

LEMMA CountInv ==
  ASSUME IInv, Count
  PROVE  IInv'
<1> DEFINE rest == Tail(wanted[Registrar])
<1>1. /\ TypeOK /\ Registrar \in Thread /\ list_num \in Nat
      /\ Length(reg_list) = list_num + 1 /\ Length(reg_list) <= Cardinality(Node)
      /\ Cardinality(Node) \in Nat
      /\ wanted[Registrar] \in Seq(Module) /\ wanted[Registrar] # <<>>
      /\ rest \in Seq(Module)
  BY RegistryList, FS_CardinalityType, LinkListAssumption
  DEF IInv, TypeOK, Thread, Count, CountedIsLinked
<1>2. /\ list_num' = list_num + 1 /\ UNCHANGED <<reg_list, id, status>>
      /\ IF rest = <<>> THEN Idle(Registrar)
                        ELSE Search(Registrar, rest, list_num + 1)
  BY DEF Count
<1>3. /\ pc'[Registrar] = IF rest = <<>> THEN "idle" ELSE "searching"
      /\ wanted'[Registrar] = rest
      /\ place'[Registrar] = 1
      /\ since'[Registrar] = IF rest = <<>> THEN 0 ELSE list_num + 1
      /\ pc' \in [Thread -> {"idle", "searching", "found", "missing", "linked"}]
      /\ wanted' \in [Thread -> Seq(Module)]
      /\ place' \in [Thread -> Nat] /\ since' \in [Thread -> Nat]
      /\ \A u \in Thread \ {Registrar} : /\ pc'[u] = pc[u] /\ wanted'[u] = wanted[u]
                                         /\ place'[u] = place[u] /\ since'[u] = since[u]
  <2> HIDE DEF rest
  <2>1. /\ pc \in [Thread -> {"idle", "searching", "found", "missing", "linked"}]
        /\ wanted \in [Thread -> Seq(Module)]
        /\ place \in [Thread -> Nat] /\ since \in [Thread -> Nat]
    BY <1>1 DEF TypeOK
  <2>2. /\ pc' = [pc EXCEPT ![Registrar] = IF rest = <<>> THEN "idle" ELSE "searching"]
        /\ wanted' = [wanted EXCEPT ![Registrar] = rest]
        /\ place' = [place EXCEPT ![Registrar] = 1]
        /\ since' = [since EXCEPT ![Registrar] = IF rest = <<>> THEN 0
                                                                ELSE list_num + 1]
    <3>1. CASE rest = <<>>
      BY <1>2, <3>1 DEF Idle, Goto
    <3>2. CASE rest # <<>>
      BY <1>2, <3>2 DEF Search, Goto
    <3> QED BY <3>1, <3>2
  <2>3. list_num + 1 \in Nat
    BY <1>1
  <2> QED BY <1>1, <2>1, <2>2, <2>3
<1> HIDE DEF rest
<1>4. TypeOK'
  <2>1. \A t \in Thread : pc'[t] # "idle" => wanted'[t] # <<>>
    BY <1>1, <1>3 DEF TypeOK
  <2> QED BY <1>1, <1>2, <1>3, <2>1 DEF TypeOK
<1>5. CountedIsLinked' /\ NeverWalksOff' /\ AloneCounts'
  BY <1>1, <1>2, <1>3 DEF CountedIsLinked, NeverWalksOff, AloneCounts, IInv
<1>6. ASSUME NEW t \in Thread PROVE Searched(t)'
  <2>1. CASE t = Registrar
    BY <1>1, <1>2, <1>3, <2>1 DEF Searched
  <2>2. CASE t # Registrar
    <3>1. t \in Thread \ {Registrar} /\ place[t] \in Nat /\ since[t] \in Nat
      BY <1>1, <2>2 DEF TypeOK
    <3>2. Searched(t) /\ Entry(1)' = Entry(1) /\ Entry(2)' = Entry(2)
      BY <1>2, SameRegistry DEF IInv
    <3> QED BY <1>1, <1>2, <1>3, <3>1, <3>2 DEF Searched
  <2> QED BY <2>1, <2>2
<1> QED BY <1>2, <1>4, <1>5, <1>6, SameRegistry DEF IInv

LEMMA NextIInv == IInv /\ [Next]_rvars => IInv'
<1> SUFFICES ASSUME IInv, [Next]_rvars PROVE IInv'
  OBVIOUS
<1>1. ASSUME NEW batch \in Batches, Register(batch) PROVE IInv'
  BY <1>1, RegisterInv
<1>2. ASSUME NEW n \in Node, Link(n) PROVE IInv'
  BY <1>2, LinkInv
<1>3. CASE Refuse \/ NoMemory
  BY <1>3, AbortInv
<1>4. CASE Count
  BY <1>4, CountInv
<1>5. ASSUME NEW t \in Logger, NEW m \in Module, Log(t, m) PROVE IInv'
  BY <1>5, LogInv
<1>6. ASSUME NEW t \in Logger, Answered(t) PROVE IInv'
  BY <1>6, AnsweredInv
<1>7. ASSUME NEW t \in Thread, Look(t), status = "running" PROVE IInv'
  BY <1>7, LookInv
<1>8. CASE UNCHANGED rvars
  BY <1>8, SameRegistry
  DEF rvars, IInv, TypeOK, NeverWalksOff, CountedIsLinked, Searched, AloneCounts
<1> QED BY <1>1, <1>2, <1>3, <1>4, <1>5, <1>6, <1>7, <1>8 DEF Next

LEMMA Invariance == Spec => []IInv
BY InitIInv, NextIInv, PTL DEF Spec

-----------------------------------------------------------------------------
(* What holds of every execution *)

\* The registry has its types, and counts no more modules than there are nodes.
THEOREM TypeCorrect == Spec => []TypeOK
<1>1. IInv => TypeOK
  BY DEF IInv
<1> QED BY <1>1, Invariance, PTL

\* log.c shares the list with the threads that log, and no lock: still no
\* search follows NULL, however many threads search beside a registration.
THEOREM SearchIsSafe == Spec => []NeverWalksOff
<1>1. IInv => NeverWalksOff
  BY DEF IInv
<1> QED BY <1>1, Invariance, PTL

\* list_num is the number of nodes a walk meets, but for the step between the
\* link and the count (log.c, tel_add_log_reg_node).
THEOREM CountIsLength == Spec => []CountedIsLinked
<1>1. IInv => CountedIsLinked
  BY DEF IInv
<1> QED BY <1>1, Invariance, PTL

\* The module that was registered first is found by every search that begins
\* after it has been counted.
THEOREM FirstIsServed == Spec => []FirstIsFound
<1>1. IInv => FirstIsFound
  BY FS_CardinalityType, LinkListAssumption
  DEF IInv, TypeOK, Searched, FirstIsFound
<1> QED BY <1>1, Invariance, PTL

\* Two registered modules are both found, and are not the same one.
THEOREM TwoAreFound == Spec => []TwoAreServed
<1>1. IInv => TwoAreServed
  BY FS_CardinalityType, LinkListAssumption
  DEF IInv, TypeOK, Searched, TwoDiffer, TwoAreServed
<1> QED BY <1>1, Invariance, PTL

=============================================================================
