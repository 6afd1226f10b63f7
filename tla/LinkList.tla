------------------------------ MODULE LinkList ------------------------------
(***************************************************************************)
(* The operations of sll_linklist.c on a list in memory: a head and a tail *)
(* pointer, and the next field of every node.  An operation is a function  *)
(* from the list before to the list after; a pointer the code would        *)
(* dereference while it is NULL is stated beside the operation.            *)
(***************************************************************************)
EXTENDS Naturals, FiniteSets

CONSTANTS
  Node,  \* every node a caller may put into a list
  NULL,  \* the null pointer
  Junk   \* what a next field holds that nobody has set: malloc clears nothing

ASSUME LinkListAssumption ==
  NULL \notin Node /\ Junk \notin Node /\ NULL # Junk /\ IsFiniteSet(Node)

ListType ==
  [head : Node \cup {NULL}, tail : Node \cup {NULL},
   next : [Node -> Node \cup {NULL, Junk}]]

\* What tel_log_init and debug_init_list set up by hand.
EmptyList == [head |-> NULL, tail |-> NULL, next |-> [n \in Node |-> Junk]]

\* The pointer after i - 1 steps from the head, NULL once the list has ended.
Nth(l, i) ==
  LET at[k \in Nat] == IF k <= 1 THEN l.head
                       ELSE IF at[k - 1] \in Node THEN l.next[at[k - 1]]
                                                  ELSE at[k - 1]
  IN  at[i]

Places    == 1 .. Cardinality(Node)
Length(l) == Cardinality({i \in Places : Nth(l, i) # NULL})
InList(l) == {Nth(l, i) : i \in 1 .. Length(l)}
Final(l)  == Nth(l, Length(l))  \* where a walk over next stops

IsEmpty(l) == l.head = NULL
GetHead(l) == l.head
GetTail(l) == IF IsEmpty(l) THEN NULL ELSE Final(l)

\* A mutant: without node->next = list->head.
InsertAtHeadUnlinked(l, n) ==
  [l EXCEPT !.head = n, !.tail = IF @ = NULL THEN n ELSE @]

InsertAtHead(l, n) ==
  [head |-> n,
   tail |-> IF l.tail = NULL THEN n ELSE l.tail,
   next |-> [l.next EXCEPT ![n] = l.head]]

\* A mutant: without node->next = NULL.
InsertAtTailUnended(l, n) ==
  IF IsEmpty(l) THEN [l EXCEPT !.head = n, !.tail = n]
                ELSE [l EXCEPT !.next[Final(l)] = n]

\* A mutant: the end of the list taken from the tail pointer.
InsertAtTailPointer(l, n) ==
  IF IsEmpty(l) THEN [head |-> n, tail |-> n, next |-> [l.next EXCEPT ![n] = NULL]]
                ELSE [l EXCEPT !.next = [@ EXCEPT ![l.tail] = n, ![n] = NULL]]

\* The tail pointer is set for the first node and never moved.
InsertAtTail(l, n) ==
  IF IsEmpty(l)
  THEN [head |-> n, tail |-> n, next |-> [l.next EXCEPT ![n] = NULL]]
  ELSE [l EXCEPT !.next = [@ EXCEPT ![Final(l)] = n, ![n] = NULL]]

\* Behind the i-th node, behind the first for i < 1, nowhere (and no error)
\* past the end.  An empty list is an assertion failure.
InsertAtIndex(l, n, i) ==
  LET at == Nth(l, i)
  IN  IF at = NULL THEN l
      ELSE [l EXCEPT !.next = [@ EXCEPT ![n] = l.next[at], ![at] = n]]

\* A mutant: places counted from 0.
GetIndexFromZero(l, i) == Nth(l, IF i + 1 <= Length(l) THEN i + 1 ELSE Length(l))

\* sll_link_list_get_index: from the second node the loop takes up to i more
\* steps, and stops at the last node.
GetIndex(l, i) ==
  IF i = 1 THEN l.head
  ELSE Nth(l, IF i + 2 <= Length(l) THEN i + 2 ELSE Length(l))

\* It dereferences head->next, for an i other than 1, without a look at it.
GetIndexCrashes(l, i) == i # 1 /\ Length(l) < 2

HeadRemove(l) == [l EXCEPT !.head = l.next[l.head]]

\* A mutant: the node before the last but one is cut off.
TailRemoveTooMuch(l) ==
  [l EXCEPT !.next[Nth(l, IF Length(l) > 2 THEN Length(l) - 2 ELSE 1)] = NULL]

\* A list of one node has no predecessor to cut: the code writes through NULL.
TailRemove(l) == [l EXCEPT !.next[Nth(l, Length(l) - 1)] = NULL]
TailRemoveCrashes(l) == Length(l) = 1

\* The head and the last node go the way of the two operations above; a node
\* that is not in the list leaves it as it is, and is not freed.
NodeRemove(l, n) ==
  IF n = GetHead(l) THEN HeadRemove(l)
  ELSE IF n = GetTail(l) THEN TailRemove(l)
  ELSE [l EXCEPT !.next = [p \in Node |-> IF p \in InList(l) /\ @[p] = n
                                          THEN l.next[n] ELSE @[p]]]

\* sll_link_list_destory frees the second node and stops; then the list.
DestroyFrees(l) == {Nth(l, i) : i \in {2} \cap 1 .. Length(l)}

=============================================================================
