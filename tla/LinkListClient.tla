--------------------------- MODULE LinkListClient ---------------------------
(***************************************************************************)
(* A program that uses one list of sll_linklist.c: any operation, any      *)
(* number of times, on nodes it has allocated.  What is freed, and by whom, *)
(* is part of the state, as is the end a wrong call puts to the program.   *)
(***************************************************************************)
EXTENDS LinkList, Sequences

VARIABLES
  list,    \* the list
  memory,  \* node -> "caller" (allocated, not given away), "list" or "freed"
  status   \* "running", "destroyed", "aborted" (assert) or "crashed" (NULL)

cvars == <<list, memory, status>>

TypeOK ==
  /\ list \in ListType
  /\ memory \in [Node -> {"caller", "list", "freed"}]
  /\ status \in {"running", "destroyed", "aborted", "crashed"}

Init ==
  /\ list = EmptyList
  /\ memory = [n \in Node |-> "caller"]
  /\ status = "running"

Give(n) == /\ memory[n] = "caller"
           /\ memory' = [memory EXCEPT ![n] = "list"]
           /\ UNCHANGED status

Free(n) == memory' = [memory EXCEPT ![n] = "freed"]

End(how) == status' = how /\ UNCHANGED <<list, memory>>

-----------------------------------------------------------------------------
PutAtHead(n) == Give(n) /\ list' = InsertAtHead(list, n)
PutAtTail(n) == Give(n) /\ list' = InsertAtTail(list, n)

PutAtIndex(n, i) ==
  IF IsEmpty(list) THEN End("aborted")
                   ELSE Give(n) /\ list' = InsertAtIndex(list, n, i)

\* get_index changes nothing, unless it follows NULL.
AskIndex(i) == GetIndexCrashes(list, i) /\ End("crashed")

TakeHead ==
  IF IsEmpty(list) THEN End("aborted")
  ELSE /\ list' = HeadRemove(list)
       /\ Free(list.head)
       /\ UNCHANGED status

TakeTail ==
  IF IsEmpty(list) THEN End("aborted")
  ELSE IF TailRemoveCrashes(list) THEN End("crashed")
  ELSE /\ list' = TailRemove(list)
       /\ Free(Final(list))
       /\ UNCHANGED status

Take(n) ==
  IF IsEmpty(list) THEN End("aborted")
  ELSE /\ list' = NodeRemove(list, n)
       /\ IF n \in InList(list) THEN Free(n) ELSE UNCHANGED memory
       /\ UNCHANGED status

Destroy ==
  /\ status' = "destroyed"
  /\ memory' = [n \in Node |-> IF n \in DestroyFrees(list) THEN "freed"
                                                          ELSE memory[n]]
  /\ UNCHANGED list

\* A pointer is passed to node_remove while its node is allocated.
Next ==
  /\ status = "running"
  /\ \/ \E n \in Node : \/ PutAtHead(n) \/ PutAtTail(n)
                        \/ \E i \in Places : PutAtIndex(n, i)
                        \/ memory[n] # "freed" /\ Take(n)
     \/ \E i \in Places : AskIndex(i)
     \/ TakeHead \/ TakeTail \/ Destroy

Spec == Init /\ [][Next]_cvars

-----------------------------------------------------------------------------
(* Properties *)

\* Whatever is inserted and removed where, a walk from the head ends, and
\* meets nodes that are allocated and belong to the list, and only those.
WalkIsSafe ==
  status = "running" =>
    /\ Length(list) <= Cardinality(Node) /\ Nth(list, Length(list) + 1) = NULL
    /\ \A n \in InList(list) : memory[n] = "list"

\* The list is the sequence of the nodes a walk meets, and what is freed is
\* what was taken out of it, at once and nothing else, up to destory.
Contents == [i \in 1 .. Length(list) |-> Nth(list, i)]
Freed    == {n \in Node : memory[n] = "freed"}
TakenOut == Freed \ (IF status = "destroyed" THEN DestroyFrees(list) ELSE {})

Abstract == INSTANCE NodeSeq WITH Item <- Node, items <- Contents, gone <- TakenOut

ImplementsSeq == Abstract!Spec

=============================================================================
