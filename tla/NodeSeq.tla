------------------------------ MODULE NodeSeq ------------------------------
(***************************************************************************)
(* What a linked list is for: a sequence of nodes, no node in it twice,    *)
(* into which a node is put anywhere and out of which any one is taken.    *)
(***************************************************************************)
EXTENDS SequencesExt

CONSTANT Item

VARIABLES
  items,  \* the nodes, in order
  gone    \* the nodes taken out, which are not used again

qvars == <<items, gone>>

Init == items = <<>> /\ gone = {}

Put ==
  /\ \E n \in Item \ (Range(items) \cup gone) : \E i \in DOMAIN items \cup {Len(items) + 1} :
       items' = InsertAt(items, i, n)
  /\ UNCHANGED gone

TakeOut ==
  \E i \in DOMAIN items :
    /\ items' = RemoveAt(items, i)
    /\ gone' = gone \cup {items[i]}

Next == Put \/ TakeOut

Spec == Init /\ [][Next]_qvars

=============================================================================
