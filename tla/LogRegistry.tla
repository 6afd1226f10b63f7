----------------------------- MODULE LogRegistry -----------------------------
(***************************************************************************)
(* The modules registered with the log (log.c): one thread registers them, *)
(* in batches (tel_log_reg), while others log and so look their module up  *)
(* (tel_write_log, tel_log_search_node).  The registry is a list of        *)
(* sll_linklist.c and a count beside it, shared without a lock.            *)
(***************************************************************************)
EXTENDS LinkList, Sequences

CONSTANTS
  Module,     \* module ids
  NoModule,   \* what id holds for a node that has not been allocated
  Registrar,  \* the thread that registers
  Logger,     \* the threads that log
  MaxBatch    \* bound: most modules in one call of tel_log_reg

ASSUME LogRegistryAssumption ==
  Registrar \notin Logger /\ MaxBatch \in Nat \ {0} /\ NoModule \notin Module

Thread == Logger \cup {Registrar}

VARIABLES
  reg_list,  \* g_tellog_reglist->reg_list
  list_num,  \* g_tellog_reglist->list_num
  id,        \* reg_info.module_id of every node that has been allocated
  pc,        \* where each thread is
  wanted,    \* the modules a call is about, the one it looks for first
  place,     \* i of tel_log_search_node
  since,     \* history: list_num when a thread's search began
  status     \* "running", "aborted" (assert) or "crashed" (NULL)

rvars == <<reg_list, list_num, id, pc, wanted, place, since, status>>

TypeOK ==
  /\ reg_list \in ListType
  /\ list_num \in 0 .. Cardinality(Node)
  /\ id \in [Node -> Module \cup {NoModule}]
  /\ pc \in [Thread -> {"idle", "searching", "found", "missing", "linked"}]
  /\ wanted \in [Thread -> Seq(Module)]
  /\ \A t \in Thread : pc[t] # "idle" => wanted[t] # <<>>
  /\ place \in [Thread -> Nat]
  /\ since \in [Thread -> Nat]
  /\ status \in {"running", "aborted", "crashed"}

\* After tel_log_init.
Init ==
  /\ reg_list = EmptyList
  /\ list_num = 0
  /\ id = [n \in Node |-> NoModule]
  /\ pc = [t \in Thread |-> "idle"]
  /\ wanted = [t \in Thread |-> <<>>]
  /\ place = [t \in Thread |-> 1]
  /\ since = [t \in Thread |-> 0]
  /\ status = "running"

Goto(t, l) == pc' = [pc EXCEPT ![t] = l]

\* tel_log_search_node for the first module wanted, when count are counted.
Search(t, modules, count) ==
  /\ Goto(t, "searching")
  /\ wanted' = [wanted EXCEPT ![t] = modules]
  /\ place' = [place EXCEPT ![t] = 1]
  /\ since' = [since EXCEPT ![t] = count]

Idle(t) ==
  /\ Goto(t, "idle")
  /\ wanted' = [wanted EXCEPT ![t] = <<>>]
  /\ place' = [place EXCEPT ![t] = 1]
  /\ since' = [since EXCEPT ![t] = 0]

-----------------------------------------------------------------------------
\* tel_log_reg with an array of registrations.
Register(batch) ==
  /\ pc[Registrar] = "idle"
  /\ Search(Registrar, batch, list_num)
  /\ UNCHANGED <<reg_list, list_num, id, status>>

\* tel_write_log
Log(t, m) ==
  /\ pc[t] = "idle"
  /\ Search(t, <<m>>, list_num)
  /\ UNCHANGED <<reg_list, list_num, id, status>>

\* Mutants: one place too many, and one too few.
CountedTooFar(t)  == place[t] <= list_num + 1
CountedTooLate(t) == place[t] < list_num

Counted(t) == place[t] <= list_num

\* The node a turn looks at is not there: it is followed all the same.
NodeMissing(t) ==
  \/ GetIndexCrashes(reg_list, place[t])
  \/ GetIndex(reg_list, place[t]) = NULL

\* One turn of the loop of tel_log_search_node: the node at i, if i is counted.
\* The list only grows, so the walk of get_index is one step.
Look(t) ==
  /\ pc[t] = "searching"
  /\ IF ~Counted(t)
     THEN Goto(t, "missing") /\ UNCHANGED <<place, status>>
     ELSE IF NodeMissing(t)
     THEN status' = "crashed" /\ UNCHANGED <<pc, place>>
     ELSE /\ IF id[GetIndex(reg_list, place[t])] = Head(wanted[t])
             THEN Goto(t, "found") /\ UNCHANGED place
             ELSE place' = [place EXCEPT ![t] = @ + 1] /\ UNCHANGED pc
          /\ UNCHANGED status
  /\ UNCHANGED <<reg_list, list_num, id, wanted, since>>

\* A module that is registered is not registered again: assert(0).
Refuse ==
  /\ pc[Registrar] = "found"
  /\ status' = "aborted"
  /\ UNCHANGED <<reg_list, list_num, id, pc, wanted, place, since>>

\* tel_add_log_reg_node: a node goes to the end of the list ...
Link(n) ==
  /\ pc[Registrar] = "missing" /\ id[n] = NoModule
  /\ id' = [id EXCEPT ![n] = Head(wanted[Registrar])]
  /\ reg_list' = InsertAtTail(reg_list, n)
  /\ Goto(Registrar, "linked")
  /\ UNCHANGED <<list_num, wanted, place, since, status>>

\* ... unless there is no memory for it: assert(0).
NoMemory ==
  /\ pc[Registrar] = "missing"
  /\ status' = "aborted"
  /\ UNCHANGED <<reg_list, list_num, id, pc, wanted, place, since>>

\* A mutant: the search for the next of the batch, without an end to the batch.
CountEndlessly ==
  /\ pc[Registrar] = "linked"
  /\ list_num' = list_num + 1
  /\ Search(Registrar, Tail(wanted[Registrar]), list_num + 1)
  /\ UNCHANGED <<reg_list, id, status>>

\* ... and is counted; then the next of the batch.
Count ==
  /\ pc[Registrar] = "linked"
  /\ list_num' = list_num + 1
  /\ LET rest == Tail(wanted[Registrar])
     IN  IF rest = <<>> THEN Idle(Registrar)
         ELSE Search(Registrar, rest, list_num + 1)
  /\ UNCHANGED <<reg_list, id, status>>

\* tel_write_log goes on to write, or says that the module is not registered.
Answered(t) ==
  /\ pc[t] \in {"found", "missing"}
  /\ Idle(t)
  /\ UNCHANGED <<reg_list, list_num, id, status>>

-----------------------------------------------------------------------------
Batches == UNION {[1 .. n -> Module] : n \in 1 .. MaxBatch}

Next ==
  /\ status = "running"
  /\ \/ \E batch \in Batches : Register(batch)
     \/ \E n \in Node : Link(n)
     \/ Refuse \/ NoMemory \/ Count
     \/ \E t \in Logger : (\E m \in Module : Log(t, m)) \/ Answered(t)
     \/ \E t \in Thread : Look(t)

Spec == Init /\ [][Next]_rvars

-----------------------------------------------------------------------------
(* Properties *)

Entry(i) == id[Nth(reg_list, i)]

\* A search that runs beside a registration meets only nodes that are linked,
\* so get_index never follows NULL.
NeverWalksOff == status # "crashed"

\* The count is the length of the list, but for the moment a node is linked
\* and not counted: no registration is lost, and no search loops past the end.
CountedIsLinked ==
  Length(reg_list) = list_num + (IF pc[Registrar] = "linked" THEN 1 ELSE 0)

\* What the server relies on, which registers one module: whatever else gets
\* registered, a log of the first module is not refused once it is counted.
FirstIsFound ==
  \A t \in Thread :
    pc[t] = "missing" /\ since[t] > 0 => Head(wanted[t]) # Entry(1)

\* Of two modules both are found, and neither is registered twice.
TwoAreServed ==
  Length(reg_list) = 2 =>
    /\ \A t \in Thread : pc[t] = "missing" /\ since[t] = 2 =>
         Head(wanted[t]) \notin {Entry(1), Entry(2)}
    /\ Entry(1) # Entry(2)

\* README.md:38: many modules register, and log.  While nothing is being
\* registered, no log is refused of a module that was registered when the
\* search for it began.  (Does not hold: get_index skips the second of three.)
RegisteredIsFound ==
  pc[Registrar] = "idle" =>
    \A t \in Logger : pc[t] = "missing" =>
      \A i \in 1 .. since[t] : Head(wanted[t]) # Entry(i)

=============================================================================
