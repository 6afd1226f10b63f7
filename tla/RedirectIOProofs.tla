-------------------------- MODULE RedirectIOProofs --------------------------
(***************************************************************************)
(* Proofs about RedirectIO, for any set of sessions and any size of the    *)
(* descriptor table.                                                       *)
(***************************************************************************)
EXTENDS RedirectIO, TLAPS

-----------------------------------------------------------------------------
(* The inductive invariants *)

\* 0, 1 and 2 are always open, so no new descriptor is ever one of them; a
\* session's connection stays on its own descriptor.
StdOpen   == \A n \in StdFd : table[n] # Closed
Ownership == TypeOK /\ StdOpen /\ ConnOwned

\* A duplicate of the console, made by save_ori_io.
IsSaved(fd) == fd \in Fd \ StdFd /\ table[fd] = Console

\* While session s is in its window, descriptors lo..hi-1 are its connection
\* and the other standard descriptors are the console.
PointedAt(s, lo, hi) ==
  \A n \in StdFd : table[n] = IF lo <= n /\ n < hi THEN s ELSE Console

AllSaved == \A n \in StdFd : IsSaved(saved[n])

\* What the descriptors and the globals are, by phase.
WindowShape(s) ==
  /\ phase[s] = "save" =>
       PointedAt(s, 3, 3) /\ \A n \in StdFd : n < std[s] => IsSaved(saved[n])
  /\ phase[s] = "store" =>
       /\ PointedAt(s, 3, 3)
       /\ \A n \in StdFd : n < std[s] => IsSaved(saved[n])
       /\ IsSaved(held[s])
  /\ phase[s] = "redirect" => PointedAt(s, 0, std[s]) /\ AllSaved
  /\ phase[s] = "exec" => std[s] = 0 /\ PointedAt(s, 0, 3) /\ AllSaved
  /\ phase[s] = "load" => PointedAt(s, std[s], 3) /\ AllSaved
  /\ phase[s] = "restore" =>
       PointedAt(s, std[s], 3) /\ AllSaved /\ IsSaved(held[s])

\* At most one window is open, and the window has the shape of its phase.
Exclusive == \A s, t \in Session : InWindow(s) /\ InWindow(t) => s = t
Shape     == \A s \in Session : InWindow(s) => WindowShape(s)

\* The descriptors that are on a session's connection.
Holders ==
  \A s \in Session : \A fd \in Fd :
    table[fd] = s => \/ Live(s) /\ fd = fd_conn[s]
                     \/ InWindow(s) /\ fd \in StdFd

\* Only the running command has characters in the buffer of stdout.
Buffered == \A s \in stdout_buf \cap Session : phase[s] = "exec"

\* Between commands 0, 1 and 2 are the console.
AtRest ==
  (\A s \in Session : ~InWindow(s)) => \A n \in StdFd : table[n] = Console

\* What holds as long as no two windows have overlapped and no descriptor has
\* been refused.
Serial    == Exclusive /\ Shape /\ AtRest /\ Holders /\ Buffered /\ OwnerSeesOutput
SerialInv == Undisturbed => Serial

IInv == Ownership /\ SerialInv

-----------------------------------------------------------------------------
(* Type correctness *)

LEMMA InitTypeOK == Init => TypeOK
<1> SUFFICES ASSUME Init PROVE TypeOK
  OBVIOUS
<1> USE RedirectAssumption DEF Init
<1>1. table \in [Fd -> File \cup {Closed}]
  BY DEF File
<1>2. saved \in [StdFd -> Fd \cup {NoFd}]
  BY DEF Fd
<1>3. held \in [Session -> Fd \cup {NoFd}] /\ fd_conn \in [Session -> Fd \cup {NoFd}]
  OBVIOUS
<1>4. phase \in [Session -> Phase] /\ std \in [Session -> StdFd]
  BY DEF Phase, StdFd
<1>5. stdout_buf \in SUBSET Origin /\ delivered \in [File -> SUBSET Origin]
  OBVIOUS
<1> QED BY <1>1, <1>2, <1>3, <1>4, <1>5 DEF TypeOK

LEMMA AdvanceType ==
  ASSUME TypeOK, NEW s \in Session, NEW again \in Phase, NEW after \in Phase,
         Advance(s, again, after)
  PROVE  std' \in [Session -> StdFd] /\ phase' \in [Session -> Phase]
BY DEF TypeOK, Advance, StdFd

LEMMA Dup2Type ==
  ASSUME TypeOK, NEW src, NEW dst \in StdFd, Dup2(src, dst)
  PROVE  table' \in [Fd -> File \cup {Closed}]
BY DEF TypeOK, Dup2

LEMMA EmitType ==
  ASSUME TypeOK, NEW o \in SUBSET Origin, Emit(o)
  PROVE  delivered' \in [File -> SUBSET Origin]
BY DEF TypeOK, Emit

LEMMA PrintfType ==
  ASSUME TypeOK, NEW o \in Origin, Printf(o)
  PROVE  /\ delivered' \in [File -> SUBSET Origin]
         /\ stdout_buf' \in SUBSET Origin
<1>1. CASE Emit(stdout_buf \cup {o}) /\ stdout_buf' = {}
  BY <1>1, EmitType DEF TypeOK
<1>2. CASE stdout_buf' = stdout_buf \cup {o} /\ UNCHANGED delivered
  BY <1>2 DEF TypeOK
<1> QED BY <1>1, <1>2 DEF Printf

LEMMA NextTypeOK == TypeOK /\ [Next]_vars => TypeOK'
<1> SUFFICES ASSUME TypeOK, [Next]_vars PROVE TypeOK'
  OBVIOUS
<1> USE DEF TypeOK
<1>1. ASSUME NEW s \in Session, Accept(s) PROVE TypeOK'
  BY <1>1 DEF Accept, Lowest, Free, File, Phase
<1>2. ASSUME NEW s \in Session, AcceptFails(s) PROVE TypeOK'
  BY <1>2, PrintfType DEF AcceptFails, Origin
<1>3. ASSUME NEW s \in Session, StartShell(s) PROVE TypeOK'
  BY <1>3, PrintfType DEF StartShell, Phase, Origin
<1>4. ASSUME NEW s \in Session, EnterCommand(s) PROVE TypeOK'
  <2>1. overlapped' \in BOOLEAN
    BY <1>4 DEF EnterCommand
  <2> QED BY <1>4, <2>1 DEF EnterCommand, Phase, Window, StdFd
<1>5. ASSUME NEW s \in Session, Quit(s) PROVE TypeOK'
  BY <1>5 DEF Quit, Phase
<1>6. ASSUME NEW s \in Session, SaveDup(s) PROVE TypeOK'
  <2>1. phase' \in [Session -> Phase]
    BY <1>6 DEF SaveDup, Phase, Window
  <2>2. CASE \E fd \in Fd : /\ Lowest(fd)
                            /\ table' = [table EXCEPT ![fd] = table[std[s]]]
                            /\ held' = [held EXCEPT ![s] = fd]
                            /\ UNCHANGED starved
    <3>1. table[std[s]] \in File \cup {Closed}
      BY RedirectAssumption DEF StdFd, Fd
    <3> QED BY <1>6, <2>1, <2>2, <3>1 DEF SaveDup
  <2>3. CASE /\ Free = {}
             /\ held' = [held EXCEPT ![s] = NoFd]
             /\ starved' = TRUE
             /\ UNCHANGED table
    BY <1>6, <2>1, <2>3 DEF SaveDup
  <2> QED BY <1>6, <2>2, <2>3 DEF SaveDup
<1>7. ASSUME NEW s \in Session, SaveStore(s) PROVE TypeOK'
  <2>1. "save" \in Phase /\ "redirect" \in Phase
    BY DEF Phase, Window
  <2> QED BY <1>7, <2>1, AdvanceType DEF SaveStore
<1>8. ASSUME NEW s \in Session, Redirect(s) PROVE TypeOK'
  <2>1. "redirect" \in Phase /\ "exec" \in Phase
    BY DEF Phase, Window
  <2> QED BY <1>8, <2>1, AdvanceType, Dup2Type DEF Redirect
<1>9. ASSUME NEW s \in Session, TelPrintf(s) PROVE TypeOK'
  BY <1>9, EmitType DEF TelPrintf, Origin
<1>10. ASSUME NEW s \in Session, CallPrintf(s) PROVE TypeOK'
  BY <1>10, PrintfType DEF CallPrintf, Origin
<1>11. ASSUME NEW s \in Session, Flush(s) PROVE TypeOK'
  BY <1>11, EmitType DEF Flush, Phase, Window
<1>12. ASSUME NEW s \in Session, RestoreLoad(s) PROVE TypeOK'
  BY <1>12 DEF RestoreLoad, Phase, Window
<1>13. ASSUME NEW s \in Session, Restore(s) PROVE TypeOK'
  <2>1. "load" \in Phase /\ "idle" \in Phase
    BY DEF Phase, Window
  <2> QED BY <1>13, <2>1, AdvanceType, Dup2Type DEF Restore
<1>14. CASE UNCHANGED vars
  BY <1>14 DEF vars
<1> QED
  BY <1>1, <1>2, <1>3, <1>4, <1>5, <1>6, <1>7, <1>8, <1>9, <1>10, <1>11,
     <1>12, <1>13, <1>14 DEF Next, RunCommand, SelectTimeout

\* Every variable keeps its type, whatever the interleaving.
THEOREM TypeCorrect == Spec => []TypeOK
<1> QED BY InitTypeOK, NextTypeOK, PTL DEF Spec

-----------------------------------------------------------------------------
(* Ownership of the connections *)

\* A dup2 onto 0, 1 or 2 leaves every other descriptor alone, and closes none.
LEMMA Dup2Effect ==
  ASSUME TypeOK, NEW src, NEW dst \in StdFd, Dup2(src, dst)
  PROVE  /\ \A fd \in Fd \ StdFd : table'[fd] = table[fd]
         /\ \A fd \in Fd : table[fd] # Closed => table'[fd] # Closed
BY RedirectAssumption DEF TypeOK, Dup2, StdFd, Fd

\* The phases a step of a thread goes through stay among those of a session
\* that has its connection.
LEMMA AdvancePhase ==
  ASSUME TypeOK, NEW s \in Session, Live(s), NEW again \in Window,
         NEW after \in Window \cup {"idle"}, Advance(s, again, after)
  PROVE  \A t \in Session : Live(t)' <=> Live(t)
BY DEF TypeOK, Advance, Live, Window

\* A step that keeps the connections of the live sessions, and whatever is
\* open outside 0..2, keeps ownership.
LEMMA OwnershipKept ==
  ASSUME Ownership, TypeOK', UNCHANGED fd_conn,
         \A t \in Session : Live(t)' => Live(t),
         \A fd \in Fd \ StdFd : table[fd] # Closed => table'[fd] = table[fd],
         \A n \in StdFd : table'[n] # Closed
  PROVE  Ownership'
<1>1. 4 \in Fd \ StdFd /\ table[4] # Closed
  BY RedirectAssumption DEF Ownership, ConnOwned, Fd, StdFd, Listener, Closed
<1>2. table'[4] = Listener
  BY <1>1 DEF Ownership, ConnOwned
<1>3. ASSUME NEW t \in Session, Live(t)'
      PROVE  fd_conn'[t] \in Fd \ StdFd /\ table'[fd_conn'[t]] = t
  <2>1. fd_conn[t] \in Fd \ StdFd /\ table[fd_conn[t]] = t
    BY <1>3 DEF Ownership, ConnOwned
  <2>2. t # Closed
    BY RedirectAssumption
  <2> QED BY <2>1, <2>2
<1> QED BY <1>2, <1>3 DEF Ownership, StdOpen, ConnOwned, Fd, StdFd

LEMMA InitOwnership == Init => Ownership
<1> SUFFICES ASSUME Init PROVE Ownership
  OBVIOUS
<1>1. TypeOK
  BY InitTypeOK
<1>2. StdOpen
  BY RedirectAssumption DEF Init, StdOpen, StdFd, Fd, Console, Closed
<1>3. ConnOwned
  BY RedirectAssumption DEF Init, ConnOwned, Live, Window, StdFd, Fd
<1> QED BY <1>1, <1>2, <1>3 DEF Ownership

LEMMA NextOwnership == Ownership /\ [Next]_vars => Ownership'
<1> SUFFICES ASSUME Ownership, [Next]_vars PROVE Ownership'
  OBVIOUS
<1> USE DEF Ownership
<1>0. TypeOK'
  BY NextTypeOK
<1>1. ASSUME NEW s \in Session, Accept(s) PROVE Ownership'
  <2>1. PICK fd \in Fd : /\ Lowest(fd)
                         /\ table' = [table EXCEPT ![fd] = s]
                         /\ fd_conn' = [fd_conn EXCEPT ![s] = fd]
    BY <1>1 DEF Accept
  <2>2. table[fd] = Closed /\ fd \notin StdFd
    BY <2>1 DEF Lowest, Free, StdOpen
  <2>3. StdOpen'
    BY <2>1, <2>2 DEF StdOpen, TypeOK, StdFd, Fd
  <2>4. \A t \in Session \ {s} : Live(t)' <=> Live(t)
    BY <1>1 DEF Accept, Live, TypeOK
  <2>5. 4 \in Fd /\ fd # 4
    BY <2>2, RedirectAssumption DEF ConnOwned, Fd, Closed, Listener
  <2>6. ASSUME NEW t \in Session, Live(t)'
        PROVE  fd_conn'[t] \in Fd \ StdFd /\ table'[fd_conn'[t]] = t
    <3>1. CASE t = s
      BY <2>1, <2>2, <3>1 DEF TypeOK
    <3>2. CASE t # s
      BY <2>1, <2>2, <2>4, <2>6, <3>2, RedirectAssumption DEF TypeOK, ConnOwned
    <3> QED BY <3>1, <3>2
  <2> QED BY <1>0, <2>1, <2>3, <2>5, <2>6 DEF ConnOwned, TypeOK
<1>2. ASSUME NEW s \in Session, AcceptFails(s) PROVE Ownership'
  BY <1>0, <1>2, OwnershipKept DEF AcceptFails, Live, StdOpen
<1>3. ASSUME NEW s \in Session, StartShell(s) PROVE Ownership'
  BY <1>0, <1>3, OwnershipKept DEF StartShell, Live, StdOpen, TypeOK
<1>4. ASSUME NEW s \in Session, EnterCommand(s) PROVE Ownership'
  BY <1>0, <1>4, OwnershipKept DEF EnterCommand, Live, StdOpen, TypeOK
<1>5. ASSUME NEW s \in Session, Quit(s) PROVE Ownership'
  <2>1. fd_conn[s] \in Fd \ StdFd /\ table[fd_conn[s]] = s
    BY <1>5 DEF Quit, Live, ConnOwned
  <2>2. StdOpen'
    BY <1>5, <2>1 DEF Quit, StdOpen, TypeOK
  <2>3. 4 \in Fd /\ fd_conn[s] # 4
    BY <2>1, RedirectAssumption DEF ConnOwned, Fd
  <2>4. ASSUME NEW t \in Session, Live(t)'
        PROVE  /\ fd_conn'[t] \in Fd \ StdFd
               /\ table'[fd_conn'[t]] = t
    <3>1. t # s /\ Live(t)
      BY <1>5, <2>4 DEF Quit, Live, Window, TypeOK
    <3> QED BY <1>5, <2>1, <3>1 DEF Quit, ConnOwned, TypeOK
  <2> QED BY <1>0, <1>5, <2>2, <2>3, <2>4 DEF ConnOwned, Quit, TypeOK
<1>6. ASSUME NEW s \in Session, SaveDup(s) PROVE Ownership'
  <2>1. \A t \in Session : Live(t)' => Live(t)
    BY <1>6 DEF SaveDup, Live, Window, TypeOK
  <2>2. CASE UNCHANGED table
    BY <1>0, <1>6, <2>1, <2>2, OwnershipKept DEF SaveDup, StdOpen
  <2>3. ASSUME NEW fd \in Fd, Lowest(fd),
               table' = [table EXCEPT ![fd] = table[std[s]]]
        PROVE  Ownership'
    <3>1. table[fd] = Closed /\ fd \notin StdFd
      BY <2>3 DEF Lowest, Free, StdOpen
    <3> QED BY <1>0, <1>6, <2>1, <2>3, <3>1, OwnershipKept, RedirectAssumption
            DEF SaveDup, StdOpen, TypeOK, StdFd, Fd
  <2> QED BY <1>6, <2>2, <2>3 DEF SaveDup
<1>7. ASSUME NEW s \in Session, SaveStore(s) PROVE Ownership'
  <2>1. \A t \in Session : Live(t)' <=> Live(t)
    BY <1>7, AdvancePhase DEF SaveStore, Live, Window
  <2> QED BY <1>0, <1>7, <2>1, OwnershipKept DEF SaveStore, StdOpen
<1>8. ASSUME NEW s \in Session, Redirect(s) PROVE Ownership'
  <2>1. \A t \in Session : Live(t)' <=> Live(t)
    BY <1>8, AdvancePhase DEF Redirect, Live, Window
  <2>2. \A n \in StdFd : table'[n] # Closed
    BY <1>8, Dup2Effect, RedirectAssumption
       DEF Redirect, StdOpen, TypeOK, StdFd, Fd
  <2>3. \A fd \in Fd \ StdFd : table'[fd] = table[fd]
    BY <1>8, Dup2Effect DEF Redirect, TypeOK
  <2> QED BY <1>0, <1>8, <2>1, <2>2, <2>3, OwnershipKept DEF Redirect
<1>9. ASSUME NEW s \in Session, TelPrintf(s) PROVE Ownership'
  BY <1>0, <1>9, OwnershipKept DEF TelPrintf, Live, StdOpen
<1>10. ASSUME NEW s \in Session, CallPrintf(s) PROVE Ownership'
  BY <1>0, <1>10, OwnershipKept DEF CallPrintf, Live, StdOpen
<1>11. ASSUME NEW s \in Session, Flush(s) PROVE Ownership'
  <2>1. \A t \in Session : Live(t)' => Live(t)
    BY <1>11 DEF Flush, Live, Window, TypeOK
  <2> QED BY <1>0, <1>11, <2>1, OwnershipKept DEF Flush, StdOpen
<1>12. ASSUME NEW s \in Session, RestoreLoad(s) PROVE Ownership'
  <2>1. \A t \in Session : Live(t)' => Live(t)
    BY <1>12 DEF RestoreLoad, Live, Window, TypeOK
  <2> QED BY <1>0, <1>12, <2>1, OwnershipKept DEF RestoreLoad, StdOpen
<1>13. ASSUME NEW s \in Session, Restore(s) PROVE Ownership'
  <2>1. \A t \in Session : Live(t)' <=> Live(t)
    BY <1>13, AdvancePhase DEF Restore, Live, Window
  <2>2. \A n \in StdFd : table'[n] # Closed
    BY <1>13, Dup2Effect, RedirectAssumption
       DEF Restore, StdOpen, TypeOK, StdFd, Fd
  <2>3. \A fd \in Fd \ StdFd : table'[fd] = table[fd]
    BY <1>13, Dup2Effect DEF Restore, TypeOK
  <2> QED BY <1>0, <1>13, <2>1, <2>2, <2>3, OwnershipKept DEF Restore
<1>14. CASE UNCHANGED vars
  BY <1>0, <1>14, OwnershipKept DEF vars, Live, StdOpen
<1> QED
  BY <1>1, <1>2, <1>3, <1>4, <1>5, <1>6, <1>7, <1>8, <1>9, <1>10, <1>11,
     <1>12, <1>13, <1>14 DEF Next, RunCommand, SelectTimeout

\* Each live session keeps its connection on its own descriptor, and the
\* listener stays on 4, however the windows of commands overlap and whatever
\* stale descriptors the globals name (save_ori_io, redirect_io,
\* restore_ori_io, and the close of quit).
THEOREM ConnectionsOwned == Spec => []ConnOwned
<1>1. Ownership => ConnOwned
  BY DEF Ownership
<1> QED BY <1>1, InitOwnership, NextOwnership, PTL DEF Spec

LEMMA OnlyQuitCloses ==
  ASSUME Ownership, [Next]_vars, NEW fd \in Fd, table[fd] # Closed,
         table'[fd] = Closed
  PROVE  \E s \in Session : /\ fd = fd_conn[s]
                            /\ table[fd] = s
                            /\ phase'[s] = "closed"
<1> USE DEF Ownership
<1>1. ASSUME NEW s \in Session, Quit(s)
      PROVE  fd = fd_conn[s] /\ table[fd] = s /\ phase'[s] = "closed"
  <2>1. fd_conn[s] \in Fd /\ table[fd_conn[s]] = s
    BY <1>1 DEF Quit, Live, ConnOwned
  <2> QED BY <1>1, <2>1 DEF Quit, TypeOK
<1>2. ASSUME NEW s \in Session, Accept(s) PROVE FALSE
  BY <1>2, RedirectAssumption DEF Accept, TypeOK
<1>3. ASSUME NEW s \in Session, SaveDup(s) PROVE FALSE
  <2>1. table[std[s]] # Closed
    BY DEF StdOpen, TypeOK
  <2> QED BY <1>3, <2>1 DEF SaveDup, TypeOK
<1>4. ASSUME NEW s \in Session, Redirect(s) \/ Restore(s) PROVE FALSE
  BY <1>4, Dup2Effect DEF Redirect, Restore, TypeOK
<1>5. CASE UNCHANGED table
  BY <1>5
<1> QED
  BY <1>1, <1>2, <1>3, <1>4, <1>5
     DEF Next, RunCommand, SelectTimeout, vars, AcceptFails, StartShell,
         EnterCommand, SaveStore, TelPrintf, CallPrintf, Flush, RestoreLoad

\* Nothing but the quit of its own session releases a descriptor.
THEOREM OwnerCloses == Spec => OnlyOwnerCloses
<1>1. Ownership /\ [Next]_vars =>
        [\A fd \in Fd : table[fd] # Closed /\ table'[fd] = Closed =>
           \E s \in Session : /\ fd = fd_conn[s]
                              /\ table[fd] = s
                              /\ phase'[s] = "closed"]_vars
  BY OnlyQuitCloses
<1> QED
  BY <1>1, InitOwnership, NextOwnership, PTL DEF Spec, OnlyOwnerCloses

-----------------------------------------------------------------------------
(* Commands that do not overlap *)

\* What is in the buffer of stdout belongs on whatever descriptor 1 is now.
LEMMA BufferIsOwners ==
  ASSUME TypeOK, Serial
  PROVE  \A t \in stdout_buf \cap Session : table[1] = t
BY DEF TypeOK, Serial, Buffered, Shape, InWindow, Window, WindowShape,
       PointedAt, StdFd

\* Output whose origins are all on descriptor 1 arrives where it should.
LEMMA EmitToOwner ==
  ASSUME TypeOK, OwnerSeesOutput, NEW o \in SUBSET Origin, Emit(o),
         \A t \in o \cap Session : table[1] = t
  PROVE  OwnerSeesOutput'
BY DEF TypeOK, OwnerSeesOutput, Emit

\* A step of a thread outside any window, which takes no console descriptor
\* away, leaves the windows of the others as they are.
LEMMA WindowsKept ==
  ASSUME TypeOK, Serial, UNCHANGED <<saved, held, std>>, NEW s \in Session,
         NEW p \in Phase \ Window, phase' = [phase EXCEPT ![s] = p],
         ~InWindow(s),
         \A n \in StdFd : table'[n] = table[n],
         \A fd \in Fd : table[fd] = Console => table'[fd] = Console
  PROVE  Exclusive' /\ Shape' /\ AtRest'
<1>1. \A t \in Session : /\ InWindow(t)' <=> InWindow(t)
                         /\ InWindow(t) => phase'[t] = phase[t]
  BY DEF TypeOK, InWindow
<1>2. \A fd : IsSaved(fd) => IsSaved(fd)'
  BY DEF IsSaved
<1>3. Exclusive'
  BY <1>1 DEF Serial, Exclusive
<1>4. ASSUME NEW t \in Session, InWindow(t)' PROVE WindowShape(t)'
  <2>1. WindowShape(t) /\ phase'[t] = phase[t]
    BY <1>1, <1>4 DEF Serial, Shape
  <2>2. \A lo, hi : PointedAt(t, lo, hi) => PointedAt(t, lo, hi)'
    BY DEF PointedAt
  <2>3. AllSaved => AllSaved'
    BY <1>2 DEF AllSaved
  <2>4. (\A n \in StdFd : n < std[t] => IsSaved(saved[n]))
          => (\A n \in StdFd : n < std[t] => IsSaved(saved[n]))'
    BY <1>2
  <2>5. IsSaved(held[t]) => IsSaved(held[t])'
    BY <1>2
  <2> QED BY <2>1, <2>2, <2>3, <2>4, <2>5 DEF WindowShape
<1>5. AtRest'
  BY <1>1 DEF Serial, AtRest
<1> QED BY <1>3, <1>4, <1>5 DEF Shape

\* A step of the only thread in a window keeps the others out of one.
LEMMA WindowStep ==
  ASSUME TypeOK, Serial, NEW s \in Session, InWindow(s),
         NEW p \in Window, phase' = [phase EXCEPT ![s] = p],
         WindowShape(s)'
  PROVE  Exclusive' /\ Shape' /\ AtRest'
<1>1. \A t \in Session : InWindow(t)' <=> t = s
  BY DEF TypeOK, Serial, Exclusive, InWindow
<1> QED BY <1>1 DEF Exclusive, Shape, AtRest

LEMMA InitSerial == Init => Serial
<1> SUFFICES ASSUME Init PROVE Serial
  OBVIOUS
<1>1. \A t \in Session : ~InWindow(t)
  BY DEF Init, InWindow, Window
<1>2. AtRest
  BY RedirectAssumption DEF Init, AtRest, StdFd, Fd
<1>3. Holders
  BY RedirectAssumption DEF Init, Holders, Fd
<1>4. Buffered /\ OwnerSeesOutput
  BY DEF Init, Buffered, OwnerSeesOutput
<1> QED BY <1>1, <1>2, <1>3, <1>4 DEF Serial, Exclusive, Shape

LEMMA NextSerial ==
  ASSUME Ownership, Ownership', Serial, Undisturbed', [Next]_vars
  PROVE  Serial'
<1> USE DEF Ownership
<1>1. ASSUME NEW s \in Session, Accept(s) PROVE Serial'
  <2>1. PICK fd \in Fd : /\ table[fd] = Closed
                         /\ table' = [table EXCEPT ![fd] = s]
                         /\ fd_conn' = [fd_conn EXCEPT ![s] = fd]
    BY <1>1 DEF Accept, Lowest, Free
  <2>2. \A n \in StdFd : table'[n] = table[n]
    BY <2>1 DEF StdOpen, TypeOK
  <2>3. \A g \in Fd : table[g] = Console => table'[g] = Console
    BY <2>1 DEF TypeOK, Console, Closed
  <2>4. "accepted" \in Phase \ Window /\ ~InWindow(s)
    BY <1>1 DEF Accept, Phase, Window, InWindow
  <2>5. Exclusive' /\ Shape' /\ AtRest'
    BY <1>1, <2>2, <2>3, <2>4, WindowsKept DEF Accept
  <2>6. Holders'
    <3>1. ASSUME NEW t \in Session, NEW g \in Fd, table'[g] = t
          PROVE  \/ Live(t)' /\ g = fd_conn'[t]
                 \/ InWindow(t)' /\ g \in StdFd
      <4>1. CASE g = fd
        BY <1>1, <2>1, <3>1, <4>1 DEF Accept, TypeOK, Live
      <4>2. CASE g # fd
        <5>1. table[g] = t
          BY <2>1, <3>1, <4>2 DEF TypeOK
        <5>2. t # s
          BY <1>1, <5>1 DEF Accept, Serial, Holders, Live, InWindow, Window
        <5>3. /\ Live(t)' <=> Live(t)
              /\ InWindow(t)' <=> InWindow(t)
              /\ fd_conn'[t] = fd_conn[t]
          BY <1>1, <2>1, <5>2 DEF Accept, TypeOK, Live, InWindow
        <5> QED BY <5>1, <5>3 DEF Serial, Holders
      <4> QED BY <4>1, <4>2
    <3> QED BY <3>1 DEF Holders
  <2>7. Buffered' /\ OwnerSeesOutput'
    BY <1>1 DEF Accept, Serial, Buffered, OwnerSeesOutput, TypeOK
  <2> QED BY <2>5, <2>6, <2>7 DEF Serial
<1>2. ASSUME NEW s \in Session, AcceptFails(s) PROVE Serial'
  BY <1>2 DEF AcceptFails, Undisturbed
<1>3. ASSUME NEW s \in Session, StartShell(s) PROVE Serial'
  <2>1. "idle" \in Phase \ Window /\ ~InWindow(s)
    BY <1>3 DEF StartShell, Phase, Window, InWindow
  <2>2. Exclusive' /\ Shape' /\ AtRest'
    BY <1>3, <2>1, WindowsKept DEF StartShell
  <2>3. \A t \in Session : /\ Live(t)' <=> Live(t)
                           /\ InWindow(t)' <=> InWindow(t)
    BY <1>3 DEF StartShell, TypeOK, Live, InWindow, Window
  <2>4. Holders'
    BY <1>3, <2>3 DEF StartShell, Serial, Holders
  <2>5. Server \in Origin /\ Server \notin Session
    BY RedirectAssumption DEF Origin
  <2>6. Buffered'
    BY <1>3, <2>5 DEF StartShell, Printf, Serial, Buffered, TypeOK
  <2>7. OwnerSeesOutput'
    <3>1. CASE Emit(stdout_buf \cup {Server})
      BY <2>5, <3>1, BufferIsOwners, EmitToOwner DEF TypeOK, Serial
    <3>2. CASE UNCHANGED delivered
      BY <3>2 DEF Serial, OwnerSeesOutput
    <3> QED BY <1>3, <3>1, <3>2 DEF StartShell, Printf
  <2> QED BY <2>2, <2>4, <2>6, <2>7 DEF Serial
<1>4. ASSUME NEW s \in Session, EnterCommand(s) PROVE Serial'
  <2>1. \A t \in Session : ~InWindow(t)
    BY <1>4 DEF EnterCommand, Undisturbed, InWindow, Window, TypeOK
  <2>2. \A t \in Session : InWindow(t)' <=> t = s
    BY <1>4, <2>1 DEF EnterCommand, InWindow, Window, TypeOK
  <2>3. WindowShape(s)'
    BY <1>4, <2>1 DEF EnterCommand, WindowShape, PointedAt, Serial, AtRest,
                      StdFd, TypeOK
  <2>4. Exclusive' /\ Shape' /\ AtRest'
    BY <2>2, <2>3 DEF Exclusive, Shape, AtRest
  <2>5. \A t \in Session : Live(t)' <=> Live(t)
    BY <1>4 DEF EnterCommand, TypeOK, Live, Window
  <2>6. Holders'
    BY <1>4, <2>1, <2>5 DEF EnterCommand, Serial, Holders
  <2>7. Buffered' /\ OwnerSeesOutput'
    BY <1>4 DEF EnterCommand, Serial, Buffered, OwnerSeesOutput, TypeOK
  <2> QED BY <2>4, <2>6, <2>7 DEF Serial
<1>5. ASSUME NEW s \in Session, Quit(s) PROVE Serial'
  <2>1. "closed" \in Phase \ Window /\ ~InWindow(s) /\ Live(s)
    BY <1>5 DEF Quit, Phase, Window, InWindow, Live
  <2>2. fd_conn[s] \in Fd \ StdFd /\ table[fd_conn[s]] = s
    BY <2>1 DEF ConnOwned
  <2>3. Exclusive' /\ Shape' /\ AtRest'
    <3>1. \A n \in StdFd : table'[n] = table[n]
      BY <1>5, <2>2 DEF Quit, TypeOK
    <3>2. \A g \in Fd : table[g] = Console => table'[g] = Console
      BY <1>5, <2>2, RedirectAssumption DEF Quit, TypeOK
    <3> QED BY <1>5, <2>1, <3>1, <3>2, WindowsKept DEF Quit
  <2>4. Holders'
    <3>1. ASSUME NEW t \in Session, NEW g \in Fd, table'[g] = t
          PROVE  \/ Live(t)' /\ g = fd_conn'[t]
                 \/ InWindow(t)' /\ g \in StdFd
      <4>1. table[g] = t /\ g # fd_conn[s]
        BY <1>5, <2>2, <3>1, RedirectAssumption DEF Quit, TypeOK
      <4>2. t # s
        BY <2>1, <4>1 DEF Serial, Holders
      <4>3. /\ Live(t)' <=> Live(t)
            /\ InWindow(t)' <=> InWindow(t)
        BY <1>5, <4>2 DEF Quit, TypeOK, Live, InWindow
      <4> QED BY <1>5, <4>1, <4>3 DEF Quit, Serial, Holders
    <3> QED BY <3>1 DEF Holders
  <2>5. Buffered' /\ OwnerSeesOutput'
    BY <1>5 DEF Quit, Serial, Buffered, OwnerSeesOutput, TypeOK
  <2> QED BY <2>3, <2>4, <2>5 DEF Serial
<1>6. ASSUME NEW s \in Session, SaveDup(s) PROVE Serial'
  <2>1. InWindow(s) /\ WindowShape(s) /\ PointedAt(s, 3, 3)
    BY <1>6 DEF SaveDup, InWindow, Window, Serial, Shape, WindowShape
  <2>2. PICK fd \in Fd : /\ table[fd] = Closed
                         /\ table' = [table EXCEPT ![fd] = table[std[s]]]
                         /\ held' = [held EXCEPT ![s] = fd]
    BY <1>6 DEF SaveDup, Lowest, Free, Undisturbed
  <2>3. table[std[s]] = Console
    BY <2>1 DEF PointedAt, TypeOK, StdFd
  <2>4. fd \notin StdFd
    BY <2>2 DEF StdOpen
  <2>5. \A g : IsSaved(g) => IsSaved(g)'
    BY <2>2, <2>3 DEF IsSaved, TypeOK
  <2>6. \A n \in StdFd : table'[n] = table[n]
    BY <2>2, <2>4 DEF TypeOK
  <2>7. PointedAt(s, 3, 3)'
    BY <2>1, <2>6 DEF PointedAt
  <2>8. IsSaved(held[s])'
    BY <2>2, <2>3, <2>4 DEF IsSaved, TypeOK
  <2>9. (\A n \in StdFd : n < std[s] => IsSaved(saved[n]))'
    BY <1>6, <2>1, <2>5 DEF SaveDup, WindowShape
  <2>10. phase'[s] = "store"
    BY <1>6 DEF SaveDup, TypeOK
  <2>11. WindowShape(s)'
    BY <2>7, <2>8, <2>9, <2>10 DEF WindowShape
  <2>12. Exclusive' /\ Shape' /\ AtRest'
    BY <1>6, <2>1, <2>11, WindowStep DEF SaveDup, Window
  <2>13. \A t \in Session : /\ Live(t)' <=> Live(t)
                            /\ InWindow(t)' <=> InWindow(t)
    BY <1>6 DEF SaveDup, TypeOK, Live, InWindow, Window
  <2>14. \A t \in Session : \A g \in Fd : table'[g] = t => table[g] = t
    BY <2>2, <2>3, RedirectAssumption DEF TypeOK
  <2>15. Holders'
    BY <1>6, <2>13, <2>14 DEF SaveDup, Serial, Holders
  <2>16. Buffered' /\ OwnerSeesOutput'
    BY <1>6 DEF SaveDup, Serial, Buffered, OwnerSeesOutput, TypeOK
  <2> QED BY <2>12, <2>15, <2>16 DEF Serial
<1>7. ASSUME NEW s \in Session, SaveStore(s) PROVE Serial'
  <2>1. InWindow(s) /\ WindowShape(s)
    BY <1>7 DEF SaveStore, InWindow, Window, Serial, Shape
  <2>2. IsSaved(saved'[std[s]])
    BY <1>7, <2>1 DEF SaveStore, WindowShape, TypeOK
  <2>3. \A n \in StdFd : n < std[s] => IsSaved(saved'[n])
    BY <1>7, <2>1 DEF SaveStore, WindowShape, TypeOK, StdFd
  <2>4. \A n \in StdFd : n <= std[s] => IsSaved(saved'[n])
    BY <2>2, <2>3 DEF TypeOK, StdFd
  <2>5. PointedAt(s, 3, 3)
    BY <1>7, <2>1 DEF SaveStore, WindowShape
  <2>6. \A g : IsSaved(g) <=> IsSaved(g)'
    BY <1>7 DEF SaveStore, IsSaved
  <2>7. ASSUME std[s] < 2 PROVE Exclusive' /\ Shape' /\ AtRest'
    <3>1. phase' = [phase EXCEPT ![s] = "save"] /\ std'[s] = std[s] + 1
      BY <1>7, <2>7 DEF SaveStore, Advance, TypeOK
    <3>2. PointedAt(s, 3, 3)'
      BY <1>7, <2>5 DEF SaveStore, PointedAt
    <3>3. (\A n \in StdFd : n < std[s] => IsSaved(saved[n]))'
      BY <2>4, <2>6, <3>1 DEF TypeOK, StdFd
    <3>4. phase'[s] = "save"
      BY <3>1 DEF TypeOK
    <3>5. WindowShape(s)'
      BY <3>2, <3>3, <3>4 DEF WindowShape
    <3> QED BY <2>1, <3>1, <3>5, WindowStep DEF Window
  <2>8. ASSUME std[s] = 2 PROVE Exclusive' /\ Shape' /\ AtRest'
    <3>1. phase' = [phase EXCEPT ![s] = "redirect"] /\ std'[s] = 0
      BY <1>7, <2>8 DEF SaveStore, Advance, TypeOK
    <3>2. PointedAt(s, 0, std[s])'
      BY <1>7, <2>5, <3>1 DEF SaveStore, PointedAt, StdFd
    <3>3. AllSaved'
      BY <2>4, <2>6, <2>8 DEF AllSaved, StdFd
    <3>4. phase'[s] = "redirect"
      BY <3>1 DEF TypeOK
    <3>5. WindowShape(s)'
      BY <3>2, <3>3, <3>4 DEF WindowShape
    <3> QED BY <2>1, <3>1, <3>5, WindowStep DEF Window
  <2>9. Exclusive' /\ Shape' /\ AtRest'
    BY <2>7, <2>8 DEF TypeOK, StdFd
  <2>10. \A t \in Session : /\ Live(t)' <=> Live(t)
                            /\ InWindow(t)' <=> InWindow(t)
    BY <1>7 DEF SaveStore, Advance, TypeOK, Live, InWindow, Window
  <2>11. Holders'
    BY <1>7, <2>10 DEF SaveStore, Serial, Holders
  <2>12. Buffered' /\ OwnerSeesOutput'
    BY <1>7 DEF SaveStore, Advance, Serial, Buffered, OwnerSeesOutput, TypeOK
  <2> QED BY <2>9, <2>11, <2>12 DEF Serial
<1>8. ASSUME NEW s \in Session, Redirect(s) PROVE Serial'
  <2>1. InWindow(s) /\ Live(s) /\ WindowShape(s)
    BY <1>8 DEF Redirect, InWindow, Live, Window, Serial, Shape
  <2>2. fd_conn[s] \in Fd \ StdFd /\ table[fd_conn[s]] = s /\ s # Closed
    BY <2>1, RedirectAssumption DEF ConnOwned
  <2>3. table' = [table EXCEPT ![std[s]] = s]
    BY <1>8, <2>2 DEF Redirect, Dup2
  <2>4. PointedAt(s, 0, std[s]) /\ AllSaved
    BY <1>8, <2>1 DEF Redirect, WindowShape
  <2>5. StdFd \subseteq Fd
    BY RedirectAssumption DEF StdFd, Fd
  <2>6. \A n \in StdFd : table'[n] = IF n <= std[s] THEN s ELSE Console
    BY <2>3, <2>4, <2>5 DEF PointedAt, TypeOK, StdFd
  <2>7. AllSaved'
    BY <1>8, <2>3, <2>4 DEF Redirect, AllSaved, IsSaved, TypeOK
  <2>8. ASSUME std[s] < 2 PROVE Exclusive' /\ Shape' /\ AtRest'
    <3>1. phase' = [phase EXCEPT ![s] = "redirect"] /\ std'[s] = std[s] + 1
      BY <1>8, <2>8 DEF Redirect, Advance, TypeOK
    <3>2. PointedAt(s, 0, std[s])'
      BY <2>6, <3>1 DEF PointedAt, TypeOK, StdFd
    <3>3. phase'[s] = "redirect"
      BY <3>1 DEF TypeOK
    <3>4. WindowShape(s)'
      BY <2>7, <3>2, <3>3 DEF WindowShape
    <3> QED BY <2>1, <3>1, <3>4, WindowStep DEF Window
  <2>9. ASSUME std[s] = 2 PROVE Exclusive' /\ Shape' /\ AtRest'
    <3>1. phase' = [phase EXCEPT ![s] = "exec"] /\ std'[s] = 0
      BY <1>8, <2>9 DEF Redirect, Advance, TypeOK
    <3>2. PointedAt(s, 0, 3)'
      BY <2>6, <2>9 DEF PointedAt, StdFd
    <3>3. phase'[s] = "exec"
      BY <3>1 DEF TypeOK
    <3>4. WindowShape(s)'
      BY <2>7, <3>1, <3>2, <3>3 DEF WindowShape
    <3> QED BY <2>1, <3>1, <3>4, WindowStep DEF Window
  <2>10. Exclusive' /\ Shape' /\ AtRest'
    BY <2>8, <2>9 DEF TypeOK, StdFd
  <2>11. /\ InWindow(s)'
         /\ \A t \in Session : /\ Live(t)' <=> Live(t)
                               /\ InWindow(t)' <=> InWindow(t)
    BY <1>8 DEF Redirect, Advance, TypeOK, Live, InWindow, Window
  <2>12. Holders'
    <3>1. ASSUME NEW t \in Session, NEW g \in Fd, table'[g] = t
          PROVE  \/ Live(t)' /\ g = fd_conn'[t]
                 \/ InWindow(t)' /\ g \in StdFd
      <4>1. \/ table[g] = t
            \/ t = s /\ g \in StdFd
        BY <2>3, <3>1 DEF TypeOK
      <4>2. CASE table[g] = t
        <5>1. \/ Live(t) /\ g = fd_conn[t]
              \/ InWindow(t) /\ g \in StdFd
          BY <4>2 DEF Serial, Holders
        <5>2. fd_conn' = fd_conn
          BY <1>8 DEF Redirect
        <5> QED BY <2>11, <5>1, <5>2
      <4>3. CASE t = s /\ g \in StdFd
        BY <2>11, <4>3
      <4> QED BY <4>1, <4>2, <4>3
    <3> QED BY <3>1 DEF Holders
  <2>13. Buffered' /\ OwnerSeesOutput'
    BY <1>8 DEF Redirect, Advance, Serial, Buffered, OwnerSeesOutput, TypeOK
  <2> QED BY <2>10, <2>12, <2>13 DEF Serial
<1>9. ASSUME NEW s \in Session, TelPrintf(s) PROVE Serial'
  <2>1. InWindow(s) /\ PointedAt(s, 0, 3)
    BY <1>9 DEF TelPrintf, InWindow, Window, Serial, Shape, WindowShape
  <2>2. OwnerSeesOutput'
    BY <1>9, <2>1, EmitToOwner DEF TelPrintf, PointedAt, Serial, Origin, StdFd
  <2> QED BY <1>9, <2>2
          DEF TelPrintf, Serial, Exclusive, Shape, InWindow, WindowShape,
              PointedAt, AllSaved, IsSaved, AtRest, Holders, Live, Buffered
<1>10. ASSUME NEW s \in Session, CallPrintf(s) PROVE Serial'
  <2>1. InWindow(s) /\ PointedAt(s, 0, 3)
    BY <1>10 DEF CallPrintf, InWindow, Window, Serial, Shape, WindowShape
  <2>2. s \in Origin /\ table[1] = s
    BY <2>1 DEF Origin, PointedAt, StdFd
  <2>3. OwnerSeesOutput'
    <3>1. CASE Emit(stdout_buf \cup {s})
      BY <2>2, <3>1, BufferIsOwners, EmitToOwner DEF Serial, TypeOK
    <3>2. CASE UNCHANGED delivered
      BY <3>2 DEF Serial, OwnerSeesOutput
    <3> QED BY <1>10, <3>1, <3>2 DEF CallPrintf, Printf
  <2>4. Buffered'
    BY <1>10 DEF CallPrintf, Printf, Serial, Buffered
  <2> QED BY <1>10, <2>3, <2>4
          DEF CallPrintf, Serial, Exclusive, Shape, InWindow, WindowShape,
              PointedAt, AllSaved, IsSaved, AtRest, Holders, Live
<1>11. ASSUME NEW s \in Session, Flush(s) PROVE Serial'
  <2>1. /\ InWindow(s)
        /\ std[s] = 0 /\ PointedAt(s, 0, 3) /\ AllSaved
    BY <1>11 DEF Flush, InWindow, Window, Serial, Shape, WindowShape
  <2>2. phase'[s] = "load"
    BY <1>11 DEF Flush, TypeOK
  <2>3. WindowShape(s)'
    BY <1>11, <2>1, <2>2 DEF Flush, WindowShape, PointedAt, AllSaved, IsSaved
  <2>4. Exclusive' /\ Shape' /\ AtRest'
    BY <1>11, <2>1, <2>3, WindowStep DEF Flush, Window
  <2>5. \A t \in Session : /\ Live(t)' <=> Live(t)
                           /\ InWindow(t)' <=> InWindow(t)
    BY <1>11 DEF Flush, TypeOK, Live, InWindow, Window
  <2>6. Holders'
    BY <1>11, <2>5 DEF Flush, Serial, Holders
  <2>7. OwnerSeesOutput' /\ Buffered'
    BY <1>11, BufferIsOwners, EmitToOwner DEF Flush, Buffered, Serial, TypeOK
  <2> QED BY <2>4, <2>6, <2>7 DEF Serial
<1>12. ASSUME NEW s \in Session, RestoreLoad(s) PROVE Serial'
  <2>1. InWindow(s) /\ PointedAt(s, std[s], 3) /\ AllSaved
    BY <1>12 DEF RestoreLoad, InWindow, Window, Serial, Shape, WindowShape
  <2>2. phase'[s] = "restore" /\ held'[s] = saved[std[s]]
    BY <1>12 DEF RestoreLoad, TypeOK
  <2>3. WindowShape(s)'
    BY <1>12, <2>1, <2>2
       DEF RestoreLoad, WindowShape, PointedAt, AllSaved, IsSaved, TypeOK
  <2>4. Exclusive' /\ Shape' /\ AtRest'
    BY <1>12, <2>1, <2>3, WindowStep DEF RestoreLoad, Window
  <2>5. \A t \in Session : /\ Live(t)' <=> Live(t)
                           /\ InWindow(t)' <=> InWindow(t)
    BY <1>12 DEF RestoreLoad, TypeOK, Live, InWindow, Window
  <2>6. Holders'
    BY <1>12, <2>5 DEF RestoreLoad, Serial, Holders
  <2>7. OwnerSeesOutput' /\ Buffered'
    BY <1>12 DEF RestoreLoad, Serial, Buffered, OwnerSeesOutput, TypeOK
  <2> QED BY <2>4, <2>6, <2>7 DEF Serial
<1>13. ASSUME NEW s \in Session, Restore(s) PROVE Serial'
  <2>1. InWindow(s) /\ Live(s) /\ WindowShape(s)
    BY <1>13 DEF Restore, InWindow, Live, Window, Serial, Shape
  <2>2. PointedAt(s, std[s], 3) /\ AllSaved /\ IsSaved(held[s])
    BY <1>13, <2>1 DEF Restore, WindowShape
  <2>3. table' = [table EXCEPT ![std[s]] = Console]
    BY <1>13, <2>2 DEF Restore, Dup2, IsSaved, Console, Closed
  <2>4. StdFd \subseteq Fd
    BY RedirectAssumption DEF StdFd, Fd
  <2>5. \A n \in StdFd : table'[n] = IF n <= std[s] THEN Console ELSE s
    BY <2>2, <2>3, <2>4 DEF PointedAt, TypeOK, StdFd
  <2>6. AllSaved'
    BY <1>13, <2>2, <2>3 DEF Restore, AllSaved, IsSaved, TypeOK
  <2>7. \A t \in Session : \A g \in Fd : table'[g] = t => table[g] = t
    BY <2>3, RedirectAssumption DEF TypeOK
  <2>8. \A t \in Session : Live(t)' <=> Live(t)
    BY <1>13 DEF Restore, Advance, TypeOK, Live, Window
  <2>9. Buffered' /\ OwnerSeesOutput'
    BY <1>13 DEF Restore, Advance, Serial, Buffered, OwnerSeesOutput, TypeOK
  <2>10. CASE std[s] < 2
    <3>1. phase' = [phase EXCEPT ![s] = "load"] /\ std'[s] = std[s] + 1
      BY <1>13, <2>10 DEF Restore, Advance, TypeOK
    <3>2. PointedAt(s, std[s], 3)'
      BY <2>5, <3>1 DEF PointedAt, TypeOK, StdFd
    <3>3. phase'[s] = "load"
      BY <3>1 DEF TypeOK
    <3>4. WindowShape(s)'
      BY <2>6, <3>2, <3>3 DEF WindowShape
    <3>5. Exclusive' /\ Shape' /\ AtRest'
      BY <2>1, <3>1, <3>4, WindowStep DEF Window
    <3>6. \A t \in Session : InWindow(t)' <=> InWindow(t)
      BY <2>1, <3>1 DEF TypeOK, InWindow, Window
    <3>7. Holders'
      BY <1>13, <2>7, <2>8, <3>6 DEF Restore, Serial, Holders
    <3> QED BY <2>9, <3>5, <3>7 DEF Serial
  <2>11. CASE std[s] = 2
    <3>1. phase' = [phase EXCEPT ![s] = "idle"]
      BY <1>13, <2>11 DEF Restore, Advance, TypeOK
    <3>2. \A t \in Session : ~InWindow(t)'
      BY <2>1, <3>1 DEF TypeOK, Serial, Exclusive, InWindow, Window
    <3>3. \A n \in StdFd : table'[n] = Console
      BY <2>5, <2>11 DEF StdFd
    <3>4. Holders'
      <4>1. ASSUME NEW t \in Session, NEW g \in Fd, table'[g] = t
            PROVE  Live(t)' /\ g = fd_conn'[t]
        <5>1. table[g] = t /\ g \notin StdFd
          BY <2>7, <3>3, <4>1, RedirectAssumption
        <5> QED BY <1>13, <2>8, <5>1 DEF Restore, Serial, Holders
      <4> QED BY <4>1 DEF Holders
    <3> QED BY <2>9, <3>2, <3>3, <3>4 DEF Serial, Exclusive, Shape, AtRest
  <2> QED BY <2>10, <2>11 DEF TypeOK, StdFd
<1>14. CASE UNCHANGED vars
  BY <1>14
     DEF vars, Serial, Exclusive, Shape, InWindow, WindowShape, PointedAt,
         AllSaved, IsSaved, AtRest, Holders, Live, Buffered, OwnerSeesOutput
<1> QED
  BY <1>1, <1>2, <1>3, <1>4, <1>5, <1>6, <1>7, <1>8, <1>9, <1>10, <1>11,
     <1>12, <1>13, <1>14 DEF Next, RunCommand, SelectTimeout

\* Overlap and exhaustion are never forgotten.
LEMMA UndisturbedBefore == TypeOK /\ [Next]_vars /\ Undisturbed' => Undisturbed
BY DEF Next, RunCommand, SelectTimeout, vars, Undisturbed, TypeOK, Accept,
       AcceptFails, StartShell, EnterCommand, SaveDup, SaveStore, Redirect,
       TelPrintf, CallPrintf, Flush, RestoreLoad, Restore, Quit

LEMMA IInvariant == Spec => []IInv
<1>1. Init => IInv
  BY InitOwnership, InitSerial DEF IInv, SerialInv
<1>2. IInv /\ [Next]_vars => IInv'
  <2> SUFFICES ASSUME IInv, [Next]_vars PROVE IInv'
    OBVIOUS
  <2>1. Ownership'
    BY NextOwnership DEF IInv
  <2>2. ASSUME Undisturbed' PROVE Serial'
    <3>1. Undisturbed
      BY <2>2, UndisturbedBefore DEF IInv, Ownership
    <3> QED BY <2>1, <2>2, <3>1, NextSerial DEF IInv, SerialInv
  <2> QED BY <2>1, <2>2 DEF IInv, SerialInv
<1> QED BY <1>1, <1>2, PTL DEF Spec

\* A command's output reaches its own session's connection, and no other, as
\* long as commands have not overlapped and descriptors have not run out.
THEOREM OutputReachesOwner == Spec => []OutputToOwner
<1>1. IInv => OutputToOwner
  BY DEF IInv, SerialInv, Serial, OutputToOwner, OwnerSeesOutput
<1> QED BY <1>1, IInvariant, PTL

\* Under the same condition the process has its own 0, 1 and 2 between commands.
THEOREM ConsoleKept == Spec => []ConsoleRestored
<1>1. IInv => ConsoleRestored
  BY DEF IInv, SerialInv, Serial, ConsoleRestored, AtRest
<1> QED BY <1>1, IInvariant, PTL

\* Under the same condition no descriptor outlives the quit of its session.
THEOREM QuitIsComplete == Spec => []QuitReleases
<1>1. IInv => QuitReleases
  BY DEF IInv, SerialInv, Serial, QuitReleases, Holders, Live, InWindow, Window
<1> QED BY <1>1, IInvariant, PTL

=============================================================================
