----------------------------- MODULE RedirectIO -----------------------------
(***************************************************************************)
(* The process's descriptor table, as the telnet server and its session    *)
(* threads use it.  Every session thread runs a command between            *)
(* save_ori_io and restore_ori_io (telnet_redirect_io.c): it duplicates    *)
(* descriptors 0, 1 and 2 into three GLOBAL variables, points 0, 1 and 2   *)
(* at its own connection, executes, and points them back at what the       *)
(* globals name.  No lock is taken, and the duplicates are never closed.   *)
(*                                                                         *)
(* Each system call, each access to a global and each write is one step;   *)
(* the steps of different threads interleave.  A descriptor that one call  *)
(* opens and closes again (the log's file, an ELF file) is left out, as is *)
(* what a called function may do with descriptors of its own accord.       *)
(***************************************************************************)
EXTENDS Integers

CONSTANTS
  Session,  \* connections; each one is served by a shell thread of its own
  FdLimit   \* size of the process's descriptor table (RLIMIT_NOFILE)

Console  == "console"    \* what 0, 1 and 2 are when main() starts
Maps     == "maps"       \* /proc/<pid>/maps: get_maps_so_list leaves it open
Listener == "listener"   \* the listening socket of telnet_ser
Closed   == "closed"     \* no open file in this slot
Server   == "server"     \* the accept thread, as an origin of output

File   == {Console, Maps, Listener} \cup Session
Origin == {Server} \cup Session
Fd     == 0 .. FdLimit - 1
StdFd  == 0 .. 2
NoFd   == -1             \* the -1 a failed dup() returns

\* A session (its socket, and its thread as an origin of output) is none of
\* the files the process starts with; main() has used descriptors 0 to 4
\* before the first connection arrives.
ASSUME RedirectAssumption ==
  /\ FdLimit \in Nat /\ FdLimit > 4
  /\ Session \cap {Console, Maps, Listener, Closed, Server} = {}

VARIABLES
  table,       \* descriptor -> open file
  saved,       \* g_ori_std_input, g_ori_std_output, g_ori_std_err
  held,        \* the register of each thread between a call and its use
  fd_conn,     \* tel_mgr->fd_conn of each session
  phase,       \* where each session is
  std,         \* which of 0, 1, 2 the thread is working on
  stdout_buf,  \* origins of the characters in the stdio buffer of stdout
  delivered,   \* file -> origins of the output that was written to it
  overlapped,  \* history: two threads have been between save and restore at once
  starved      \* history: a dup or an accept has found the table full

vars == <<table, saved, held, fd_conn, phase, std, stdout_buf, delivered,
          overlapped, starved>>

Window == {"save", "store", "redirect", "exec", "load", "restore"}
Phase  == {"new", "accepted", "idle", "closed"} \cup Window

InWindow(s) == phase[s] \in Window
Live(s)     == phase[s] \in {"accepted", "idle"} \cup Window

TypeOK ==
  /\ table \in [Fd -> File \cup {Closed}]
  /\ saved \in [StdFd -> Fd \cup {NoFd}]
  /\ held \in [Session -> Fd \cup {NoFd}]
  /\ fd_conn \in [Session -> Fd \cup {NoFd}]
  /\ phase \in [Session -> Phase]
  /\ std \in [Session -> StdFd]
  /\ stdout_buf \in SUBSET Origin
  /\ delivered \in [File -> SUBSET Origin]
  /\ overlapped \in BOOLEAN
  /\ starved \in BOOLEAN

Init ==
  /\ table = [fd \in Fd |-> IF fd \in StdFd THEN Console
                           ELSE IF fd = 3 THEN Maps
                           ELSE IF fd = 4 THEN Listener ELSE Closed]
  /\ saved = [n \in StdFd |-> 0]
  /\ held = [s \in Session |-> NoFd]
  /\ fd_conn = [s \in Session |-> NoFd]
  /\ phase = [s \in Session |-> "new"]
  /\ std = [s \in Session |-> 0]
  /\ stdout_buf = {}
  /\ delivered = [f \in File |-> {}]
  /\ overlapped = FALSE
  /\ starved = FALSE

-----------------------------------------------------------------------------
(* The kernel's side *)

Free == {fd \in Fd : table[fd] = Closed}

\* A new descriptor is the lowest free one.
Lowest(fd) == fd \in Free /\ \A g \in Free : fd <= g

\* dup2(src, dst): fails, and changes nothing, when src is not open.
Dup2(src, dst) ==
  IF src \in Fd /\ table[src] # Closed
  THEN table' = [table EXCEPT ![dst] = table[src]]
  ELSE UNCHANGED table

-----------------------------------------------------------------------------
(* Output *)

\* Characters of these origins are written to whatever descriptor 1 is now.
Emit(origins) ==
  delivered' = [delivered EXCEPT ![table[1]] = @ \cup origins]

\* printf: stdout keeps the characters in its buffer, or (a line-buffered
\* stdout, a full buffer) writes the buffer out with them.
Printf(o) ==
  \/ /\ stdout_buf' = stdout_buf \cup {o}
     /\ UNCHANGED delivered
  \/ /\ Emit(stdout_buf \cup {o})
     /\ stdout_buf' = {}

-----------------------------------------------------------------------------
(* The accept thread *)

\* telnet_ser: accept() a connection.  One thread accepts, and it runs
\* process_thread and make_new_session before it accepts again.
Accept(s) ==
  /\ phase[s] = "new"
  /\ \A t \in Session : phase[t] # "accepted"
  /\ \E fd \in Fd :
       /\ Lowest(fd)
       /\ table' = [table EXCEPT ![fd] = s]
       /\ fd_conn' = [fd_conn EXCEPT ![s] = fd]
  /\ phase' = [phase EXCEPT ![s] = "accepted"]
  /\ UNCHANGED <<saved, held, std, stdout_buf, delivered, overlapped, starved>>

\* accept() fails: the connection stays in the backlog.  The code goes on to
\* start a session thread on descriptor -1 all the same, with the printf that
\* belongs to it; that thread can neither read a command nor write.
AcceptFails(s) ==
  /\ phase[s] = "new"
  /\ \A t \in Session : phase[t] # "accepted"
  /\ Free = {}
  /\ starved' = TRUE
  /\ Printf(Server)
  /\ UNCHANGED <<table, saved, held, fd_conn, phase, std, overlapped>>

\* make_new_session: printf("create  shell thread! ..."), pthread_create.
StartShell(s) ==
  /\ phase[s] = "accepted"
  /\ Printf(Server)
  /\ phase' = [phase EXCEPT ![s] = "idle"]
  /\ UNCHANGED <<table, saved, held, fd_conn, std, overlapped, starved>>

-----------------------------------------------------------------------------
(* A session thread running a command *)

\* A mutant: one descriptor too many.
AdvanceTooFar(s, again, after) ==
  IF std[s] < 3
  THEN /\ std' = [std EXCEPT ![s] = @ + 1]
       /\ phase' = [phase EXCEPT ![s] = again]
  ELSE /\ std' = [std EXCEPT ![s] = 0]
       /\ phase' = [phase EXCEPT ![s] = after]

\* The thread leaves work on descriptor std[s]: on to the next one, or, after
\* the third, to the phase that follows.
Advance(s, again, after) ==
  IF std[s] < 2
  THEN /\ std' = [std EXCEPT ![s] = @ + 1]
       /\ phase' = [phase EXCEPT ![s] = again]
  ELSE /\ std' = [std EXCEPT ![s] = 0]
       /\ phase' = [phase EXCEPT ![s] = after]

\* Enter on a line that is neither empty, quit nor exit: into save_ori_io.
EnterCommand(s) ==
  /\ phase[s] = "idle"
  /\ phase' = [phase EXCEPT ![s] = "save"]
  /\ std' = [std EXCEPT ![s] = 0]
  /\ overlapped' = (overlapped \/ \E t \in Session \ {s} : InWindow(t))
  /\ UNCHANGED <<table, saved, held, fd_conn, stdout_buf, delivered, starved>>

\* save_ori_io: dup(n) ...
SaveDup(s) ==
  /\ phase[s] = "save"
  /\ \/ \E fd \in Fd :
          /\ Lowest(fd)
          /\ table' = [table EXCEPT ![fd] = table[std[s]]]
          /\ held' = [held EXCEPT ![s] = fd]
          /\ UNCHANGED starved
     \/ /\ Free = {}
        /\ held' = [held EXCEPT ![s] = NoFd]
        /\ starved' = TRUE
        /\ UNCHANGED table
  /\ phase' = [phase EXCEPT ![s] = "store"]
  /\ UNCHANGED <<saved, fd_conn, std, stdout_buf, delivered, overlapped>>

\* ... and the assignment of what it returned to the global.
SaveStore(s) ==
  /\ phase[s] = "store"
  /\ saved' = [saved EXCEPT ![std[s]] = held[s]]
  /\ Advance(s, "save", "redirect")
  /\ UNCHANGED <<table, held, fd_conn, stdout_buf, delivered, overlapped,
                 starved>>

\* A mutant: the arguments of dup2 the other way round.
RedirectSwapped(s) ==
  /\ phase[s] = "redirect"
  /\ Dup2(std[s], fd_conn[s])
  /\ Advance(s, "redirect", "exec")
  /\ UNCHANGED <<saved, held, fd_conn, stdout_buf, delivered, overlapped,
                 starved>>

\* redirect_io: dup2(tel_mgr->fd_conn, n).
Redirect(s) ==
  /\ phase[s] = "redirect"
  /\ Dup2(fd_conn[s], std[s])
  /\ Advance(s, "redirect", "exec")
  /\ UNCHANGED <<saved, held, fd_conn, stdout_buf, delivered, overlapped,
                 starved>>

\* proccess_cmd: tel_printf of the called function, or of the result, writes
\* to descriptor 1 at once.
TelPrintf(s) ==
  /\ phase[s] = "exec"
  /\ Emit({s})
  /\ UNCHANGED <<table, saved, held, fd_conn, phase, std, stdout_buf,
                 overlapped, starved>>

\* The called function uses printf.
CallPrintf(s) ==
  /\ phase[s] = "exec"
  /\ Printf(s)
  /\ UNCHANGED <<table, saved, held, fd_conn, phase, std, overlapped, starved>>

\* A mutant: without fflush.
FlushForgotten(s) ==
  /\ phase[s] = "exec"
  /\ phase' = [phase EXCEPT ![s] = "load"]
  /\ UNCHANGED <<table, saved, held, fd_conn, std, stdout_buf, delivered,
                 overlapped, starved>>

\* The function has returned: fflush(stdout), the last act of proccess_cmd.
Flush(s) ==
  /\ phase[s] = "exec"
  /\ Emit(stdout_buf)
  /\ stdout_buf' = {}
  /\ phase' = [phase EXCEPT ![s] = "load"]
  /\ UNCHANGED <<table, saved, held, fd_conn, std, overlapped, starved>>

\* restore_ori_io: read the global ...
RestoreLoad(s) ==
  /\ phase[s] = "load"
  /\ held' = [held EXCEPT ![s] = saved[std[s]]]
  /\ phase' = [phase EXCEPT ![s] = "restore"]
  /\ UNCHANGED <<table, saved, fd_conn, std, stdout_buf, delivered, overlapped,
                 starved>>

\* Mutants: without dup2, and with the close() that save_ori_io seems to lack.
RestoreForgotten(s) ==
  /\ phase[s] = "restore"
  /\ Advance(s, "load", "idle")
  /\ UNCHANGED <<table, saved, held, fd_conn, stdout_buf, delivered, overlapped,
                 starved>>

RestoreAndClose(s) ==
  /\ phase[s] = "restore"
  /\ held[s] # NoFd
  /\ table' = [table EXCEPT ![std[s]] = table[held[s]], ![held[s]] = Closed]
  /\ Advance(s, "load", "idle")
  /\ UNCHANGED <<saved, held, fd_conn, stdout_buf, delivered, overlapped,
                 starved>>

\* ... and dup2(global, n).
Restore(s) ==
  /\ phase[s] = "restore"
  /\ Dup2(held[s], std[s])
  /\ Advance(s, "load", "idle")
  /\ UNCHANGED <<saved, held, fd_conn, stdout_buf, delivered, overlapped,
                 starved>>

\* A mutant: without close().
QuitWithoutClose(s) ==
  /\ phase[s] = "idle"
  /\ phase' = [phase EXCEPT ![s] = "closed"]
  /\ UNCHANGED <<table, saved, held, fd_conn, std, stdout_buf, delivered,
                 overlapped, starved>>

\* Enter on quit or exit: close(tel_mgr->fd_conn), and the thread returns.
Quit(s) ==
  /\ phase[s] = "idle"
  /\ table' = [table EXCEPT ![fd_conn[s]] = Closed]
  /\ phase' = [phase EXCEPT ![s] = "closed"]
  /\ UNCHANGED <<saved, held, fd_conn, std, stdout_buf, delivered, overlapped,
                 starved>>

\* telnet_ser: select() timed out, or accept has nothing to do.
SelectTimeout == UNCHANGED vars

-----------------------------------------------------------------------------
\* The steps a thread takes on its own once a command is entered.
RunCommand(s) ==
  \/ SaveDup(s) \/ SaveStore(s) \/ Redirect(s) \/ Flush(s)
  \/ RestoreLoad(s) \/ Restore(s)

Next ==
  \/ \E s \in Session :
       \/ Accept(s) \/ AcceptFails(s) \/ StartShell(s)
       \/ EnterCommand(s) \/ Quit(s)
       \/ RunCommand(s) \/ TelPrintf(s) \/ CallPrintf(s)
  \/ SelectTimeout

\* The scheduler runs every thread, and called functions return.  Nothing
\* obliges a client to connect, to enter a command or to quit.
Fairness == \A s \in Session : WF_vars(RunCommand(s))

Spec == Init /\ [][Next]_vars
FairSpec == Spec /\ Fairness

-----------------------------------------------------------------------------
(* Properties *)

\* Whatever the threads do to each other's saved descriptors, the descriptor
\* in a live session's TELNET_MGR names that session's own socket, outside
\* 0..2, so its prompt, its echo and its close() never touch another session;
\* and the listener stays where it was.  The dup2 calls aim at 0..2 and only
\* quit closes, which is what keeps a stale g_ori_std_* harmless here.
ConnOwned ==
  /\ \A s \in Session : Live(s) => /\ fd_conn[s] \in Fd \ StdFd
                                   /\ table[fd_conn[s]] = s
  /\ table[4] = Listener

\* A descriptor is released by the quit of the session it belongs to and by
\* nothing else: no thread ever closes what another thread may still use,
\* at the price that what save_ori_io duplicates is never released.
OnlyOwnerCloses ==
  [][\A fd \in Fd : table[fd] # Closed /\ table'[fd] = Closed =>
       \E s \in Session : /\ fd = fd_conn[s]
                          /\ table[fd] = s
                          /\ phase'[s] = "closed"]_vars

\* No two commands' windows have overlapped, and no descriptor was refused.
Undisturbed == ~overlapped /\ ~starved

\* While commands do not overlap and the table does not fill up, what a
\* session's command prints, directly or through the buffer of stdout, goes
\* to that session's connection and nowhere else.
OutputToOwner ==
  Undisturbed =>
    \A f \in File : \A s \in delivered[f] \cap Session : f = s

\* Likewise, whenever no command is running the process has its own standard
\* descriptors back.
ConsoleRestored ==
  Undisturbed /\ (\A s \in Session : ~InWindow(s)) =>
    \A n \in StdFd : table[n] = Console

\* Likewise, quit ends the connection: no descriptor is left on its socket
\* that would keep it open behind the client's back.
QuitReleases ==
  Undisturbed =>
    \A s \in Session : phase[s] = "closed" => \A fd \in Fd : table[fd] # s

\* Once a command has redirected standard output, the process gets it back,
\* unless commands overlapped or the descriptors ran out.
ConsoleComesBack ==
  (\E s \in Session : table[1] = s)
    ~> (table[1] = Console \/ ~Undisturbed)

\* README.md:30: a command's prints and its return value are output in the
\* shell it was entered in.  (Does not hold when two sessions run commands.)
OwnerSeesOutput ==
  \A f \in File : \A s \in delivered[f] \cap Session : f = s

=============================================================================
