# A model of the telnet debug server

The program is a telnet server that a process carries with it for debugging:
a client connects to port 19000, gets a shell, and enters the name of a global
variable or a call of a function of the process, which is looked up in the
symbol tables of the loaded files and executed; what it prints goes to the
client. The code is C (`src/src`, `src/inc`), one thread per connection, no
locks. This directory holds TLA+ modules for the parts of it in which state,
order and threads decide whether it works, TLC configurations that check them
on small instances, and proofs.

Line numbers below are those of `src/src/<file>` unless a path is given.

## 1. Inventory

| Part | State it keeps | Operations | Interacts with |
|---|---|---|---|
| Server loop (`telnet_server.c:38-110`, `main.c`) | listening socket | accept, start a session thread (182-247) | session threads, log |
| Session shell (`telnet_server.c:332-538`) | `cmd_buf`, and in `TELNET_MGR` the cursor offset, the last command, the history and its index, the connection | one turn of the loop per `read()`; `keyboard_*`, `insert_char`, `update_history_cmd` (541-677) | the client's terminal, redirection, command execution |
| Redirection (`telnet_redirect_io.c`) | three globals; descriptors 0, 1, 2 of the process; the buffer of `stdout` | `save_ori_io`, `redirect_io`, `restore_ori_io`, `tel_printf` | every session thread |
| Command execution (`telnet_excute.c`) | none | parse a call, call it, show a variable | symbol lookup, redirection |
| Symbol lookup (`telnet_getsymbol_addr.c`) | list of the mapped files, made once at the start | read `/proc/<pid>/maps`, find an address | ELF reader, linked list, and the process, which loads and unloads libraries meanwhile |
| ELF reader (`telnet_elfdetails.c`) | none beyond a call | read the symbols of a file | symbol lookup |
| Log writer (`log.c:133-446`) | the place each file has got to, in the registry's node; files | `tel_write_log` | every thread |
| Log registry (`log.c:14-129`) | a list and a count | register, search | log writer, linked list |
| Linked list (`sll_linklist.c`) | head, tail, next pointers | insert, look up, remove, destroy | registry, symbol lookup |
| Reliable reads and writes, negotiation (`telnet_server.c:113-178`, 212-247) | none | loop until all is written or read; send five options to a new client | connections |

What is hard in this code, and hard to test:

* **Threads.** Descriptors 0, 1 and 2, the three globals that save them, the
  buffer of `stdout`, the log's places and the registry are shared by all
  session threads, and nothing is locked. What goes wrong depends on where
  between two system calls another thread runs.
* **Long sequences of legal keys.** The editor keeps its line, its cursor and
  its history by deltas, in arrays of fixed size, with unsigned arithmetic; the
  client's terminal is kept by deltas, too, and is never compared with it.
* **What a `read()` returns.** Keys are recognised at the head of a chunk, and
  the network decides what is in a chunk. It may fail, begin with a zero byte,
  or fill the array and leave no terminator.
* **Limits.** The descriptor table, the line, the history, the log file.
* **Restarts.** The log's files outlive the process, their places do not.
* **What is stale.** The map of the process is read once, the files in it at
  every search; the process and its files go on changing.
* **Width and sign.** Results of system calls are unsigned, so that no error is
  ever below zero, and -1 is a number of bytes or of symbols like any other.

`PROJECT.json` lists each hazard at its line with the properties about it.

What makes each part correct:

* Redirection: a command's output goes to the session it was entered in; the
  process gets its own descriptors back; a connection is closed when its
  session quits, and by nobody else; no session's descriptor is ever replaced.
* Editor: the line entered is the line the keys have made; the cursor is in the
  line; no step leaves its array. Screen: the row shows that line.
* Log: a file is limited in size and has no holes, whoever writes and whenever
  the process is restarted.
* Registry: a registered module is found, and is registered once; a search
  beside a registration stays inside the list.
* Lookup: the address given for a name is that of a definition of it, and a
  definition there is gets found. Calls: the arguments passed are those typed,
  and nothing well-formed is refused.
* Connection: what is written arrives whole and once, and every command ends in
  the next prompt.
* List: a walk ends, in allocated nodes that are in the list; what is freed is
  what was removed.

## 2. Modules

| Module | What it is |
|---|---|
| `RedirectIO` | the descriptor table and the threads of the sessions |
| `GapBuffer` | abstract: what a line editor is |
| `LineEditor` | the editor of one session; implements `GapBuffer` |
| `EditorScreen` | `LineEditor` and the client's terminal |
| `TelLog` | the writers of one module's log |
| `LinkList` | the operations of the list, as functions |
| `NodeSeq` | abstract: a sequence of nodes |
| `LinkListClient` | a program that uses one list; implements `NodeSeq` |
| `LogRegistry` | the registrar and a searcher; uses `LinkList` |
| `ElfReader` | what is read from a file, and what is in it |
| `SymbolMap` | the list of mapped files and the search, beside the process |
| `CallArgs` | the arguments of a call, cut out of the line in place |
| `ReliableIO` | the write loop, with integers of their width |
| `Command` | a session from the negotiation through its commands; composes the last four |
| `RedirectIOProofs`, `LineEditorProofs`, `TelLogProofs`, `LinkListClientProofs`, `LogRegistryProofs`, `CommandProofs` | the theorems about each, and their proofs |
| `LinkListProofs` | what each operation of `LinkList` does to a list that is a sequence of nodes; used by the last but one and its client |
| `DataLemmas` | induction and iteration over the natural numbers, minima, ranks, sequences cut in two: what the proofs share |
| `MC*` | the same for TLC: symmetry, views, input sets, bounds |

Definitions called "a mutant" are never used by a specification; each is a
plausible slip in the definition that follows it, and shows that a property
would notice.

### RedirectIO

`table` is the descriptor table (descriptor to open file), `saved` the three
globals, `fd_conn` the field of each `TELNET_MGR`, `held` the value a thread
has between `dup` and the assignment, or between the load of a global and
`dup2`. `phase` and `std` are the thread's program counter: `save_ori_io` is
six steps (`SaveDup`, `SaveStore` for each of 0, 1, 2), `redirect_io` three
(`Redirect`), `restore_ori_io` six (`RestoreLoad`, `Restore`). Between them the
command runs: it prints through `tel_printf` (`TelPrintf`, written at once) or
through `printf` (`CallPrintf`, kept in `stdout_buf` until the buffer goes
out), and ends with the `fflush` of `proccess_cmd` (`Flush`). `Accept`,
`AcceptFails`, `StartShell` are the accept thread, `Quit` the commands quit and
exit. Output is its origin: who printed, never what. `overlapped` and `starved`
are history variables: has a second command been started while one was being
run, has `dup` or `accept` found the table full. Neither goes back to FALSE.

Left out: descriptors that are opened and closed within a call (log and ELF
files; they make the table fuller for a moment), and what a called function
does to descriptors. The session thread on descriptor -1 after a failed accept
is not followed.

### LineEditor, GapBuffer

A state is the state between two turns of the loop; an action is a whole turn,
selected by the head of the chunk as in the code, after `telnetd_remove_iac`
(`RemoveIac`: since `char` is signed no byte compares equal to `IAC`, so all it
does is to drop the `\n` of `\r\n`, and the old tail of the chunk stays).
`cmd_buf` is the C string in the array, `stale` what the array holds behind its
terminator, zeros at the end left out. A step outside an array, or with a
wrapped offset, ends in status `"undefined"` (`GoesWrong`) and the session is
not followed further.

A `read()` returns any bytes (`Chunks`), up to all the array holds. One that
fails is `<<>>`: `ret` is unsigned, the test of 359 never holds, and the turn
goes on with a `cmd_line` that was cleared, as if Ctrl-@ had been typed. With the
cursor inside the line the zero is inserted there (520-523), by `insert_char`,
which writes no terminator: the line ends at the cursor, its right part is
`stale`, and the cursor is beyond the start of what is left. A later insertion
takes the byte over the terminator's place, and what is stale is in the line
again (`Inserted`). A read that fills the array leaves no terminator for the
`strlen` of 365 (`Overread`).

`strained` remembers what a session has done that the editor does not get over:
a line dropped from under the cursor ("abandoned", Ctrl-C or Ctrl-L with the
cursor inside the line), a line cut there by a zero ("cut"), a line that is too
long for `keyboard_move_up` ("overlong"), a read of a whole array
("unterminated"). At the end of the connection `read()` returns 0 for ever;
`ReadEof` is that turn.

`GapBuffer` is what a user expects: text left and right of a cursor. In the
refinement the line is cut at `len - move_left_num`; a paste is typed at once; a
recall is any line entered before, or the empty line. A carriage return inside a
chunk gets into the line like any other byte (after `telnetd_remove_iac` only
the head of a chunk is looked at); a line that begins with one, which an editor
of lines would not have, is neither run nor cleared by Enter but remembered
(`g_cmd`), and a history key brings it back: so `GapBuffer` has `Keep`, the Enter
that leaves such a line where it is, and counts it among those entered.
`GapBuffer` promises nothing once the session is strained or the history full:
the session is then `"outside"`, one state that is never left (`GoOutside`), and
everything up to there is shown to be the gap buffer. Inside, an undefined step
is no step of it.

### EditorScreen

Adds `terminal`: the cells of the row and the column of the cursor, and to each
turn the output it sends, interpreted by an ANSI terminal (`Put`, `Left`,
`ClearLeft` and so on are the terminal's side). Rows above the prompt and the
wrapping of long lines are left out, and the terminal is one on which every byte
that is no control fills one cell (ISO 8859, not UTF-8).

The editor knows four sequences, the arrows; Home, End, Delete, the function
keys, a lone Esc, a line feed and most of Ctrl with a letter are text to it, which
it keeps in the line and echoes (518-534). What they do to the terminal is not
followed in detail: a control that is echoed takes the cursor `Off` the row, until
the next prompt on a row of its own; after an Esc, which begins a sequence with
whatever is sent next, the terminal is `Lost` for good.

### TelLog

Each thread goes through `tel_write_log` in ten steps: open, `access`, seek,
compare, wrap, load and store for either `+=`, close, which is when the
buffered bytes go out. A file is its size. `Restart` may come at any step: the
places start at 0, the files stay. `Remove` may, too, as by a rotation of logs:
before `access` the entry is given up, between `access` and `stat` the FILE is
closed twice, which ends the process (`StatFails`), and later the entry goes to
the removed file (`orphan`). The place stays where it was (`removed`), so that
the next file starts with a hole; it is gone at the next wrap. `overlapped` as
above. A message longer than the buffer is left out.

### LinkList, LinkListClient, NodeSeq, LogRegistry

`LinkList` has one function per operation of `sll_linklist.c`, on a record of
head, tail and next; `Junk` is what an uninitialised `next` holds. Where the
code would follow NULL is an operator of its own (`GetIndexCrashes`,
`TailRemoveCrashes`). `LinkListClient` calls them in any order and owns the
nodes; assertions and NULL end the program. `LogRegistry` is a registrar thread
(search, link, count) beside a logger (search); the walk of one
`sll_link_list_get_index` is one step, for the list only grows at its end.

### ElfReader, SymbolMap

A file is its image: the sections in the order of their headers, a symbol table
with its entries and the string table it is linked to. `Loads` is the rule of
`exe_load_section_headers`: a string table that follows a symbol table loads it.
`LastLoad` is what the `memset` of `exe_load_symbol_table` (179) leaves: the
symbols that were loaded last, whatever was loaded before. A file that is
missing or of no known machine is `NoImage`: every error is compared with an
unsigned below zero, and ends as no symbols. `Tables`, `Defines`, `Imports`
say what the file holds, for the properties.

`Maps` is the file `/proc/<pid>/maps`: the lines of all mapped files and of what
else there is (`Lines`), each at its rank by address. `MapAssumption` says of
them what the loader and the kernel see to: no two lines begin at one address,
the lowest line of a file carries its path, and no file lies between two lines
of another one. `disk` is the file at each path now, `image` the one that is
mapped, `so_list` the list built by `GetMapsSoList`, a loop over the lines of the
map with the join at the tail of the list. `node` is where `ld_find_address` has got to; each
file it reads is a step (`Pass`, `Find`), between which the process loads,
unloads and replaces libraries (`Dlopen`, `Dlclose`, `Replace`). `altered`
remembers which. Assumed: a value is an offset below any mapping's start, or
the file is mapped where it says (`absolute`); an import has value 0, a
definition another; the lines of a file not yet replaced are where `Layout` has
them, also when it is loaded again.

### CallArgs, ReliableIO, Command

`buf` is the text between the parentheses, in which the parser replaces closing
quotes by terminators; a string argument is a place in it, so that what the
called function reads (`Passed`) depends on every later cut. `Typed` says
independently, by the commas outside quotes, what was typed.

`ReliableIO` counts in integers of `Word` values. A write takes some bytes, is
interrupted, or is refused (on descriptor -1 after a failed `accept`); the last
two are the same -1, added to `finished` and taken from `left`. `sent` is the
numbers of the bytes the connection has got.

`Command` is one session: the negotiation and the greeting (`Negotiated`), the
prompt (`Prompted`), a line (`Enter`), the search (`Walk`, `Found`, `Unknown`),
the arguments (`Parse`), the call or the display (`Call`, `GiveUp`), and again
the prompt. A session that calls an address which is no definition, or writes
from one far behind its buffer, may go on or be `"lost"`. Sessions share only
the list of files, which nobody changes; what they do to each other's output is
in `RedirectIO`, and what they enter is in `LineEditor`.

## 3. Runs

| Run | Shows | Bounds |
|---|---|---|
| `redirect_threads` | `ConnOwned`, `OnlyOwnerCloses` for any interleaving; `OutputToOwner`, `ConsoleRestored`, `QuitReleases` as long as commands take turns and descriptors last | two sessions, 13 descriptors: five at the start, two connections, the duplicates of two commands; the third command of a history finds the table full |
| `redirect_returns` | `ConsoleComesBack` | two sessions, followed as long as `Undisturbed`; a behaviour that leaves it leaves it for good and satisfies the property |
| `redirect_readme` | violates `OwnerSeesOutput` | as the first |
| `editor_session` | `TypeOK`, `CursorInLine`, `DefinedUnlessStrained`, `ImplementsLine`, `RowKeptByTurns` | all keys; reads of several bytes (pastes, keys that arrive together, a negotiation reply), one that fills the array, one that fails; Ctrl-@, Home, Ctrl-J and another control; lines of up to three bytes with a middle, of one letter up to the end of an array of six, and with another byte until it heads a line that is kept and brought back; two bytes stale behind a line of two; a history of two that fills up; rows that have gone wrong are followed while they are short |
| `editor_readme` | violates `EditingIsDefined` | four keys |
| `log_turns` | `TypeOK`, `LimitedInTurn`, `NoHoleInTurn` | two threads, two files that may be removed at any step, a limit that entries of four lengths hit, miss and pass |
| `log_readme` | violates `LimitedAlways` | one file, entries of one length |
| `list_client` | `TypeOK`, `WalkIsSafe`, `ImplementsSeq` | four nodes, each put in once at most: a list with a middle, and places beyond its end |
| `registry_threads` | `TypeOK`, `NeverWalksOff`, `CountedIsLinked`, `FirstIsFound`, `TwoAreServed` | four nodes, three modules, batches of two |
| `registry_readme` | violates `RegisteredIsFound` | as the last, batches of three |
| `commands` | `TypeOK`, `AnswerIsDefinition`, `DefinitionIsFound`, `CalledAsTyped`, `WellFormedIsCalled`, `NothingLost`, `PromptComesBack` | an executable and two libraries, one loaded at the start; four ways they may be (relocatable or fixed, importing, linked otherwise, with a symbol table that lacks the name); a map with bss, heap, a gap and a data file; two loads, unloads or upgrades at any step; some forty commands, with up to three arguments for two places, well-formed or with each kind of fault; writes of three bytes, two interruptions each, integers of eight values |
| `commands_readme` | violates `FunctionIsCalled` | one process that does not change, one call |

`CHECK_DEADLOCK FALSE` is given where the program really stops: a session ends,
a program aborts, crashes or is lost, a session on descriptor -1 reads nothing. `RedirectIO` never does (`SelectTimeout`), nor
does `TelLog` (`Restart`).

Views drop what decides neither a step nor a property of the run: the lines
already entered in the editor and what was read last, the cells of a row that
is wrong, and the output once commands have overlapped. No constraint or view
is used with a liveness property, but for the one of `redirect_returns`.
Symmetry is used for sessions, writers and nodes, which nothing orders, and not
with a liveness property.

### What the code does otherwise than its documents say

* `src/README.md:30`, a command's output is shown in the shell:
  `OwnerSeesOutput` fails as soon as two sessions run commands at once.
* `src/README.md:35`, backspace and insertion: `EditingIsDefined` fails after
  cursor left, Ctrl-C, one letter, backspace; the offset of the dropped line
  is still there, and the `memmove` begins before the array.
* `src/README.md:38` and `log.c:157`, the log limits its files:
  `LimitedAlways` fails when two threads log. A thread seeks to the place (251)
  and reads it again to compare it with the limit (252). In the run, one thread
  is about to wrap; the other brings the place to 9 and seeks there with its next
  entry; the first sets the place to 0 (256); the other finds 0 below the limit,
  does not rewind, and writes at 9. A place that a lost wrap merely leaves high
  does no harm by itself: the next comparison wraps it.
* `src/README.md:38`, many modules register: `RegisteredIsFound` fails with
  three; `sll_link_list_get_index` (142-160) skips the second.
* `src/README.md:30`, a function is executed: `FunctionIsCalled` fails for a
  function that the executable imports. `get_sym_addr` takes the first symbol of
  the name, and the executable, first in the list, has it with value 0: its own
  first byte is called.

Met while modelling, not run:

* `src/README.md:31` says that the value of a variable is shown; what is shown
  is its address a second time (`telnet_excute.c:141,143`), as in the example of
  `src/README.md:27`.
* The comment of `telnet_elfdetails.c:167-169` keeps the symbols of another
  section, the `memset` of 179 clears them: of a file with dynamic and other
  symbols only the table before the last string table is known. `KnownToLast`
  in the properties is that condition.
* The comment of `telnet_getsymbol_addr.c:75` says that the address is made
  sure to be in the file's range; the branch below it looks at the start only.
* A variable in the part of bss that has no line of its own in the map is not
  found, its address being behind the end of the node.
* After a failed `accept` each write on descriptor -1 is repeated until the sum
  of -1's wraps, some 4 294 967 000 calls; the accept thread does five of them
  before it accepts again.
* An interrupted write sends a byte twice (`NothingLost` counts them), or, when
  it is the first, leaves the buffer (`LosesItself`).
* `f(1, 2)`, with a space, is refused as invalid syntax.

* A read that fails, or Ctrl-@, with the cursor inside the line cuts the line
  (`InsertChar`, "cut"), and after it the arithmetic of a backspace may wrap as
  after Ctrl-C.

On the screen, the condition `Handled` of `RowKeptByTurns` names the turns that
keep the row right. Not so: a history key inside the line, or with nothing to
show (the line in memory is replaced, the screen is not); help with a line begun;
Ctrl-C and Ctrl-L inside the line; a byte from 128 on or a zero inside the line
(one move to the left too many, 524); any byte inside the line while bytes are
stale behind it (they come back in memory only); and every control byte that
gets into the line. After these the row may stay wrong until the next Enter, or
Ctrl-L at the end of the line, which `RowKeptByTurns` shows to make it right,
unless the terminal is `Lost`.

## 4. Fairness

`ConsoleComesBack` needs weak fairness of the steps a session thread takes by
itself once a command is entered (`RunCommand`), `PromptComesBack` of those it
takes between a line and the next prompt, and of the accept thread's
negotiation (`Thread`). The kernel schedules
every thread, no step of it waits for another, and a called function is taken
to return. A connection is taken to accept what is written to it, some time,
which needs a client that reads. Nothing else is assumed of clients: they need
not connect, type or quit. Nothing is assumed of the process: it need not load,
unload or stop doing so, and `MaxChanges` bounds only how often it does.

## 5. What is proved

Every theorem listed in `PROJECT.json` states a property of some run, so that TLC
has seen it hold on a small instance first; what follows says for which values of
the constants it is proved, and along which argument. The assumptions are those
named `...Assumption` in the modules, which TLC evaluates on every run.

**`RedirectIOProofs`**, for every set of sessions and every table size above four
(`RedirectAssumption`, which says besides that sessions are none of the files
the process starts with):

* `TypeCorrect`, `ConnectionsOwned`, `OwnerCloses`: for every interleaving.
  `ConnOwned` is not inductive: a `dup2` could hit a connection if 0, 1 or 2
  could be free and be given to one. `Ownership` adds `StdOpen`, they never
  are; then `accept` and `dup`, which take a free descriptor, and `dup2`, which
  aims at 0..2, keep clear of connections, and only `Quit` closes.
* `OutputReachesOwner`, `ConsoleKept`, `QuitIsComplete`: as long as
  `Undisturbed`. The invariant `Serial` says what the code does without saying:
  one window at a time (`Exclusive`); in each phase, which of 0, 1, 2 are the
  connection's and which the console's, and that the globals name duplicates of
  the console (`Shape`); console between commands (`AtRest`); who else is on a
  connection (`Holders`); whose characters `stdout` holds (`Buffered`).
  `IInv == Ownership /\ (Undisturbed => Serial)` is inductive, one step per
  action.

**`LineEditorProofs`**, for arrays and histories of any size and reads of any bytes
(`EditorAssumption` says only that a read is no longer than its array and that
the sizes are positive):

* `TypeCorrect`, `CursorStays`, `EditingGoesRight`. `CursorInLine` is not
  inductive, since a recall puts a line of any length under the cursor: the
  invariant adds that the cursor is at the end whenever the line is replaced,
  what `g_cmd` and the history may hold, and that the line fits its array and
  the one of `keyboard_move_up` as long as `strained` does not say "overlong".
  `Leftovers` adds that line, terminator and stale bytes fit the array together,
  which an insertion over the terminator needs, and `StaleIsCut` that nothing is
  stale before a line has been cut. `ArrayDivided` says what the next zero in the
  array makes of it: the line up to it, and what is stale behind it.
* `EditorIsGapBuffer`: `Spec => ImplementsLine`. Every step maps to a step of the
  gap buffer or to a stutter. The work is in the two ends of the cut: an
  insertion that moves the tail and writes no terminator, a backspace that moves
  memory from `len - move_left_num` on, arrows that count from the end; the
  lemmas `DivideBack`, `DivideForward`, `DivideErase`, `DivideInsert` of
  `DataLemmas` say what each does to a sequence cut in two. A recall needs the
  invariant that `g_cmd` and every entry of the history were entered.
* `RowIsKept`: `ScreenSpec => RowKeptByTurns`, of `EditorScreen`, for a prompt
  and a line of any length. `ScreenSpec` keeps the editor's invariant, since each of
  its turns is one of the editor's with its output. `FaithfulShowsLine` states
  the row cell by cell (`ShowsLine`); one lemma for each thing the terminal is
  sent says which cells it changes (`PutCells`, `LeftCells`, `OpenCells`,
  `ClearLeftCells`, ...; `ShowCells`, by induction, for a string), and one for
  each key (`BackspaceShown`, `InsertShown`, `RecallShown`, ...) that the cells
  are those of the new line. The turns that go wrong on the screen are the ones
  `Handled` excludes; each exclusion is needed in the lemma for its key. A `Plain`
  line keeps the terminal from going `Off` or `Lost` (`NotGone`, `PlainBytes`).

**`TelLogProofs`**, for any number of threads and files, any limit and any lengths
of entries with a longest one (`TelLogAssumption`; the buffers of the code bound
them):

* `TypeCorrect`; `SizeIsLimited` and `NoHoles`: as long as writers take turns.
  Then at most one thread is in a write, and the invariant says for each of its
  ten places where the thread's position, the loaded value, the log's place and
  the size of the file stand to one another, across `Restart` and `Remove`.

**`LinkListProofs`, `LinkListClientProofs`**, for any number of nodes. A list
stands for a sequence of nodes if the sequence's first is its head, each next
node follows, the last has no next and no node occurs twice. One lemma per
operation says which sequence its result stands for (`Nth`, `Length` and the
last node included, by induction over the sequence).

* `TypeCorrect`, `WalksAreSafe`, and `ListIsSequence`, the refinement of
  `NodeSeq`.

**`LogRegistryProofs`**, for any set of modules and nodes:

* `TypeCorrect`, `SearchIsSafe`, `CountIsLength`, `FirstIsServed`, `TwoAreFound`.
  The invariant has the list as the sequence of the nodes registered so far, the
  count as its length or, between link and count, one less, and what a search
  has seen so far; from the places `sll_link_list_get_index` skips it follows
  which nodes a search meets.

**`CommandProofs`**, for integers of any width above the lengths written, any
writes, maps, files and lines:

* `WritesAreWhole` (`NothingLost`). `Connection`: while the buffer is not left,
  `left = count - finished`, the bytes sent are `finished` and one more for each
  interruption, and they are the first k of them in order with no gap; once an
  interruption has come first, `finished` and `left` are those of a wrapped
  address and the loop cannot end. The results are unsigned, so that each step is
  an addition modulo `Word`.
* `AnswersAreRight` (`AnswerIsDefinition`). First what `get_maps_so_list` returns
  (`ListRight`): the lines are sorted (`MapsSorted`, from ranks), and by induction
  over them there is one node for every file so far, from its lowest start to
  its highest end, the file seen last at the tail (`JoinedUpTo`); a file that
  has been left does not come back (`LeftForGood`, which is where the assumption
  on the map is needed). Then that the symbol the reader finds is one the file
  defines (`SymbolIsDefinition`: names read from another string table are
  nobody's), and that the guess between offset and address comes out right. The
  invariant follows the files that have not been touched (`Untouched`).
* `DefinitionsAreFound` (`DefinitionIsFound`). `DefinitionIsFound` speaks of the
  end of a search, and the invariant `SearchInv` of its course: no file that has
  been passed over defines the name, and where an address was refused as being
  outside the mapping the file was touched or the name not plain. It rests on
  `KnownIsHit`, the converse of `SymbolIsDefinition` (the table that `KnownToLast`
  names is the one loaded last), and on `FindIsPlain`.
* `ArgumentsAreTyped` (`CalledAsTyped`) and `WellFormedAccepted`
  (`WellFormedIsCalled`). `CutProperties` says what `Pieces` cuts a text into: the
  commas outside quotes in their order, none missing. `ParseNumeral` and
  `ParseQuoted` say what one turn of the parser does at the beginning of a piece:
  it stores that piece, finds the comma behind it and writes nothing outside of
  it. The invariant `ParsedInv` has, for a text that is well-formed, the parser at
  the beginning of a piece, the text from there on as it was typed (`AtPiece`)
  and every earlier string still ended where its quote was (`Kept`), so that a
  later cut spoils no argument; it says nothing of a text that is not well-formed,
  where the parser may stand anywhere.
* `TypeCorrect`: with the bounds of the parser (`StoreArgKeeps`,
  `CommaAfterBounds`), and `ListRight`, from which the nodes' paths are paths.

The installed provers cannot use an induction rule that takes a formula as its
parameter, nor see what a recursive definition computes. `DataLemmas` states
induction over sets instead (`NatSetInduction`: a set that holds 0 and every
successor holds all numbers) and derives the functions a recursion needs
(`Iteration`).

Not proved, and only model-checked: `ConsoleComesBack` and `PromptComesBack`
(liveness under fairness).

## 6. Plan

Done, in this order: `RedirectIO` with its proofs, `LineEditor`, `EditorScreen`,
`TelLog`, the list and the registry; then `ReliableIO`, `ElfReader`,
`SymbolMap`, `CallArgs` and `Command`; then the proofs above.

Not modelled:

* A part of the ELF reader: byte order, offsets, the program headers and
  `exe_elf_identify`, from which no answer depends. A file that is damaged is
  read as it comes; there is no state to follow.
* `read_certain_bytes`, which is never called.
* `ld_maps_parse`, which takes a line of the map apart: a line is its addresses
  and its path.
* `LogRegistry` and `TelLog` are not composed: a module is registered before it
  logs, and nothing of the registry changes after that.
* Formatting of output, the text of messages, `setsockopt`, the failures of
  `socket` and `bind`, those of `malloc` outside the log's registry, and the
  test program.
