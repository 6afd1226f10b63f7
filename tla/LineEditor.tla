---------------------------- MODULE LineEditor ----------------------------
(***************************************************************************)
(* The line editor of one session: what shell_thread_func and the          *)
(* keyboard_* functions of telnet_server.c do with what one read() of the  *)
(* connection returns.  The thread looks at the head of a chunk only: a    *)
(* chunk that starts with a key is that key, whatever follows it.          *)
(*                                                                         *)
(* A C string is the sequence of its bytes up to the terminator.  cmd_buf  *)
(* is followed by its terminator, by what `stale' holds, and by zeros: a   *)
(* zero byte put inside the line ends it there, and leaves the rest of it  *)
(* behind, for a later insertion to bring back.                            *)
(* A step that writes or reads outside its array, or moves memory from a   *)
(* wrapped address, leaves status "undefined", and nothing is said after.  *)
(***************************************************************************)
EXTENDS SequencesExt, Integers

CONSTANTS
  MaxCmdLen,   \* MAX_CMD_LEN: size of cmd_buf, g_cmd and of a history entry
  PromptLen,   \* strlen(DEBUG_SHELL)
  MaxHistory,  \* MAX_CMD_HISTORY_NUM
  QuitLines,   \* "quit" and "exit"
  Chunks       \* what a read() may leave in cmd_line before the client goes
               \* away; <<>> is a read that fails

\* Bytes with a meaning, by name; any other string is a byte without one.
NUL  == "nul"
CR   == "cr"
LF   == "lf"
ETX  == "ctrl_c"
FF   == "ctrl_l"
ESC  == "esc"
BS   == "bs"
DEL  == "del"
TAB  == "tab"
CTL  == "ctl"   \* any other control byte: below 32, or from 128 to 159
HELP == "?"
IAC  == "iac"   \* 255, -1 as a char
DO   == "do"    \* 253, -3 as a char
HIGH == "high"  \* any other byte from 128 on, negative as a char

ASSUME EditorAssumption ==
  /\ PromptLen \in Nat
  /\ MaxCmdLen \in Nat /\ MaxCmdLen > PromptLen + 2
  /\ MaxHistory \in Nat \ {0}
  /\ <<>> \notin QuitLines
  /\ \A c \in Chunks : /\ c \in Seq(STRING)
                       /\ Len(c) <= MaxCmdLen

VARIABLES
  cmd_buf,        \* the line being edited
  stale,          \* the bytes in its array behind its terminator
  move_left_num,  \* how far left of the end of the line the cursor is
  g_cmd,          \* the last line entered or recalled
  history_cmd,    \* queue_cmd[0 .. has_input_cmd_num - 1]
  cmd_index,      \* place in history_cmd of the history keys
  status,         \* "open", "eof", "closed", "killed" or "undefined"
  entered,        \* history: the lines entered
  strained        \* history: what the session has done that can go wrong

evars == <<cmd_buf, stale, move_left_num, g_cmd, history_cmd, cmd_index,
           status, entered, strained>>

len == Len(cmd_buf)
has_input_cmd_num == Len(history_cmd)

\* A line up to this length fits keyboard_move_up's buffer with "\r", the
\* prompt and the terminator.
ShownLen == MaxCmdLen - PromptLen - 2

\* A line is a C string that fits its array.
IsLine(l) == /\ l \in Seq(STRING)
             /\ Len(l) < MaxCmdLen

Init ==
  /\ cmd_buf = <<>>
  /\ stale = <<>>
  /\ move_left_num = 0
  /\ g_cmd = <<>>
  /\ history_cmd = <<>>
  /\ cmd_index = 0
  /\ status = "open"
  /\ entered = {}
  /\ strained = {}

-----------------------------------------------------------------------------
(* The chunk as the dispatch sees it *)

\* The bytes before the first terminator.
CString(c) ==
  LET ends == {i \in 1 .. Len(c) : c[i] = NUL}
  IN  SubSeq(c, 1, IF ends = {} THEN Len(c)
                   ELSE (CHOOSE i \in ends : \A j \in ends : i <= j) - 1)

\* telnetd_remove_iac moves the bytes it keeps to the front: all but a \n
\* after a \r (no byte compares equal to IAC, a char being signed).  The
\* length it returns is not used, so the end of the chunk keeps its old bytes.
RemoveIac(c) ==
  LET Kept == {i \in 1 .. Len(c) : ~(i > 1 /\ c[i - 1] = CR /\ c[i] = LF)}
      Moved(i) == {k \in Kept : Cardinality(Kept \cap 1 .. k) = i}
  IN  [i \in 1 .. Len(c) |-> IF Moved(i) = {} THEN c[i]
                             ELSE c[CHOOSE k \in Moved(i) : TRUE]]

CmdLine(c) == RemoveIac(CString(c))

\* The array is cleared before each read, and has room for one byte less than
\* a read may fill: a chunk without a zero in all of it has no terminator.
Unterminated == {c \in Chunks : Len(CString(c)) = MaxCmdLen}

\* What the dispatch may see.  A read that fails looks like one that begins
\* with a zero: ret is unsigned, and the test for a negative one never holds.
CmdLines == {CmdLine(c) : c \in Chunks \ Unterminated}

\* The bytes that can get into a line.
Bytes == UNION {Range(l) : l \in CmdLines}

\* cmd_line[i - 1]
Byte(l, i) == IF i <= Len(l) THEN l[i] ELSE NUL

IsArrow(l, dir) == Byte(l, 1) = ESC /\ Byte(l, 2) = "[" /\ Byte(l, 3) = dir
IsAnyArrow(l)   == \E dir \in {"A", "B", "C", "D"} : IsArrow(l, dir)
IsBackspace(l)  == Byte(l, 1) \in {BS, DEL}

\* The head is none of the keys.
IsText(l) ==
  /\ l # <<ETX>>
  /\ Byte(l, 1) \notin {IAC, DO, FF, HELP, TAB, CR}
  /\ ~IsAnyArrow(l) /\ ~IsBackspace(l)

\* The step is undefined; what the rest of the state becomes is not said.
GoesWrong ==
  /\ status' = "undefined"
  /\ UNCHANGED <<cmd_buf, stale, move_left_num, g_cmd, history_cmd, cmd_index,
                 entered>>

\* telnetd_remove_iac is called with the strlen of a chunk that has no
\* terminator.
Overread ==
  /\ Unterminated # {}
  /\ strained' = strained \cup {"unterminated"}
  /\ GoesWrong

-----------------------------------------------------------------------------
(* Keys that leave the line alone, or drop it *)

\* A negotiation reply is ignored; ? and Tab print help and a new prompt.
Ignored(l) ==
  /\ Byte(l, 1) \in {IAC, DO, HELP, TAB}
  /\ UNCHANGED evars

\* Ctrl-C alone in its chunk, or Ctrl-L: the line is dropped, and the cursor
\* offset stays what it was.
Abandon(l) ==
  /\ l = <<ETX>> \/ Byte(l, 1) = FF
  /\ cmd_buf' = <<>>
  /\ stale' = <<>>
  /\ strained' = IF move_left_num > 0 THEN strained \cup {"abandoned"}
                                      ELSE strained
  /\ UNCHANGED <<move_left_num, g_cmd, history_cmd, cmd_index, status, entered>>

-----------------------------------------------------------------------------
(* The cursor *)

\* A mutant: one place beyond the start of the line.
MoveLeftTooFar(l) ==
  /\ IsArrow(l, "D")
  /\ move_left_num' = IF move_left_num <= len THEN move_left_num + 1
                                              ELSE move_left_num
  /\ UNCHANGED <<cmd_buf, stale, g_cmd, history_cmd, cmd_index, status, entered,
                 strained>>

\* keyboard_move_left
MoveLeft(l) ==
  /\ IsArrow(l, "D")
  /\ move_left_num' = IF move_left_num < len THEN move_left_num + 1
                                             ELSE move_left_num
  /\ UNCHANGED <<cmd_buf, stale, g_cmd, history_cmd, cmd_index, status, entered,
                 strained>>

\* keyboard_move_right
MoveRight(l) ==
  /\ IsArrow(l, "C")
  /\ move_left_num' = IF move_left_num > 0 THEN move_left_num - 1 ELSE 0
  /\ UNCHANGED <<cmd_buf, stale, g_cmd, history_cmd, cmd_index, status, entered,
                 strained>>

-----------------------------------------------------------------------------
(* Text *)

\* A mutant: the byte right of the cursor goes.
ErasedRight == RemoveAt(cmd_buf, len - move_left_num + 1)

\* The line without the byte left of the cursor.
Erased == RemoveAt(cmd_buf, len - move_left_num)

\* keyboard_backsapce: the byte left of the cursor goes, and the terminator is
\* one place to the left of the old one.  With the cursor beyond the start of a
\* line that is not empty, the memmove wraps around.
Backspace(l) ==
  /\ IsBackspace(l)
  /\ \/ /\ move_left_num < len
        /\ cmd_buf' = Erased
        /\ stale' = IF stale = <<>> THEN <<>> ELSE <<NUL>> \o stale
        /\ UNCHANGED status
     \/ /\ move_left_num = len \/ len = 0
        /\ UNCHANGED <<cmd_buf, stale, status>>
     \/ /\ move_left_num > len /\ len > 0
        /\ status' = "undefined"
        /\ UNCHANGED <<cmd_buf, stale>>
  /\ UNCHANGED <<move_left_num, g_cmd, history_cmd, cmd_index, entered, strained>>

\* A line of n bytes is, or would have been, too long to be shown again.
Overlong(n) == IF n > ShownLen THEN {"overlong"} ELSE {}

\* The array of the line, zeros at its end left out, when b has gone in at the
\* cursor: over the terminator, with nothing written in its place.
Inserted(b) == InsertAt(cmd_buf, len - move_left_num + 1, b) \o stale

\* insert_char, from either of its two calls: the head of the chunk goes in at
\* the cursor, if that is in the line; the rest of the chunk is dropped.  A
\* zero, of a read that fails or begins with one, cuts the line; a full array
\* would lose the terminator.
InsertChar(l) ==
  /\ IsText(l)
  /\ move_left_num > 0 /\ len > 0
  /\ \/ /\ move_left_num > len
        /\ UNCHANGED evars
     \/ LET array == Inserted(Byte(l, 1))
            line  == CString(array)
        IN  /\ move_left_num <= len
            /\ strained' = strained \cup Overlong(Len(line))
                             \cup (IF Byte(l, 1) = NUL THEN {"cut"} ELSE {})
            /\ IF Len(line) < MaxCmdLen
               THEN /\ cmd_buf' = line
                    /\ stale' = SubSeq(array, Len(line) + 2, Len(array))
                    /\ UNCHANGED <<move_left_num, g_cmd, history_cmd,
                                   cmd_index, status, entered>>
               ELSE GoesWrong

\* The last branch of the dispatch: the whole chunk goes to the end, each byte
\* with a terminator after it.
AppendChunk(l) ==
  /\ IsText(l)
  /\ move_left_num = 0 \/ len = 0
  /\ strained' = strained \cup Overlong(len + Len(l))
  /\ IF len + Len(l) < MaxCmdLen
     THEN /\ cmd_buf' = cmd_buf \o l
          /\ stale' = SubSeq(stale, Len(l) + 1, Len(stale))
          /\ UNCHANGED <<move_left_num, g_cmd, history_cmd, cmd_index, status,
                         entered>>
     ELSE GoesWrong

-----------------------------------------------------------------------------
(* History *)

\* A mutant: the cursor stays as far left of the end as it was.
RecallKeepsCursor(entry, i) ==
  IF Len(entry) <= ShownLen
  THEN /\ g_cmd' = entry
       /\ cmd_buf' = entry
       /\ stale' = <<>>
       /\ cmd_index' = i
       /\ UNCHANGED <<move_left_num, history_cmd, status, entered, strained>>
  ELSE GoesWrong /\ UNCHANGED strained

\* keyboard_move_up and keyboard_move_down, and the strcpy of g_cmd that
\* follows either: entry is brought back and shown, with the index at i.
Recall(entry, i) ==
  IF Len(entry) <= ShownLen
  THEN /\ move_left_num' = 0
       /\ g_cmd' = entry
       /\ cmd_buf' = entry
       /\ stale' = <<>>
       /\ cmd_index' = i
       /\ UNCHANGED <<history_cmd, status, entered, strained>>
  ELSE GoesWrong /\ UNCHANGED strained

\* Nothing further that way: g_cmd replaces the line all the same.
RecallLast ==
  /\ move_left_num' = 0
  /\ cmd_buf' = g_cmd
  /\ stale' = <<>>
  /\ UNCHANGED <<g_cmd, history_cmd, cmd_index, status, entered, strained>>

MoveUp(l) ==
  /\ IsArrow(l, "A")
  /\ IF cmd_index = 0
     THEN RecallLast
     ELSE Recall(history_cmd[cmd_index], cmd_index - 1)

\* One past the last entry is an empty one, unless the array is full.
MoveDown(l) ==
  /\ IsArrow(l, "B")
  /\ \/ /\ cmd_index = has_input_cmd_num
        /\ RecallLast
     \/ /\ cmd_index + 1 < has_input_cmd_num
        /\ Recall(history_cmd[cmd_index + 2], cmd_index + 1)
     \/ /\ cmd_index + 1 = has_input_cmd_num
        /\ IF has_input_cmd_num < MaxHistory
           THEN Recall(<<>>, cmd_index + 1)
           ELSE GoesWrong /\ UNCHANGED strained

\* A mutant: without the test of MAX_CMD_HISTORY_NUM.
UpdateHistoryUnbounded ==
  /\ history_cmd' = Append(history_cmd, cmd_buf)
  /\ cmd_index' = has_input_cmd_num + 1

\* update_history_cmd: a full history keeps its entries, and its index.
UpdateHistory ==
  IF has_input_cmd_num < MaxHistory
  THEN /\ history_cmd' = Append(history_cmd, cmd_buf)
       /\ cmd_index' = has_input_cmd_num + 1
  ELSE UNCHANGED <<history_cmd, cmd_index>>

\* A mutant: without the test of the first byte, every line is run.
EnterAny(l) ==
  /\ Byte(l, 1) = CR
  /\ move_left_num' = 0
  /\ g_cmd' = IF cmd_buf = <<>> THEN g_cmd ELSE cmd_buf
  /\ entered' = IF cmd_buf = <<>> THEN entered ELSE entered \cup {cmd_buf}
  /\ IF cmd_buf = <<>>
     THEN UNCHANGED <<history_cmd, cmd_index, status>>
     ELSE UpdateHistory /\ status' = IF cmd_buf \in QuitLines THEN "closed" ELSE status
  /\ cmd_buf' = <<>>
  /\ stale' = <<>>
  /\ UNCHANGED strained

\* Enter.  A line that begins with \r, which a chunk with a \r inside and some
\* editing can produce, is neither run nor cleared, but kept in g_cmd.
Enter(l) ==
  /\ Byte(l, 1) = CR
  /\ move_left_num' = 0
  /\ g_cmd' = IF cmd_buf = <<>> THEN g_cmd ELSE cmd_buf
  /\ entered' = IF cmd_buf = <<>> THEN entered ELSE entered \cup {cmd_buf}
  /\ IF Byte(cmd_buf, 1) \in {NUL, CR}
     THEN UNCHANGED <<cmd_buf, stale, history_cmd, cmd_index, status>>
     ELSE /\ UpdateHistory
          /\ IF cmd_buf \in QuitLines
             THEN status' = "closed" /\ UNCHANGED <<cmd_buf, stale>>
             ELSE cmd_buf' = <<>> /\ stale' = <<>> /\ UNCHANGED status
  /\ UNCHANGED strained

-----------------------------------------------------------------------------
(* The end of the connection *)

\* The client closes its side; the thread finds out by reading nothing.
Hangup ==
  /\ status = "open"
  /\ status' = "eof"
  /\ UNCHANGED <<cmd_buf, stale, move_left_num, g_cmd, history_cmd, cmd_index, entered,
                 strained>>

\* read() returns 0 at once, and cmd_line is all zero: the loop takes the last
\* branch again and again.  With the cursor inside the line it inserts the
\* zero, and writes to a connection whose other end may be gone: SIGPIPE ends
\* the process.
ReadEof ==
  /\ status = "eof"
  /\ IF move_left_num > 0 /\ len > 0
     THEN status' \in {"eof", "killed"} ELSE UNCHANGED status
  /\ IF move_left_num \in 1 .. len
     THEN /\ cmd_buf' = SubSeq(cmd_buf, 1, len - move_left_num)
          /\ stale' = SubSeq(cmd_buf, len - move_left_num + 1, len) \o stale
     ELSE UNCHANGED <<cmd_buf, stale>>
  /\ UNCHANGED <<move_left_num, g_cmd, history_cmd, cmd_index, entered, strained>>

-----------------------------------------------------------------------------
\* One turn of the loop of shell_thread_func, for what read() has returned.
Dispatch(l) ==
  \/ Ignored(l) \/ Abandon(l)
  \/ MoveUp(l) \/ MoveDown(l) \/ MoveRight(l) \/ MoveLeft(l)
  \/ Backspace(l) \/ InsertChar(l) \/ AppendChunk(l)
  \/ Enter(l)

Next ==
  \/ \E l \in CmdLines : status = "open" /\ Dispatch(l)
  \/ status = "open" /\ Overread
  \/ Hangup
  \/ ReadEof

Spec == Init /\ [][Next]_evars

-----------------------------------------------------------------------------
(* Properties *)

\* Every array holds a C string that fits it, with cmd_buf's leftovers behind
\* its own; the history keeps to its bound, and cmd_index to the history.
TypeOK ==
  /\ IsLine(cmd_buf)
  /\ stale \in Seq(Bytes \cup {NUL}) /\ len + 1 + Len(stale) <= MaxCmdLen
  /\ move_left_num \in Nat
  /\ IsLine(g_cmd)
  /\ history_cmd \in Seq(Seq(STRING)) /\ has_input_cmd_num <= MaxHistory
  /\ \A i \in 1 .. has_input_cmd_num : IsLine(history_cmd[i])
  /\ cmd_index \in 0 .. has_input_cmd_num
  /\ status \in {"open", "eof", "closed", "killed", "undefined"}
  /\ \A l \in entered : IsLine(l)
  /\ strained \subseteq {"abandoned", "overlong", "cut", "unterminated"}

\* The cursor is in the line, as every edit takes for granted when it computes
\* len - move_left_num unsigned, unless the line has been shortened behind its
\* back: dropped by Ctrl-C or Ctrl-L, or cut by the zero byte of Ctrl-@ or of a
\* read that fails.
CursorInLine ==
  status = "open" /\ strained \cap {"abandoned", "cut"} = {}
    => move_left_num <= len

\* No step goes outside its array or wraps an address, except in a session
\* that has dropped a line with the cursor inside it or cut one, has had a line
\* too long for keyboard_move_up, has read a whole array, or has filled the
\* history.
DefinedUnlessStrained ==
  status = "undefined" => strained # {} \/ has_input_cmd_num = MaxHistory

\* README.md:35: backspace, insertion and recall are common operations the
\* shell supports; so no use of them is undefined.  (Does not hold after a
\* Ctrl-C inside the line.)
EditingIsDefined == status # "undefined"

\* Where the cursor divides the line.
cursor == IF move_left_num <= len THEN len - move_left_num ELSE 0

\* The session has done nothing the editor does not get over.
Inside == strained = {} /\ has_input_cmd_num < MaxHistory

\* What the user sees of the line, while the connection lasts.
Shown(part) == IF Inside /\ status \in {"open", "undefined"} THEN part ELSE <<>>

\* The session as its user sees it.
Progress ==
  CASE ~Inside -> "outside"
    [] Inside /\ status = "open" -> "running"
    [] Inside /\ status = "undefined" -> "undefined"
    [] OTHER -> "over"

LeftOfCursor == Shown(SubSeq(cmd_buf, 1, cursor))
RightOfCursor == Shown(SubSeq(cmd_buf, cursor + 1, len))
Remembered == IF Inside THEN entered ELSE {}

\* The editor as its user sees it; an undefined step is nothing GapBuffer does.
Line == INSTANCE GapBuffer WITH
  Symbol  <- Bytes,
  Return  <- CR,
  left    <- LeftOfCursor,
  right   <- RightOfCursor,
  entered <- Remembered,
  session <- Progress

\* For reads of any bytes, failed and full ones included, the editor
\* (telnet_server.c:355-535) is the gap buffer, no step of it is undefined, and
\* what is entered is the line, until the session does one of the things that
\* strained names or fills its history, which ends what is said of it.
ImplementsLine == Line!Spec

=============================================================================
