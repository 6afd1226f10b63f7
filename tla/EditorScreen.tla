---------------------------- MODULE EditorScreen ----------------------------
(***************************************************************************)
(* LineEditor together with what its user looks at: the row of the         *)
(* client's terminal that the prompt is on.  Each turn of the loop of      *)
(* shell_thread_func changes the line in memory and sends the escape       *)
(* sequences that should change the row alike; nothing ever compares them. *)
(*                                                                         *)
(* The terminal is ANSI, its row wide enough for the prompt and the line   *)
(* (no wrapping), its character set one in which every byte that is not a  *)
(* control fills one cell.  Rows above the prompt's are not modelled.      *)
(***************************************************************************)
EXTENDS LineEditor

VARIABLES
  terminal,  \* the row and the column of the cursor
  cmd_line   \* what the last turn has read

svars == <<cmd_buf, stale, move_left_num, g_cmd, history_cmd, cmd_index, status,
           entered, strained, terminal, cmd_line>>

\* The bytes that fill no cell.
Controls == {NUL, CR, LF, ETX, FF, ESC, BS, DEL, TAB, CTL}
Plain(s) == Range(s) \cap Controls = {}

Blank  == " "
Prompt == [i \in 1 .. PromptLen |-> "#"]  \* DEBUG_SHELL

Width  == PromptLen + 2 * MaxCmdLen
Column == 1 .. Width

\* A row that holds the cells of s and nothing else, the cursor in column c.
RowOf(s, c) ==
  [row |-> [i \in Column |-> IF i <= Len(s) THEN s[i] ELSE Blank], col |-> c]

\* Two places that are none.  A control byte that is echoed takes the cursor
\* Off what is followed here, up to the next prompt on a row of its own.  After
\* an ESC, which begins a sequence of its own, or a shift of the character set,
\* the client is Lost: nothing is said of what it shows from then on.
Off  == [row |-> <<>>, col |-> 0]
Lost == [row |-> <<>>, col |-> -1]
Gone(t) == t \in {Off, Lost}

-----------------------------------------------------------------------------
(* What the terminal does with what it is sent *)

\* What is sent moves or fills nothing of the row when the cursor is gone.
Sent(t, u) == IF Gone(t) THEN t ELSE u

\* \r
Return(t) == Sent(t, [t EXCEPT !.col = 1])

\* A byte of a line: a carriage return, another control, or one for a cell.
Put(t, c) ==
  CASE c \in {ESC, CTL} -> Lost
    [] c = CR           -> Return(t)
    [] c \in Controls \ {ESC, CTL, CR} -> Sent(t, Off)
    [] OTHER            -> Sent(t, [row |-> [t.row EXCEPT ![t.col] = c],
                                    col |-> t.col + 1])
Show(t, s) ==
  LET shown[i \in 0 .. Len(s)] == IF i = 0 THEN t ELSE Put(shown[i - 1], s[i])
  IN  shown[Len(s)]

\* \b and MOVE_LEFT, n times; the cursor stops at the edge.
Left(t, n) == Sent(t, [t EXCEPT !.col = IF n < @ THEN @ - n ELSE 1])

\* MOVE_RIGHT
Right(t) == Sent(t, [t EXCEPT !.col = @ + 1])

\* A mutant of ClearLeft: nothing is cleared.
ClearNothing(t) == t

\* CLEAR_RIGHT_CHAR and CLEAR_LEFT_CHAR, the cell of the cursor included.
ClearRight(t) ==
  Sent(t, [t EXCEPT !.row = [i \in Column |-> IF i < t.col THEN @[i]
                                              ELSE Blank]])
ClearLeft(t) ==
  Sent(t, [t EXCEPT !.row = [i \in Column |-> IF i > t.col THEN @[i]
                                              ELSE Blank]])

\* "\033[1@": the cells from the cursor on move right by one.
OpenCell(t) ==
  Sent(t, [t EXCEPT !.row = [i \in Column |-> IF i < t.col THEN @[i]
                                              ELSE IF i = t.col THEN Blank
                                              ELSE @[i - 1]]])

\* "\r\n" and the prompt, or the screen cleared before them.
NewPrompt == RowOf(Prompt, PromptLen + 1)
PromptAfter(t) == IF t = Lost THEN Lost ELSE NewPrompt

-----------------------------------------------------------------------------
(* The turns of the loop, with their output *)

\* "^C" and a new prompt, or the screen cleared and a new prompt.
ScreenAbandon(l) ==
  /\ Abandon(l)
  /\ terminal' = PromptAfter(terminal)

\* ? and Tab: help, and a new prompt.
ScreenIgnored(l) ==
  /\ Ignored(l)
  /\ terminal' = IF Byte(l, 1) \in {HELP, TAB} THEN PromptAfter(terminal)
                                                 ELSE terminal

\* keyboard_move_left and keyboard_move_right send a move when they make one.
ScreenMoveLeft(l) ==
  /\ MoveLeft(l)
  /\ terminal' = IF move_left_num < len THEN Left(terminal, 1) ELSE terminal

ScreenMoveRight(l) ==
  /\ MoveRight(l)
  /\ terminal' = IF move_left_num > 0 THEN Right(terminal) ELSE terminal

\* "\b \b"; then keyboard_backsapce, unless the line is empty, clears the rest
\* of the row and sends the bytes right of the cursor again, or sends a blank;
\* then back by the cursor's offset, or by one.
ScreenBackspace(l) ==
  /\ Backspace(l)
  /\ LET erased == Left(Put(Left(terminal, 1), Blank), 1)
         shown  == IF len = 0 THEN erased
                   ELSE IF move_left_num = 0 THEN Put(erased, Blank)
                   ELSE Show(ClearRight(erased),
                             SubSeq(cmd_buf, len - move_left_num + 1, len))
     IN  terminal' = IF move_left_num = len \/ status' = "undefined"
                     THEN terminal
                     ELSE Left(shown, IF move_left_num > 0 THEN move_left_num
                                                           ELSE 1)

\* insert_char opens a cell and fills it.  For a byte that is not printable
\* the caller then moves the cursor left by move_left_num more.
ScreenInsert(l) ==
  /\ InsertChar(l)
  /\ LET inserted == IF move_left_num <= len
                     THEN Put(OpenCell(terminal), Byte(l, 1)) ELSE terminal
     IN  terminal' = IF Byte(l, 1) \in (Controls \ {DEL}) \cup {HIGH}
                     THEN Left(inserted, move_left_num) ELSE inserted

\* The chunk is echoed.
ScreenAppend(l) == AppendChunk(l) /\ terminal' = Show(terminal, l)

\* keyboard_move_up and keyboard_move_down: clear the row up to the cursor and
\* show the prompt and the entry from the left edge.
ScreenRecall(l) ==
  /\ MoveUp(l) \/ MoveDown(l)
  /\ terminal' = IF cmd_index' # cmd_index
                 THEN Show(Return(ClearLeft(terminal)), Prompt \o g_cmd')
                 ELSE terminal

\* Enter ends in a new prompt, after the command's output if there was one.
ScreenEnter(l) ==
  /\ Enter(l)
  /\ terminal' = IF Byte(cmd_buf, 1) = CR /\ terminal # Lost
                 THEN RowOf(<<>>, 1) ELSE PromptAfter(terminal)

ScreenInit == Init /\ terminal = NewPrompt /\ cmd_line = <<>>

ScreenDispatch(l) ==
  \/ ScreenIgnored(l) \/ ScreenAbandon(l)
  \/ ScreenMoveLeft(l) \/ ScreenMoveRight(l)
  \/ ScreenBackspace(l) \/ ScreenInsert(l) \/ ScreenAppend(l)
  \/ ScreenRecall(l) \/ ScreenEnter(l)

\* What is sent after the client has gone is not shown.
ScreenNext ==
  \/ \E l \in CmdLines : /\ status = "open" /\ ScreenDispatch(l)
                         /\ cmd_line' = l
  \/ /\ (status = "open" /\ Overread) \/ Hangup \/ ReadEof
     /\ UNCHANGED <<terminal, cmd_line>>

ScreenSpec == ScreenInit /\ [][ScreenNext]_svars

-----------------------------------------------------------------------------
(* Properties *)

\* The cursor is in the line, and the row shows the prompt and the line with
\* the cursor where the editor will put the next byte.
Faithful ==
  /\ move_left_num <= len
  /\ terminal = RowOf(Prompt \o cmd_buf, PromptLen + len - move_left_num + 1)

\* README.md:35: the shell supports going through the history, backspace and
\* insertion.  The turns of these keys and of the others that are handled right
\* on the screen: a history key at the end of the line that has an entry to
\* show, or whose last one is the line; help on an empty line; Ctrl-C and
\* Ctrl-L at the end of the line; a byte from 128 on at the end of the line, and
\* a read that fails or begins with a zero there; any byte inside the line, if no
\* zero has left others behind it.  Left, Right, Backspace, Enter, and what is
\* typed at the end of the line always are.
Handled(l) ==
  /\ IsArrow(l, "A") => move_left_num = 0 /\ (cmd_index > 0 \/ cmd_buf = g_cmd)
  /\ IsArrow(l, "B") =>
       move_left_num = 0 /\ (cmd_index < has_input_cmd_num \/ cmd_buf = g_cmd)
  /\ Byte(l, 1) \in {HELP, TAB} => cmd_buf = <<>>
  /\ l = <<ETX>> \/ Byte(l, 1) = FF => move_left_num = 0
  /\ Byte(l, 1) \in {HIGH, NUL} => move_left_num = 0 \/ len = 0
  /\ IsText(l) => move_left_num = 0 \/ stale = <<>>

\* A turn that is handled right and finds the row faithful leaves it faithful,
\* unless the line now holds a control byte: Home, End, Delete, the function
\* keys, a lone Esc, a paste with an end of line and Ctrl with most letters are
\* echoed and kept as text.  Enter, and Ctrl-L at the end of the line, make the
\* row faithful whatever it was, unless the client is lost: a bad turn spoils no
\* more than the line it happens in.
RowKeptByTurns ==
  [][/\ status = "open" /\ status' = "open"
     /\ Handled(cmd_line') /\ Plain(cmd_buf')
     /\ Faithful \/ (Byte(cmd_line', 1) \in {CR, FF} /\ terminal # Lost)
     => Faithful']_svars

=============================================================================
