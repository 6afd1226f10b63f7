--------------------------- MODULE MCEditorScreen ---------------------------
\* EditorScreen for TLC: what a read may return, and how far it is followed.
EXTENDS EditorScreen

CONSTANTS
  MaxTyped,      \* lines are followed up to this length
  MaxRemembered  \* bytes of the last line and the history together

Arrow(dir) == <<ESC, "[", dir>>

\* All keys, a letter and a byte from 128 on; what a paste, a fast typist or the
\* network puts together: text with an end of line at its end or inside, a key
\* and what follows it, a negotiation reply, more than the array holds; Ctrl-@,
\* Home, Ctrl-J and another control byte; and a read that fails.
Reads == {Arrow(dir) : dir \in {"A", "B", "C", "D"}} \cup
         {<<"a">>, <<HIGH>>, <<BS>>, <<CR, LF>>, <<ETX>>, <<FF>>, <<HELP>>, <<"a", CR>>,
          <<"a", CR, LF, "a">>, <<"a", "a", NUL, "a">>, <<DEL, "a">>,
          <<IAC, "a">>, [i \in 1 .. MaxCmdLen |-> "a"],
          <<NUL>>, <<ESC, "[", "H">>, <<LF>>, <<CTL>>, <<>>}

QuitWith == {<<"a", "a">>}

\* Short commands, so that the history fills up in few states; a line of one
\* letter is followed until it fills cmd_buf, and when it is remembered alone;
\* other bytes than letters until they can be the head of a line that is
\* recalled; and what a zero leaves behind, before anything is remembered.
OfOneLetter(l) == Range(l) = {"a"}
ShortSession ==
  /\ len <= MaxTyped \/ OfOneLetter(cmd_buf)
  /\ LET remembered == g_cmd \o FlattenSeq(history_cmd)
     IN  /\ \/ Len(remembered) <= MaxRemembered
            \/ OfOneLetter(remembered) /\ has_input_cmd_num = 1
         /\ Range(cmd_buf \o remembered) \subseteq {"a", HIGH}
            \/ Len(cmd_buf \o stale \o remembered) <= MaxTyped
         /\ stale = <<>> \/ (remembered = <<>> /\ len + Len(stale) <= MaxTyped + 1)

\* A row that has gone wrong holds little more than the line, and wrong rows
\* of one line are not told apart.  The lines entered decide nothing the editor
\* does, nor does what it has read before.
ShortRow == terminal.col <= PromptLen + MaxCmdLen
SessionView == <<cmd_buf, stale, move_left_num, g_cmd, history_cmd, cmd_index,
                 status, strained, Faithful, terminal = Lost>>

=============================================================================
