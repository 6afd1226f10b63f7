----------------------------- MODULE GapBuffer -----------------------------
(***************************************************************************)
(* What the debug shell's line editor promises to the person typing: a     *)
(* line with a cursor in it, the usual keys, and a memory of the commands  *)
(* already entered.  It says nothing of buffers, of indices or of which    *)
(* remembered command a history key brings back.                           *)
(***************************************************************************)
EXTENDS SequencesExt

CONSTANTS
  Symbol,    \* what can be typed into a line
  Return,    \* the symbol a line that is run does not begin with
  QuitLines  \* the commands that end the session

VARIABLES
  left,      \* the line up to the cursor
  right,     \* the line from the cursor on
  entered,   \* the commands entered so far
  session    \* "running", "over", or "outside" of what is promised

gvars == <<left, right, entered, session>>

Init ==
  /\ left = <<>>
  /\ right = <<>>
  /\ entered = {}
  /\ session = "running"

\* What is typed or pasted appears at the cursor, which moves behind it.
Type ==
  /\ left' \in Seq(Symbol)
  /\ IsStrictPrefix(left, left')
  /\ UNCHANGED right

\* The symbol before the cursor goes away.
Erase ==
  /\ left # <<>>
  /\ left' = Front(left)
  /\ UNCHANGED right

MoveLeft ==
  /\ left # <<>>
  /\ left' = Front(left)
  /\ right' = <<Last(left)>> \o right

MoveRight ==
  /\ right # <<>>
  /\ left' = Append(left, Head(right))
  /\ right' = Tail(right)

\* The cursor goes behind the line.
MoveToEnd ==
  /\ right # <<>>
  /\ left' = left \o right
  /\ right' = <<>>

\* A command entered before, or an empty line, takes the place of the line.
Recall ==
  /\ left' \in {<<>>} \cup entered
  /\ right' = <<>>

Edit == Type \/ Erase \/ MoveLeft \/ MoveRight \/ MoveToEnd \/ Recall

line == left \o right

\* The whole line is the command, wherever the cursor is.
Enter ==
  /\ line # <<>> /\ line[1] # Return
  /\ entered' = entered \cup {line}
  /\ left' = <<>>
  /\ right' = <<>>
  /\ session' = IF line \in QuitLines THEN "over" ELSE "running"

\* A line that begins with a return is remembered, but not run: it stays.
Keep ==
  /\ line # <<>> /\ line[1] = Return
  /\ entered' = entered \cup {line}
  /\ left' = line
  /\ right' = <<>>
  /\ UNCHANGED session

\* The client goes away.
Leave ==
  /\ left' = <<>>
  /\ right' = <<>>
  /\ session' = "over"
  /\ UNCHANGED entered

\* The session has done what nothing is promised for, and all is forgotten.
GoOutside ==
  /\ left' = <<>>
  /\ right' = <<>>
  /\ entered' = {}
  /\ session' = "outside"

Next ==
  /\ session = "running"
  /\ \/ Edit /\ UNCHANGED <<entered, session>>
     \/ Enter
     \/ Keep
     \/ Leave
     \/ GoOutside

Spec == Init /\ [][Next]_gvars

=============================================================================
