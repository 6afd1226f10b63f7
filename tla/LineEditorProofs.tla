------------------------- MODULE LineEditorProofs -------------------------
(***************************************************************************)
(* What holds of LineEditor for arrays of any size, any prompt, any number *)
(* of history entries and reads of any bytes; and of EditorScreen,         *)
(* that the row on the client's terminal keeps up with the line.           *)
(***************************************************************************)
EXTENDS EditorScreen, DataLemmas

-----------------------------------------------------------------------------
(* What the dispatch may see *)

LEMMA Sizes ==
  /\ MaxCmdLen \in Nat /\ PromptLen \in Nat /\ MaxHistory \in Nat \ {0}
  /\ ShownLen \in Nat \ {0} /\ ShownLen + 1 < MaxCmdLen
BY EditorAssumption DEF ShownLen

\* The bytes up to the terminator: none of them zero, and a zero behind them
\* unless the whole sequence has none.
LEMMA CStringProperties ==
  ASSUME NEW S, NEW c \in Seq(S)
  PROVE  /\ CString(c) \in Seq(S) /\ Len(CString(c)) \in 0 .. Len(c)
         /\ CString(c) = Before(c, Len(CString(c)))
         /\ \A i \in 1 .. Len(CString(c)) : CString(c)[i] = c[i] /\ c[i] # NUL
         /\ Len(CString(c)) < Len(c) => c[Len(CString(c)) + 1] = NUL
<1> DEFINE ends == {i \in 1 .. Len(c) : c[i] = NUL}
           last == IF ends = {} THEN Len(c)
                   ELSE (CHOOSE i \in ends : \A j \in ends : i <= j) - 1
<1>1. Len(c) \in Nat
  BY LenProperties
<1>2. /\ last \in 0 .. Len(c) /\ \A i \in 1 .. last : c[i] # NUL
      /\ last < Len(c) => c[last + 1] = NUL
  <2>1. CASE ends = {}
    BY <1>1, <2>1
  <2>2. CASE ends # {}
    <3> DEFINE e == CHOOSE i \in ends : \A j \in ends : i <= j
    <3>1. ends \in SUBSET Nat
      BY <1>1
    <3>2. e \in ends /\ \A j \in ends : e <= j
      <4> HIDE DEF ends
      <4>1. \E i \in ends : \A j \in ends : i <= j
        BY <2>2, <3>1, LeastOf
      <4> QED BY <4>1
    <3>3. last = e - 1
      BY <2>2
    <3> HIDE DEF e
    <3>4. e \in 1 .. Len(c) /\ c[e] = NUL
      BY <1>1, <3>2
    <3>5. \A i \in 1 .. e - 1 : i \notin ends /\ i \in 1 .. Len(c)
      <4> HIDE DEF ends
      <4> QED BY <1>1, <3>2, <3>4
    <3>6. \A i \in 1 .. e - 1 : c[i] # NUL
      BY <3>5
    <3> HIDE DEF ends, last
    <3>7. last + 1 = e /\ last \in 0 .. Len(c)
      BY <1>1, <3>3, <3>4
    <3> QED BY <1>1, <3>3, <3>4, <3>6, <3>7
  <2> QED BY <2>1, <2>2
<1>3. CString(c) = Before(c, last)
  BY DEF CString, Before
<1> HIDE DEF ends, last
<1>4. /\ Before(c, last) \in Seq(S) /\ Len(Before(c, last)) = last
      /\ \A j \in 1 .. last : Before(c, last)[j] = c[j]
  BY <1>1, <1>2, DividedProperties
<1> QED BY <1>1, <1>2, <1>3, <1>4

\* A sequence without a zero is a C string as a whole.
LEMMA CStringOfText ==
  ASSUME NEW S, NEW c \in Seq(S), \A i \in 1 .. Len(c) : c[i] # NUL
  PROVE  CString(c) = c
<1> DEFINE n == Len(CString(c))
<1>1. /\ CString(c) \in Seq(S) /\ n \in 0 .. Len(c) /\ Len(c) \in Nat
      /\ \A i \in 1 .. n : CString(c)[i] = c[i]
      /\ n < Len(c) => c[n + 1] = NUL
  BY CStringProperties, LenProperties
<1>2. n = Len(c)
  <2> HIDE DEF n
  <2>1. n < Len(c) => n + 1 \in 1 .. Len(c)
    BY <1>1
  <2> QED BY <1>1, <2>1
<1> QED BY <1>1, <1>2, SeqEqual

LEMMA CStringBytes ==
  ASSUME NEW c \in Chunks \ Unterminated
  PROVE  /\ CString(c) \in Seq(STRING)
         /\ Len(CString(c)) \in 0 .. MaxCmdLen - 1
         /\ \A i \in 1 .. Len(CString(c)) : CString(c)[i] # NUL
<1>1. c \in Seq(STRING) /\ Len(c) <= MaxCmdLen /\ Len(c) \in Nat /\ MaxCmdLen \in Nat
  BY EditorAssumption, LenProperties
<1>2. /\ CString(c) \in Seq(STRING) /\ Len(CString(c)) \in 0 .. Len(c)
      /\ \A i \in 1 .. Len(CString(c)) : CString(c)[i] # NUL
  BY <1>1, CStringProperties
<1>3. Len(CString(c)) # MaxCmdLen
  BY DEF Unterminated
<1> QED BY <1>1, <1>2, <1>3

\* telnetd_remove_iac adds no byte, and leaves as many as there were.
LEMMA CmdLineBytes ==
  ASSUME NEW l \in CmdLines
  PROVE  /\ l \in Seq(STRING) /\ Len(l) \in 0 .. MaxCmdLen - 1
         /\ \A i \in 1 .. Len(l) : l[i] # NUL
<1>1. PICK c \in Chunks \ Unterminated : l = RemoveIac(CString(c))
  BY DEF CmdLines, CmdLine
<1> DEFINE s == CString(c)
<1>2. /\ s \in Seq(STRING) /\ Len(s) \in 0 .. MaxCmdLen - 1 /\ MaxCmdLen \in Nat
      /\ \A i \in 1 .. Len(s) : s[i] # NUL
  BY CStringBytes, EditorAssumption
<1> DEFINE Kept == {i \in 1 .. Len(s) : ~(i > 1 /\ s[i - 1] = CR /\ s[i] = LF)}
           Moved(i) == {k \in Kept : Cardinality(Kept \cap 1 .. k) = i}
           From(i) == IF Moved(i) = {} THEN i ELSE CHOOSE k \in Moved(i) : TRUE
<1>3. \A i \in 1 .. Len(s) : From(i) \in 1 .. Len(s)
  <2> TAKE i \in 1 .. Len(s)
  <2>1. Moved(i) \subseteq 1 .. Len(s)
    OBVIOUS
  <2> HIDE DEF Moved
  <2> QED BY <2>1
<1>4. l = [i \in 1 .. Len(s) |-> s[From(i)]]
  <2>1. l = [i \in 1 .. Len(s) |-> IF Moved(i) = {} THEN s[i]
                                   ELSE s[CHOOSE k \in Moved(i) : TRUE]]
    BY <1>1 DEF RemoveIac
  <2> HIDE DEF Moved, s
  <2> QED BY <2>1
<1> HIDE DEF s, From
<1>5. \A i \in 1 .. Len(s) : l[i] \in STRING /\ l[i] # NUL
  <2> TAKE i \in 1 .. Len(s)
  <2>1. l[i] = s[From(i)] /\ From(i) \in 1 .. Len(s)
    BY <1>3, <1>4
  <2> QED BY <1>2, <2>1, ElementOfSeq
<1>6. l \in [1 .. Len(s) -> STRING]
  BY <1>4, <1>5
<1>7. Len(s) \in Nat
  BY <1>2
<1>8. l \in Seq(STRING) /\ Len(l) = Len(s)
  BY <1>6, <1>7
<1> QED BY <1>2, <1>5, <1>8

\* The head of what is read is one of its bytes, or the zero of a read that has
\* none.
LEMMA TypedBytes ==
  /\ Bytes \subseteq STRING /\ NUL \notin Bytes
  /\ \A l \in CmdLines : /\ l \in Seq(Bytes) /\ Len(l) \in 0 .. MaxCmdLen - 1
                         /\ Byte(l, 1) \in Bytes \cup {NUL}
                         /\ Byte(l, 1) # NUL => Len(l) # 0
                         /\ Len(l) # 0 => Byte(l, 1) = l[1] /\ l[1] \in Bytes
<1>1. ASSUME NEW l \in CmdLines, NEW i \in 1 .. Len(l)
      PROVE  l[i] \in Bytes
  BY CmdLineBytes DEF Bytes, Range
<1>2. ASSUME NEW x \in Bytes PROVE x \in STRING /\ x # NUL
  <2>1. PICK l \in CmdLines : \E i \in DOMAIN l : x = l[i]
    BY DEF Bytes, Range
  <2>2. l \in Seq(STRING) /\ \A j \in 1 .. Len(l) : l[j] # NUL
    BY CmdLineBytes
  <2> QED BY <2>1, <2>2, ElementOfSeq
<1>3. ASSUME NEW l \in CmdLines
      PROVE  /\ l \in Seq(Bytes) /\ Len(l) \in 0 .. MaxCmdLen - 1
             /\ Byte(l, 1) \in Bytes \cup {NUL}
             /\ Byte(l, 1) # NUL => Len(l) # 0
             /\ Len(l) # 0 => Byte(l, 1) = l[1] /\ l[1] \in Bytes
  <2>1. l \in Seq(STRING) /\ Len(l) \in 0 .. MaxCmdLen - 1 /\ Len(l) \in Nat
    BY CmdLineBytes, Sizes
  <2>2. l \in [1 .. Len(l) -> Bytes]
    BY <1>1, <2>1
  <2>3. l \in Seq(Bytes)
    BY <2>1, <2>2
  <2>4. CASE Len(l) = 0
    BY <2>1, <2>3, <2>4 DEF Byte
  <2>5. CASE Len(l) # 0
    <3>1. 1 \in 1 .. Len(l) /\ 1 <= Len(l)
      BY <2>1, <2>5
    <3> QED BY <1>1, <2>1, <2>3, <2>5, <3>1 DEF Byte
  <2> QED BY <2>4, <2>5
<1> QED BY <1>2, <1>3

LEMMA TypedAreStrings ==
  ASSUME NEW s \in Seq(Bytes)
  PROVE  s \in Seq(STRING)
<1>1. Len(s) \in Nat /\ s \in [1 .. Len(s) -> Bytes]
  BY LenProperties
<1>2. s \in [1 .. Len(s) -> STRING]
  BY <1>1, TypedBytes
<1> QED BY <1>1, <1>2

-----------------------------------------------------------------------------
(* The inductive invariant *)

\* A line that is kept anywhere holds typed bytes, and is short enough to be
\* shown again unless the session has been noticed to strain that.
Good(l) ==
  /\ IsLine(l)
  /\ l \in Seq(Bytes)
  /\ Len(l) > ShownLen => "overlong" \in strained

AllGood ==
  /\ Good(cmd_buf)
  /\ Good(g_cmd)
  /\ \A i \in 1 .. has_input_cmd_num : Good(history_cmd[i])

\* What a history key can bring back has been entered.
AllEntered ==
  /\ g_cmd = <<>> \/ g_cmd \in entered
  /\ \A i \in 1 .. has_input_cmd_num : history_cmd[i] \in entered

\* Only a zero put into the line leaves bytes behind it.
StaleIsCut == stale # <<>> /\ status = "open" => "cut" \in strained

IInv ==
  /\ TypeOK
  /\ StaleIsCut
  /\ AllGood
  /\ AllEntered
  /\ CursorInLine
  /\ DefinedUnlessStrained

LEMMA InitIInv == Init => IInv
<1> SUFFICES ASSUME Init PROVE IInv
  OBVIOUS
<1>1. <<>> \in Seq(STRING) /\ <<>> \in Seq(Bytes) /\ Len(<<>>) = 0
  OBVIOUS
<1>2. Good(<<>>)
  BY <1>1, Sizes DEF Good, IsLine
<1>3. IsLine(<<>>)
  BY <1>2 DEF Good
<1>4. history_cmd \in Seq(Seq(STRING)) /\ has_input_cmd_num = 0
  BY DEF Init, has_input_cmd_num
<1>5. TypeOK /\ StaleIsCut
  <2>1. len + 1 + Len(stale) <= MaxCmdLen /\ stale \in Seq(Bytes \cup {NUL})
    BY <1>1, Sizes DEF Init, len
  <2> QED BY <1>3, <1>4, <2>1, Sizes DEF Init, TypeOK, StaleIsCut
<1>6. AllGood /\ AllEntered
  BY <1>2, <1>4 DEF Init, AllGood, AllEntered
<1>7. CursorInLine /\ DefinedUnlessStrained
  BY DEF Init, CursorInLine, DefinedUnlessStrained, len
<1> QED BY <1>5, <1>6, <1>7 DEF IInv

-----------------------------------------------------------------------------
(* A step that edits the line *)

Statuses == {"open", "eof", "closed", "killed", "undefined"}
Strains == {"abandoned", "overlong", "cut", "unterminated"}

\* The leftovers are bytes that fit the array, and there for a reason.
Leftovers ==
  /\ stale \in Seq(Bytes \cup {NUL}) /\ len + 1 + Len(stale) <= MaxCmdLen
  /\ StaleIsCut

\* What is strained stays strained, so a line that was good is.
LEMMA LineEdited ==
  ASSUME IInv, strained \subseteq strained', strained' \subseteq Strains,
         UNCHANGED <<g_cmd, history_cmd, cmd_index, entered>>,
         move_left_num' \in Nat, status' \in Statuses,
         Good(cmd_buf)', Leftovers', CursorInLine', DefinedUnlessStrained'
  PROVE  IInv'
<1>1. AllGood'
  <2>1. Good(g_cmd)'
    BY DEF IInv, AllGood, Good
  <2>2. \A i \in 1 .. has_input_cmd_num' : Good(history_cmd[i])'
    BY DEF IInv, AllGood, Good, has_input_cmd_num
  <2> QED BY <2>1, <2>2 DEF AllGood
<1>2. AllEntered'
  BY DEF IInv, AllEntered, has_input_cmd_num
<1>3. TypeOK'
  <2>1. IsLine(cmd_buf')
    BY DEF Good
  <2>2. \A i \in 1 .. has_input_cmd_num' : IsLine(history_cmd'[i])
    BY DEF IInv, TypeOK, has_input_cmd_num
  <2> QED BY <2>1, <2>2 DEF IInv, TypeOK, Statuses, Strains, Leftovers, has_input_cmd_num
<1>4. StaleIsCut'
  BY DEF Leftovers
<1> QED BY <1>1, <1>2, <1>3, <1>4 DEF IInv

\* A step that touches neither the line nor what is behind it.
LEMMA LineKept ==
  ASSUME IInv, UNCHANGED <<cmd_buf, stale>>, strained \subseteq strained',
         status' = "open" => status = "open"
  PROVE  Good(cmd_buf)' /\ Leftovers'
<1>1. Good(cmd_buf)'
  BY DEF Good, IInv, AllGood
<1>2. Leftovers'
  BY DEF Leftovers, StaleIsCut, IInv, TypeOK, len
<1> QED BY <1>1, <1>2

\* A line written into a cleared array.
LEMMA NothingLeft ==
  ASSUME stale' = <<>>, Good(cmd_buf)'
  PROVE  Leftovers'
<1>1. Len(cmd_buf') \in Nat /\ Len(cmd_buf') < MaxCmdLen
  BY LenProperties DEF Good, IsLine
<1>2. <<>> \in Seq(Bytes \cup {NUL}) /\ Len(<<>>) = 0
  OBVIOUS
<1> QED BY <1>1, <1>2, Sizes DEF Leftovers, StaleIsCut, len

\* The facts every step starts from.
LEMMA Here ==
  ASSUME IInv
  PROVE  /\ cmd_buf \in Seq(Bytes) /\ cmd_buf \in Seq(STRING)
         /\ len \in Nat /\ len < MaxCmdLen /\ len = Len(cmd_buf)
         /\ move_left_num \in Nat
         /\ has_input_cmd_num \in Nat /\ has_input_cmd_num <= MaxHistory
         /\ has_input_cmd_num = Len(history_cmd)
         /\ cmd_index \in 0 .. has_input_cmd_num
         /\ status \in Statuses /\ strained \subseteq Strains
         /\ (status = "open" /\ "abandoned" \notin strained /\ "cut" \notin strained)
              => move_left_num <= len
         /\ stale \in Seq(Bytes \cup {NUL}) /\ Len(stale) \in Nat
         /\ len + 1 + Len(stale) <= MaxCmdLen
         /\ (stale # <<>> /\ status = "open") => "cut" \in strained
         /\ len > ShownLen => "overlong" \in strained
<1>1. Len(stale) \in Nat
  BY LenProperties DEF IInv, TypeOK
<1> QED BY <1>1 DEF IInv, TypeOK, AllGood, Good, IsLine, CursorInLine, StaleIsCut, len,
       has_input_cmd_num, Statuses, Strains

LEMMA AbandonInv ==
  ASSUME IInv, status = "open", NEW l \in CmdLines, Abandon(l)
  PROVE  IInv'
<1>1. /\ cmd_buf' = <<>> /\ stale' = <<>>
      /\ strained' = IF move_left_num > 0 THEN strained \cup {"abandoned"} ELSE strained
      /\ UNCHANGED <<move_left_num, g_cmd, history_cmd, cmd_index, status, entered>>
  BY DEF Abandon
<1>2. Good(cmd_buf)'
  BY <1>1, Sizes DEF Good, IsLine
<1>3. CursorInLine'
  BY <1>1, Here DEF CursorInLine, len
<1>4. DefinedUnlessStrained'
  BY <1>1 DEF DefinedUnlessStrained
<1>5. strained \subseteq strained' /\ strained' \subseteq Strains
  BY <1>1, Here DEF Strains
<1> QED BY <1>1, <1>2, <1>3, <1>4, <1>5, NothingLeft, Here, LineEdited

LEMMA MoveInv ==
  ASSUME IInv, status = "open", NEW l \in CmdLines, MoveLeft(l) \/ MoveRight(l)
  PROVE  IInv'
<1>1. /\ UNCHANGED <<cmd_buf, stale, g_cmd, history_cmd, cmd_index, status, entered,
                     strained>>
      /\ move_left_num' \in Nat
      /\ move_left_num <= len => move_left_num' <= len
  BY Here DEF MoveLeft, MoveRight
<1>2. Good(cmd_buf)' /\ Leftovers'
  BY <1>1, LineKept
<1>3. CursorInLine'
  BY <1>1, Here DEF CursorInLine, len
<1>4. DefinedUnlessStrained'
  BY <1>1 DEF DefinedUnlessStrained
<1> QED BY <1>1, <1>2, <1>3, <1>4, Here, LineEdited

LEMMA BackspaceInv ==
  ASSUME IInv, status = "open", NEW l \in CmdLines, Backspace(l)
  PROVE  IInv'
<1>1. UNCHANGED <<move_left_num, g_cmd, history_cmd, cmd_index, entered, strained>>
  BY DEF Backspace
<1>2. CASE /\ move_left_num < len /\ cmd_buf' = Erased /\ UNCHANGED status
           /\ stale' = IF stale = <<>> THEN <<>> ELSE <<NUL>> \o stale
  <2>1. /\ Erased \in Seq(Bytes) /\ Erased \in Seq(STRING) /\ Len(Erased) = len - 1
    <3> DEFINE k == len - move_left_num
    <3>1. k \in 1 .. Len(cmd_buf)
      BY <1>2, Here
    <3> HIDE DEF k
    <3>2. RemoveAt(cmd_buf, k) \in Seq(Bytes)
      BY ONLY <3>1, IInv, Here, RemoveAtProperties
    <3>3. RemoveAt(cmd_buf, k) \in Seq(STRING) /\ Len(RemoveAt(cmd_buf, k)) = Len(cmd_buf) - 1
      BY ONLY <3>1, IInv, Here, RemoveAtProperties
    <3> QED BY <3>2, <3>3, Here DEF Erased, k
  <2>2. Good(cmd_buf)'
    <3>1. /\ cmd_buf' \in Seq(Bytes) /\ cmd_buf' \in Seq(STRING)
          /\ Len(cmd_buf') = len - 1 /\ strained' = strained
      BY <1>1, <1>2, <2>1
    <3>2. Len(cmd_buf') < MaxCmdLen
      BY <3>1, Here, Sizes
    <3>3. Len(cmd_buf') > ShownLen => "overlong" \in strained'
      BY <3>1, Here, Sizes
    <3> QED BY <3>1, <3>2, <3>3 DEF Good, IsLine
  <2>3. CursorInLine'
    BY <1>1, <1>2, <2>1, Here DEF CursorInLine, len
  <2>4. DefinedUnlessStrained'
    BY <1>2 DEF DefinedUnlessStrained
  <2>5. Leftovers'
    <3>1. CASE stale = <<>>
      BY <1>2, <2>2, <3>1, NothingLeft
    <3>2. CASE stale # <<>>
      <4> DEFINE B == Bytes \cup {NUL}
      <4>1. <<NUL>> \in Seq(B) /\ stale \in Seq(B) /\ Len(<<NUL>>) = 1
        BY Here
      <4> HIDE DEF B
      <4>2. <<NUL>> \o stale \in Seq(B) /\ Len(<<NUL>> \o stale) = 1 + Len(stale)
        BY <4>1, ConcatProperties
      <4>3. stale' \in Seq(B) /\ Len(stale') = 1 + Len(stale)
        BY <1>2, <3>2, <4>2
      <4>4. Len(cmd_buf') = len - 1
        BY <1>2, <2>1
      <4>5. len' + 1 + Len(stale') <= MaxCmdLen
        BY <4>3, <4>4, Here, Sizes DEF len
      <4>6. StaleIsCut'
        BY <1>1, <3>2, Here DEF StaleIsCut
      <4> QED BY <4>3, <4>5, <4>6 DEF Leftovers, B
    <3> QED BY <3>1, <3>2
  <2> QED BY <1>1, <1>2, <2>2, <2>3, <2>4, <2>5, Here, LineEdited
<1>3. CASE /\ move_left_num > len \/ UNCHANGED status
           /\ status' \in {status, "undefined"} /\ UNCHANGED <<cmd_buf, stale>>
  <2>1. Good(cmd_buf)' /\ Leftovers'
    BY <1>1, <1>3, LineKept
  <2>2. CursorInLine'
    BY <1>1, <1>3, Here DEF CursorInLine, len
  <2>3. DefinedUnlessStrained'
    <3>1. move_left_num > len => strained # {}
      BY Here
    <3> QED BY <1>1, <1>3, <3>1 DEF DefinedUnlessStrained
  <2> QED BY <1>1, <1>3, <2>1, <2>2, <2>3, Here, LineEdited DEF Statuses
<1> QED BY <1>2, <1>3 DEF Backspace

\* What the array holds once e has gone in at the cursor.
LEMMA InsertedProperties ==
  ASSUME IInv, NEW e \in Bytes \cup {NUL}, move_left_num > 0, move_left_num <= len
  PROVE  /\ Inserted(e) \in Seq(Bytes \cup {NUL})
         /\ Len(Inserted(e)) \in Nat /\ Len(Inserted(e)) = len + 1 + Len(stale)
         /\ e \in Bytes /\ stale = <<>> =>
              /\ Inserted(e) = InsertAt(cmd_buf, len - move_left_num + 1, e)
              /\ Inserted(e) \in Seq(Bytes) /\ Len(Inserted(e)) = len + 1
              /\ CString(Inserted(e)) = Inserted(e)
<1> DEFINE k == len - move_left_num + 1
           B == Bytes \cup {NUL}
           t == InsertAt(cmd_buf, k, e)
<1>1. /\ k \in 1 .. Len(cmd_buf) + 1 /\ cmd_buf \in Seq(Bytes) /\ stale \in Seq(B)
      /\ len \in Nat /\ len = Len(cmd_buf) /\ Len(stale) \in Nat
  BY Here
<1>2. cmd_buf \in Seq(B)
  <2>1. cmd_buf \in [1 .. Len(cmd_buf) -> Bytes] /\ Len(cmd_buf) \in Nat
    BY <1>1, LenProperties
  <2>2. cmd_buf \in [1 .. Len(cmd_buf) -> B]
    BY <2>1
  <2> HIDE DEF B
  <2> QED BY <2>1, <2>2
<1>3. Inserted(e) = t \o stale
  BY DEF Inserted
<1>4. e \in B
  OBVIOUS
<1> HIDE DEF k, B
<1>5. t \in Seq(B) /\ Len(t) = Len(cmd_buf) + 1
  BY ONLY <1>1, <1>2, <1>4, InsertAtProperties
<1>6. ASSUME e \in Bytes PROVE t \in Seq(Bytes) /\ Len(t) = Len(cmd_buf) + 1
  BY ONLY <1>1, <1>6, InsertAtProperties
<1> HIDE DEF t
<1>7. t \o stale \in Seq(B) /\ Len(t \o stale) = Len(t) + Len(stale)
  BY <1>1, <1>5, ConcatProperties
<1>8. ASSUME e \in Bytes, stale = <<>>
      PROVE  Inserted(e) = t /\ t \in Seq(Bytes) /\ CString(t) = t
  <2>1. t \o <<>> = t
    BY <1>5, ConcatEmptySeq
  <2>2. t \in Seq(Bytes)
    BY <1>6, <1>8
  <2>3. \A i \in 1 .. Len(t) : t[i] # NUL
    BY <2>2, ElementOfSeq, TypedBytes
  <2>4. CString(t) = t
    BY <2>2, <2>3, CStringOfText
  <2> QED BY <1>3, <1>8, <2>1, <2>2, <2>4
<1>9. Inserted(e) \in Seq(B) /\ Len(Inserted(e)) = len + 1 + Len(stale)
      /\ Len(Inserted(e)) \in Nat
  BY <1>1, <1>3, <1>5, <1>7
<1>10. e \in Bytes /\ stale = <<>> => Len(Inserted(e)) = len + 1
  BY <1>1, <1>5, <1>8
<1> QED BY <1>8, <1>9, <1>10 DEF t, k, B

\* The line and its leftovers after an insertion that leaves a terminator.
LEMMA ArrayDivided ==
  ASSUME NEW a \in Seq(Bytes \cup {NUL}), Len(a) <= MaxCmdLen, Len(CString(a)) < MaxCmdLen
  PROVE  /\ CString(a) \in Seq(Bytes) /\ Len(CString(a)) \in 0 .. Len(a)
         /\ SubSeq(a, Len(CString(a)) + 2, Len(a)) \in Seq(Bytes \cup {NUL})
         /\ Len(CString(a)) + 1 + Len(SubSeq(a, Len(CString(a)) + 2, Len(a))) <= MaxCmdLen
         /\ CString(a) = a => SubSeq(a, Len(CString(a)) + 2, Len(a)) = <<>>
<1> DEFINE B == Bytes \cup {NUL}
           l == CString(a)
           n == Len(l)
           m == n + 2
           rest == SubSeq(a, m, Len(a))
<1>1. a \in Seq(B) /\ Len(a) \in Nat /\ MaxCmdLen \in Nat
      /\ \A i \in 1 .. Len(a) : a[i] \in B
  BY LenProperties, ElementOfSeq, Sizes
<1>2. \A x \in B : x # NUL => x \in Bytes
  OBVIOUS
<1> HIDE DEF B
<1>3. /\ l \in Seq(B) /\ n \in 0 .. Len(a)
      /\ \A i \in 1 .. n : l[i] = a[i] /\ a[i] # NUL
  BY <1>1, CStringProperties
<1>4. l \in Seq(Bytes)
  <2> HIDE DEF l
  <2>1. \A i \in 1 .. n : l[i] \in Bytes
    <3> TAKE i \in 1 .. n
    <3>1. i \in 1 .. Len(a)
      BY <1>1, <1>3
    <3> QED BY <1>1, <1>2, <1>3, <3>1
  <2>2. n \in Nat /\ l \in [1 .. n -> B]
    BY <1>3, LenProperties
  <2>3. l \in [1 .. n -> Bytes]
    BY <2>1, <2>2
  <2> QED BY <2>2, <2>3
<1>5. n < MaxCmdLen /\ Len(a) <= MaxCmdLen
  OBVIOUS
<1> HIDE DEF l
<1>6. m \in Int /\ m = n + 2 /\ \A j \in m .. Len(a) : a[j] \in B
  BY <1>1, <1>3
<1> HIDE DEF m, n
<1>7. /\ rest \in Seq(B)
      /\ Len(rest) = IF m <= Len(a) THEN Len(a) - m + 1 ELSE 0
  BY <1>1, <1>6, SubSeqProperties
<1>8. n + 1 + Len(rest) <= MaxCmdLen
  <2> HIDE DEF rest
  <2>1. n \in Nat /\ n + 1 <= MaxCmdLen
    BY <1>1, <1>3, <1>5
  <2>2. CASE m <= Len(a)
    <3>1. Len(rest) = Len(a) - m + 1
      BY <1>7, <2>2
    <3> QED BY <1>1, <1>5, <1>6, <2>1, <3>1
  <2>3. CASE ~(m <= Len(a))
    <3>1. Len(rest) = 0
      BY <1>7, <2>3
    <3> QED BY <2>1, <3>1
  <2> QED BY <2>2, <2>3
<1>9. ASSUME l = a PROVE rest = <<>>
  <2>1. n = Len(a)
    BY <1>9 DEF n
  <2>2. Len(rest) = 0
    <3> HIDE DEF rest
    <3> QED BY <1>1, <1>3, <1>6, <1>7, <2>1
  <2> HIDE DEF rest
  <2> QED BY <1>7, <2>2, EmptySeq
<1> QED BY <1>3, <1>4, <1>7, <1>8, <1>9 DEF l, n, m, rest, B

LEMMA InsertCharInv ==
  ASSUME IInv, status = "open", NEW l \in CmdLines, InsertChar(l)
  PROVE  IInv'
<1>1. CASE UNCHANGED evars
  <2>1. /\ UNCHANGED <<g_cmd, history_cmd, cmd_index, entered, strained, status,
                       cmd_buf, stale, move_left_num>>
    BY <1>1 DEF evars
  <2>2. CursorInLine' /\ DefinedUnlessStrained'
    BY <2>1 DEF CursorInLine, DefinedUnlessStrained, IInv, len, has_input_cmd_num
  <2>3. Good(cmd_buf)' /\ Leftovers'
    BY <2>1, LineKept
  <2> QED BY <2>1, <2>2, <2>3, Here, LineEdited
<1>2. CASE ~UNCHANGED evars
  <2> DEFINE e == Byte(l, 1)
             a == Inserted(e)
             n == Len(CString(a))
  <2>1. /\ move_left_num > 0 /\ move_left_num <= len
        /\ strained' = strained \cup Overlong(n) \cup (IF e = NUL THEN {"cut"} ELSE {})
        /\ IF n < MaxCmdLen
           THEN /\ cmd_buf' = CString(a) /\ stale' = SubSeq(a, n + 2, Len(a))
                /\ UNCHANGED <<move_left_num, g_cmd, history_cmd, cmd_index, status, entered>>
           ELSE GoesWrong
    BY <1>2 DEF InsertChar
  <2>2. e \in Bytes \cup {NUL}
    BY TypedBytes
  <2> HIDE DEF e
  <2>3. /\ a \in Seq(Bytes \cup {NUL}) /\ Len(a) \in Nat /\ Len(a) <= MaxCmdLen
        /\ e \in Bytes /\ stale = <<>> =>
             a \in Seq(Bytes) /\ Len(a) = len + 1 /\ CString(a) = a
    BY <2>1, <2>2, InsertedProperties, Here
  <2> HIDE DEF a
  <2>4. /\ strained \subseteq strained' /\ strained' \subseteq Strains
        /\ n > ShownLen => "overlong" \in strained'
    BY <2>1, Here DEF Overlong, Strains
  <2>5. CASE n < MaxCmdLen
    <3>1. /\ CString(a) \in Seq(Bytes) /\ n \in 0 .. Len(a)
          /\ SubSeq(a, n + 2, Len(a)) \in Seq(Bytes \cup {NUL})
          /\ n + 1 + Len(SubSeq(a, n + 2, Len(a))) <= MaxCmdLen
          /\ CString(a) = a => SubSeq(a, n + 2, Len(a)) = <<>>
      BY <2>3, <2>5, ArrayDivided
    <3>2. /\ cmd_buf' = CString(a) /\ stale' = SubSeq(a, n + 2, Len(a))
          /\ UNCHANGED <<move_left_num, g_cmd, history_cmd, cmd_index, status, entered>>
      BY <2>1, <2>5
    <3>3. Good(cmd_buf)'
      <4>1. cmd_buf' \in Seq(STRING) /\ cmd_buf' \in Seq(Bytes) /\ Len(cmd_buf') = n
        BY <3>1, <3>2, TypedAreStrings
      <4> QED BY <2>4, <2>5, <4>1 DEF Good, IsLine
    <3>4. ASSUME "cut" \notin strained'
          PROVE  stale' = <<>> /\ Len(cmd_buf') = len + 1
      <4>1. e # NUL
        BY <2>1, <3>4
      <4>2. stale = <<>>
        BY <2>4, <3>4, Here
      <4> QED BY <2>2, <2>3, <3>1, <3>2, <4>1, <4>2
    <3>5. Leftovers'
      <4>1. StaleIsCut'
        BY <3>4 DEF StaleIsCut
      <4>2. stale' \in Seq(Bytes \cup {NUL}) /\ len' + 1 + Len(stale') <= MaxCmdLen
        BY <3>1, <3>2 DEF len
      <4> QED BY <4>1, <4>2 DEF Leftovers
    <3>6. CursorInLine'
      <4>1. "cut" \notin strained' => move_left_num' <= len'
        BY <2>1, <3>2, <3>4, Here DEF len
      <4> QED BY <4>1 DEF CursorInLine
    <3>7. DefinedUnlessStrained'
      BY <3>2 DEF DefinedUnlessStrained
    <3> QED BY <2>4, <3>2, <3>3, <3>5, <3>6, <3>7, Here, LineEdited
  <2>6. CASE ~(n < MaxCmdLen)
    <3>1. n \in Nat
      BY <2>3, CStringProperties
    <3>2. "overlong" \in strained'
      BY <2>4, <2>6, <3>1, Sizes
    <3>3. /\ status' = "undefined"
          /\ UNCHANGED <<cmd_buf, stale, move_left_num, g_cmd, history_cmd, cmd_index,
                         entered>>
      BY <2>1, <2>6 DEF GoesWrong
    <3>4. Good(cmd_buf)' /\ Leftovers'
      BY <2>4, <3>3, LineKept
    <3>5. CursorInLine' /\ DefinedUnlessStrained'
      BY <3>2, <3>3 DEF CursorInLine, DefinedUnlessStrained
    <3> QED BY <2>4, <3>3, <3>4, <3>5, Here, LineEdited DEF Statuses
  <2> QED BY <2>5, <2>6
<1> QED BY <1>1, <1>2

\* A sequence without its first k elements, if it has as many.
LEMMA DroppedProperties ==
  ASSUME NEW S, NEW s \in Seq(S), NEW k \in Nat
  PROVE  /\ SubSeq(s, k + 1, Len(s)) \in Seq(S)
         /\ Len(SubSeq(s, k + 1, Len(s))) = IF k <= Len(s) THEN Len(s) - k ELSE 0
<1> DEFINE m == k + 1
<1>1. m \in Int /\ m = k + 1 /\ Len(s) \in Nat /\ \A j \in m .. Len(s) : s[j] \in S
  BY LenProperties, ElementOfSeq
<1> HIDE DEF m
<1>2. /\ SubSeq(s, m, Len(s)) \in Seq(S)
      /\ Len(SubSeq(s, m, Len(s))) = IF m <= Len(s) THEN Len(s) - m + 1 ELSE 0
  BY <1>1, SubSeqProperties
<1>3. (IF m <= Len(s) THEN Len(s) - m + 1 ELSE 0) = IF k <= Len(s) THEN Len(s) - k ELSE 0
  BY <1>1
<1> QED BY <1>2, <1>3 DEF m

LEMMA AppendChunkInv ==
  ASSUME IInv, status = "open", NEW l \in CmdLines, AppendChunk(l)
  PROVE  IInv'
<1>1. /\ l \in Seq(Bytes) /\ Len(l) \in Nat
      /\ UNCHANGED <<move_left_num, g_cmd, history_cmd, cmd_index, entered>>
      /\ strained \subseteq strained' /\ strained' \subseteq Strains
      /\ len + Len(l) > ShownLen => "overlong" \in strained'
  BY TypedBytes, Here, Sizes DEF AppendChunk, Overlong, GoesWrong, Strains
<1>2. CASE len + Len(l) < MaxCmdLen
  <2>1. /\ cmd_buf' = cmd_buf \o l /\ UNCHANGED status
        /\ stale' = SubSeq(stale, Len(l) + 1, Len(stale))
    BY <1>2 DEF AppendChunk
  <2>2. cmd_buf' \in Seq(Bytes) /\ Len(cmd_buf') = len + Len(l)
    BY <1>1, <2>1, Here, ConcatProperties
  <2>3. Good(cmd_buf)'
    <3>1. cmd_buf' \in Seq(STRING)
      BY <2>2, TypedAreStrings
    <3> QED BY <1>1, <1>2, <2>2, <3>1 DEF Good, IsLine
  <2>4. CursorInLine'
    <3>1. "abandoned" \notin strained /\ "cut" \notin strained => move_left_num <= len
      BY Here
    <3> QED BY <1>1, <2>1, <2>2, <3>1, Here DEF CursorInLine, len
  <2>5. DefinedUnlessStrained'
    BY <2>1 DEF DefinedUnlessStrained
  <2>6. Leftovers'
    <3> DEFINE B == Bytes \cup {NUL}
    <3>1. stale \in Seq(B) /\ Len(stale) \in Nat /\ len + 1 + Len(stale) <= MaxCmdLen
      BY Here
    <3> HIDE DEF B
    <3>2. /\ stale' \in Seq(B)
          /\ Len(stale') = IF Len(l) <= Len(stale) THEN Len(stale) - Len(l) ELSE 0
      BY <1>1, <2>1, <3>1, DroppedProperties
    <3>3. len' + 1 + Len(stale') <= MaxCmdLen
      <4>1. len' = len + Len(l) /\ len \in Nat /\ MaxCmdLen \in Nat
        BY <2>2, Here, Sizes DEF len
      <4>2. CASE Len(l) <= Len(stale)
        <5>1. Len(stale') = Len(stale) - Len(l)
          BY <3>2, <4>2
        <5> QED BY <1>1, <3>1, <4>1, <5>1
      <4>3. CASE ~(Len(l) <= Len(stale))
        <5>1. Len(stale') = 0
          BY <3>2, <4>3
        <5> QED BY <1>1, <1>2, <4>1, <5>1
      <4> QED BY <4>2, <4>3
    <3>4. StaleIsCut'
      <4>1. stale' # <<>> => stale # <<>>
        <5>1. stale = <<>> => Len(stale) = 0
          OBVIOUS
        <5>2. Len(stale) = 0 => Len(stale') = 0
          BY <1>1, <3>2
        <5>3. Len(stale') = 0 => stale' = <<>>
          BY <3>2, EmptySeq
        <5> QED BY <5>1, <5>2, <5>3
      <4> QED BY <1>1, <4>1, Here DEF StaleIsCut
    <3> QED BY <3>2, <3>3, <3>4 DEF Leftovers, B
  <2> QED BY <1>1, <2>1, <2>3, <2>4, <2>5, <2>6, Here, LineEdited
<1>3. CASE ~(len + Len(l) < MaxCmdLen)
  <2>1. "overlong" \in strained'
    BY <1>1, <1>3, Here, Sizes
  <2>2. status' = "undefined" /\ UNCHANGED <<cmd_buf, stale>>
    BY <1>3 DEF AppendChunk, GoesWrong
  <2>3. Good(cmd_buf)' /\ Leftovers'
    BY <1>1, <2>2, LineKept
  <2>4. CursorInLine' /\ DefinedUnlessStrained'
    BY <2>1, <2>2 DEF CursorInLine, DefinedUnlessStrained
  <2> QED BY <1>1, <2>1, <2>2, <2>3, <2>4, Here, LineEdited DEF Statuses
<1> QED BY <1>2, <1>3

LEMMA OverreadInv ==
  ASSUME IInv, Overread
  PROVE  IInv'
<1>1. /\ status' = "undefined" /\ strained' = strained \cup {"unterminated"}
      /\ UNCHANGED <<cmd_buf, stale, move_left_num, g_cmd, history_cmd, cmd_index, entered>>
  BY DEF Overread, GoesWrong
<1>2. strained \subseteq strained' /\ strained' \subseteq Strains
  BY <1>1, Here DEF Strains
<1>3. Good(cmd_buf)' /\ Leftovers'
  BY <1>1, <1>2, LineKept
<1>4. CursorInLine' /\ DefinedUnlessStrained'
  BY <1>1 DEF CursorInLine, DefinedUnlessStrained
<1> QED BY <1>1, <1>2, <1>3, <1>4, Here, LineEdited DEF Statuses

LEMMA HangupInv ==
  ASSUME IInv, Hangup
  PROVE  IInv'
<1>1. /\ status' = "eof"
      /\ UNCHANGED <<cmd_buf, stale, move_left_num, g_cmd, history_cmd, cmd_index, entered,
                     strained>>
  BY DEF Hangup
<1>2. Good(cmd_buf)' /\ Leftovers'
  BY <1>1, LineKept
<1>3. CursorInLine' /\ DefinedUnlessStrained'
  BY <1>1 DEF CursorInLine, DefinedUnlessStrained
<1> QED BY <1>1, <1>2, <1>3, Here, LineEdited DEF Statuses

LEMMA ReadEofInv ==
  ASSUME IInv, ReadEof
  PROVE  IInv'
<1>1. /\ status' \in {"eof", "killed"}
      /\ UNCHANGED <<move_left_num, g_cmd, history_cmd, cmd_index, entered, strained>>
  BY DEF ReadEof
<1>2. CursorInLine' /\ DefinedUnlessStrained'
  BY <1>1 DEF CursorInLine, DefinedUnlessStrained
<1>3. CASE UNCHANGED <<cmd_buf, stale>>
  <2>1. Good(cmd_buf)' /\ Leftovers'
    BY <1>1, <1>3, LineKept
  <2> QED BY <1>1, <1>2, <2>1, Here, LineEdited DEF Statuses
<1>4. CASE /\ move_left_num \in 1 .. len
           /\ cmd_buf' = SubSeq(cmd_buf, 1, len - move_left_num)
           /\ stale' = SubSeq(cmd_buf, len - move_left_num + 1, len) \o stale
  <2> DEFINE k == len - move_left_num
             B == Bytes \cup {NUL}
  <2>1. /\ k \in 0 .. Len(cmd_buf) /\ cmd_buf \in Seq(Bytes) /\ cmd_buf \in Seq(STRING)
        /\ stale \in Seq(B) /\ Len(stale) \in Nat /\ len = Len(cmd_buf) /\ len \in Nat
        /\ len + 1 + Len(stale) <= MaxCmdLen
    BY <1>4, Here
  <2>2. cmd_buf' = Before(cmd_buf, k) /\ stale' = Behind(cmd_buf, k) \o stale
    BY <1>4, <2>1 DEF Before, Behind
  <2> HIDE DEF k
  <2>3. /\ cmd_buf' \in Seq(Bytes) /\ Len(cmd_buf') = k
        /\ Behind(cmd_buf, k) \in Seq(Bytes) /\ Len(Behind(cmd_buf, k)) = Len(cmd_buf) - k
    BY ONLY <2>1, <2>2, DividedProperties
  <2>4. cmd_buf' \in Seq(STRING)
    BY ONLY <2>1, <2>2, DividedProperties
  <2>5. Good(cmd_buf)'
    BY <1>1, <2>1, <2>3, <2>4, Here, Sizes DEF Good, IsLine
  <2>6. Leftovers'
    <3> DEFINE b == Behind(cmd_buf, k)
    <3>1. b \in Seq(B)
      <4>1. Len(b) \in Nat /\ b \in [1 .. Len(b) -> Bytes]
        BY <2>3, LenProperties
      <4> HIDE DEF b
      <4>2. b \in [1 .. Len(b) -> B]
        BY <4>1
      <4> HIDE DEF B
      <4> QED BY <4>1, <4>2
    <3>2. Len(b) = Len(cmd_buf) - k
      BY <2>3
    <3> HIDE DEF b, B
    <3>3. b \o stale \in Seq(B) /\ Len(b \o stale) = Len(b) + Len(stale)
      BY <2>1, <3>1, ConcatProperties
    <3>4. stale' = b \o stale
      BY <2>2 DEF b
    <3>5. len' + 1 + Len(stale') <= MaxCmdLen
      BY <2>1, <2>3, <3>2, <3>3, <3>4, Sizes DEF len
    <3>6. StaleIsCut'
      BY <1>1 DEF StaleIsCut
    <3> QED BY <3>3, <3>4, <3>5, <3>6 DEF Leftovers, B
  <2> QED BY <1>1, <1>2, <2>5, <2>6, Here, LineEdited DEF Statuses
<1> QED BY <1>3, <1>4 DEF ReadEof

-----------------------------------------------------------------------------
(* A step that changes more than the line *)

LEMMA WentWrong ==
  ASSUME IInv, GoesWrong, UNCHANGED strained,
         strained # {} \/ has_input_cmd_num = MaxHistory
  PROVE  IInv'
<1>1. /\ status' = "undefined"
      /\ UNCHANGED <<cmd_buf, stale, move_left_num, g_cmd, history_cmd, cmd_index, entered,
                     strained>>
  BY DEF GoesWrong
<1>2. CursorInLine' /\ DefinedUnlessStrained'
  BY <1>1 DEF CursorInLine, DefinedUnlessStrained, has_input_cmd_num
<1>3. Good(cmd_buf)' /\ Leftovers'
  BY <1>1, LineKept
<1> QED BY <1>1, <1>2, <1>3, Here, LineEdited DEF Statuses

\* A line that is brought back, from g_cmd or from the history.
LEMMA LineRecalled ==
  ASSUME IInv, status = "open", UNCHANGED <<history_cmd, status, entered, strained>>,
         move_left_num' = 0, cmd_buf' = g_cmd', stale' = <<>>, Good(g_cmd'),
         g_cmd' = <<>> \/ g_cmd' \in entered,
         cmd_index' \in 0 .. has_input_cmd_num
  PROVE  IInv'
<1>1. Good(g_cmd)' /\ Good(cmd_buf)'
  BY DEF Good
<1>2. \A i \in 1 .. has_input_cmd_num' : Good(history_cmd[i])'
  BY DEF IInv, AllGood, Good, has_input_cmd_num
<1>3. CursorInLine'
  <2>1. len' \in Nat
    BY <1>1, LenProperties DEF Good, len
  <2> QED BY <2>1 DEF CursorInLine
<1>4. DefinedUnlessStrained' /\ AllEntered'
  BY DEF DefinedUnlessStrained, AllEntered, IInv, has_input_cmd_num
<1>5. Leftovers'
  BY <1>1, NothingLeft
<1>6. TypeOK'
  <2>1. IsLine(cmd_buf') /\ IsLine(g_cmd')
    BY DEF Good
  <2>2. has_input_cmd_num' = has_input_cmd_num
    BY DEF has_input_cmd_num
  <2> QED BY <1>5, <2>1, <2>2 DEF IInv, TypeOK, Leftovers
<1> QED BY <1>1, <1>2, <1>3, <1>4, <1>5, <1>6 DEF IInv, AllGood, Leftovers

LEMMA RecallLastInv ==
  ASSUME IInv, status = "open", RecallLast
  PROVE  IInv'
<1>1. /\ move_left_num' = 0 /\ cmd_buf' = g_cmd' /\ stale' = <<>>
      /\ UNCHANGED <<g_cmd, history_cmd, cmd_index, status, entered, strained>>
  BY DEF RecallLast
<1>2. Good(g_cmd') /\ (g_cmd' = <<>> \/ g_cmd' \in entered)
  BY <1>1 DEF IInv, AllGood, AllEntered
<1> QED BY <1>1, <1>2, Here, LineRecalled

LEMMA RecallInv ==
  ASSUME IInv, status = "open", NEW i \in 0 .. has_input_cmd_num,
         NEW entry, Good(entry), entry = <<>> \/ entry \in entered, Recall(entry, i)
  PROVE  IInv'
<1>1. CASE Len(entry) <= ShownLen
  <2>1. /\ move_left_num' = 0 /\ g_cmd' = entry /\ cmd_buf' = entry /\ cmd_index' = i
        /\ stale' = <<>>
        /\ UNCHANGED <<history_cmd, status, entered, strained>>
    BY <1>1 DEF Recall
  <2> QED BY <2>1, LineRecalled
<1>2. CASE ~(Len(entry) <= ShownLen)
  <2>1. GoesWrong /\ UNCHANGED strained
    BY <1>2 DEF Recall
  <2>2. "overlong" \in strained
    <3>1. Len(entry) \in Nat
      BY LenProperties DEF Good
    <3> QED BY <1>2, <3>1, Sizes DEF Good
  <2> QED BY <2>1, <2>2, WentWrong
<1> QED BY <1>1, <1>2

LEMMA EmptyIsGood == Good(<<>>)
<1>1. <<>> \in Seq(STRING) /\ <<>> \in Seq(Bytes) /\ Len(<<>>) = 0
  OBVIOUS
<1> QED BY <1>1, Sizes DEF Good, IsLine

LEMMA MoveUpInv ==
  ASSUME IInv, status = "open", NEW l \in CmdLines, MoveUp(l)
  PROVE  IInv'
<1>1. CASE cmd_index = 0
  BY <1>1, RecallLastInv DEF MoveUp
<1>2. CASE cmd_index # 0
  <2>1. /\ cmd_index - 1 \in 0 .. has_input_cmd_num
        /\ cmd_index \in 1 .. has_input_cmd_num
    BY <1>2, Here
  <2>2. Good(history_cmd[cmd_index]) /\ history_cmd[cmd_index] \in entered
    BY <2>1 DEF IInv, AllGood, AllEntered
  <2>3. Recall(history_cmd[cmd_index], cmd_index - 1)
    BY <1>2 DEF MoveUp
  <2> QED BY <2>1, <2>2, <2>3, RecallInv
<1> QED BY <1>1, <1>2

LEMMA MoveDownInv ==
  ASSUME IInv, status = "open", NEW l \in CmdLines, MoveDown(l)
  PROVE  IInv'
<1>1. CASE cmd_index = has_input_cmd_num /\ RecallLast
  BY <1>1, RecallLastInv
<1>2. CASE /\ cmd_index + 1 < has_input_cmd_num
           /\ Recall(history_cmd[cmd_index + 2], cmd_index + 1)
  <2>1. /\ cmd_index + 1 \in 0 .. has_input_cmd_num
        /\ cmd_index + 2 \in 1 .. has_input_cmd_num
    BY <1>2, Here
  <2>2. Good(history_cmd[cmd_index + 2]) /\ history_cmd[cmd_index + 2] \in entered
    BY <2>1 DEF IInv, AllGood, AllEntered
  <2> QED BY <1>2, <2>1, <2>2, RecallInv
<1>3. CASE cmd_index + 1 = has_input_cmd_num /\ has_input_cmd_num < MaxHistory
  <2>1. cmd_index + 1 \in 0 .. has_input_cmd_num
    BY <1>3, Here
  <2>2. Recall(<<>>, cmd_index + 1)
    BY <1>3, Here DEF MoveDown
  <2> QED BY <2>1, <2>2, EmptyIsGood, RecallInv
<1>4. CASE cmd_index + 1 = has_input_cmd_num /\ ~(has_input_cmd_num < MaxHistory)
  <2>1. GoesWrong /\ UNCHANGED strained
    BY <1>4, Here DEF MoveDown
  <2>2. has_input_cmd_num = MaxHistory
    BY <1>4, Here, Sizes
  <2> QED BY <2>1, <2>2, WentWrong
<1> QED BY <1>1, <1>2, <1>3, <1>4 DEF MoveDown

LEMMA EnterInv ==
  ASSUME IInv, status = "open", NEW l \in CmdLines, Enter(l)
  PROVE  IInv'
<1>1. /\ move_left_num' = 0 /\ UNCHANGED strained
      /\ g_cmd' = IF cmd_buf = <<>> THEN g_cmd ELSE cmd_buf
      /\ entered' = IF cmd_buf = <<>> THEN entered ELSE entered \cup {cmd_buf}
  BY DEF Enter
<1>2. /\ entered \subseteq entered'
      /\ \A e \in entered' : IsLine(e)
  BY <1>1 DEF IInv, TypeOK
<1>3. Good(g_cmd)' /\ (g_cmd' = <<>> \/ g_cmd' \in entered')
  BY <1>1 DEF IInv, AllGood, AllEntered, Good
<1>4. /\ status' \in {"open", "closed"}
      /\ UNCHANGED <<cmd_buf, stale>> \/ (cmd_buf' = <<>> /\ stale' = <<>>)
  BY DEF Enter
<1>5. Good(cmd_buf)' /\ Leftovers'
  <2>1. CASE UNCHANGED <<cmd_buf, stale>>
    BY <1>1, <2>1, LineKept
  <2>2. CASE cmd_buf' = <<>> /\ stale' = <<>>
    <3>1. Good(cmd_buf)'
      BY <1>1, <2>2, EmptyIsGood DEF Good
    <3> QED BY <2>2, <3>1, NothingLeft
  <2> QED BY <1>4, <2>1, <2>2
<1>6. CursorInLine' /\ DefinedUnlessStrained'
  <2>1. len' \in Nat
    BY <1>5, LenProperties DEF Good, len
  <2> QED BY <1>1, <1>4, <2>1 DEF CursorInLine, DefinedUnlessStrained
<1>7. CASE UNCHANGED <<history_cmd, cmd_index>>
  <2>1. has_input_cmd_num' = has_input_cmd_num
    BY <1>7 DEF has_input_cmd_num
  <2>2. AllGood' /\ AllEntered'
    BY <1>1, <1>2, <1>3, <1>5, <1>7, <2>1 DEF IInv, AllGood, AllEntered, Good
  <2>3. TypeOK'
    BY <1>1, <1>2, <1>3, <1>4, <1>5, <1>7, <2>1 DEF IInv, TypeOK, Good, Leftovers
  <2> QED BY <1>5, <1>6, <2>2, <2>3 DEF IInv, Leftovers
<1>8. CASE /\ cmd_buf # <<>> /\ has_input_cmd_num < MaxHistory
           /\ history_cmd' = Append(history_cmd, cmd_buf)
           /\ cmd_index' = has_input_cmd_num + 1
  <2>1. /\ history_cmd' \in Seq(Seq(STRING))
        /\ has_input_cmd_num' = has_input_cmd_num + 1
        /\ \A i \in 1 .. has_input_cmd_num : history_cmd'[i] = history_cmd[i]
        /\ history_cmd'[has_input_cmd_num + 1] = cmd_buf
    <3>1. history_cmd \in Seq(Seq(STRING)) /\ cmd_buf \in Seq(STRING)
      BY Here DEF IInv, TypeOK
    <3> QED BY <1>8, <3>1 DEF has_input_cmd_num
  <2>2. Good(cmd_buf) /\ cmd_buf \in entered'
    BY <1>1, <1>8 DEF IInv, AllGood
  <2>3. ASSUME NEW i \in 1 .. has_input_cmd_num'
        PROVE  Good(history_cmd'[i]) /\ history_cmd'[i] \in entered'
    <3>1. i \in 1 .. has_input_cmd_num \/ i = has_input_cmd_num + 1
      BY <2>1, Here
    <3>2. CASE i \in 1 .. has_input_cmd_num
      BY <1>2, <2>1, <3>2 DEF IInv, AllGood, AllEntered
    <3>3. CASE i = has_input_cmd_num + 1
      BY <2>1, <2>2, <3>3
    <3> QED BY <3>1, <3>2, <3>3
  <2>4. AllGood' /\ AllEntered'
    BY <1>1, <1>3, <1>5, <2>3 DEF AllGood, AllEntered, Good
  <2>5. cmd_index' \in 0 .. has_input_cmd_num' /\ has_input_cmd_num' <= MaxHistory
    BY <1>8, <2>1, Here, Sizes
  <2>6. TypeOK'
    BY <1>1, <1>2, <1>3, <1>4, <1>5, <2>1, <2>3, <2>5 DEF IInv, TypeOK, Good, Leftovers
  <2> QED BY <1>5, <1>6, <2>4, <2>6 DEF IInv, Leftovers
<1>9. \/ UNCHANGED <<history_cmd, cmd_index>>
      \/ cmd_buf # <<>> /\ UpdateHistory
  <2>1. cmd_buf = <<>> => Byte(cmd_buf, 1) = NUL
    BY DEF Byte
  <2> QED BY <2>1 DEF Enter
<1> QED BY <1>7, <1>8, <1>9 DEF UpdateHistory

-----------------------------------------------------------------------------
LEMMA NextIInv == IInv /\ [Next]_evars => IInv'
<1> SUFFICES ASSUME IInv, [Next]_evars PROVE IInv'
  OBVIOUS
<1>1. CASE UNCHANGED evars
  <2>1. /\ UNCHANGED <<g_cmd, history_cmd, cmd_index, entered, strained, status,
                       cmd_buf, stale, move_left_num>>
    BY <1>1 DEF evars
  <2>2. CursorInLine' /\ DefinedUnlessStrained'
    BY <2>1 DEF CursorInLine, DefinedUnlessStrained, IInv, len, has_input_cmd_num
  <2>3. Good(cmd_buf)' /\ Leftovers'
    BY <2>1, LineKept
  <2> QED BY <2>1, <2>2, <2>3, Here, LineEdited
<1>2. ASSUME NEW l \in CmdLines, status = "open", Dispatch(l) PROVE IInv'
  <2>1. CASE Ignored(l)
    BY <1>1, <2>1 DEF Ignored
  <2> QED BY <1>2, <2>1, AbandonInv, MoveUpInv, MoveDownInv, MoveInv, BackspaceInv,
             InsertCharInv, AppendChunkInv, EnterInv DEF Dispatch
<1> QED BY <1>1, <1>2, OverreadInv, HangupInv, ReadEofInv DEF Next

LEMMA Invariance == Spec => []IInv
BY InitIInv, NextIInv, PTL DEF Spec

-----------------------------------------------------------------------------
(* What holds of every execution *)

\* The arrays hold C strings that fit them, and cmd_index is a place in the
\* history, whatever is typed.
THEOREM TypeCorrect == Spec => []TypeOK
<1>1. IInv => TypeOK
  BY DEF IInv
<1> QED BY <1>1, Invariance, PTL

\* The cursor leaves the line only where Ctrl-C or Ctrl-L drops the line from
\* under it, or the zero byte of Ctrl-@ or of a read that fails cuts the line
\* there; for arrays of any size and reads of any bytes.
THEOREM CursorStays == Spec => []CursorInLine
<1>1. IInv => CursorInLine
  BY DEF IInv
<1> QED BY <1>1, Invariance, PTL

\* No step of the editor goes outside an array of its own before one of five
\* things has happened: a line dropped from under its cursor, a line cut by a
\* zero byte, a line too long for keyboard_move_up, a read that fills its array,
\* a full history.
THEOREM EditingGoesRight == Spec => []DefinedUnlessStrained
<1>1. IInv => DefinedUnlessStrained
  BY DEF IInv
<1> QED BY <1>1, Invariance, PTL

-----------------------------------------------------------------------------
(* The editor implements the gap buffer *)

\* GapBuffer has the sequence operators of the library under its own name.
LEMMA SameOperators ==
  /\ \A s : Line!Front(s) = Front(s) /\ Line!Last(s) = Last(s)
  /\ \A s, t : Line!IsStrictPrefix(s, t) <=> IsStrictPrefix(s, t)
BY DEF Line!Front, Line!Last, Line!IsStrictPrefix, Line!IsPrefix, Front, Last,
       IsStrictPrefix, IsPrefix

LEMMA LongerIsStrictPrefix ==
  ASSUME NEW S, NEW s \in Seq(S), NEW t \in Seq(S), Len(s) < Len(t),
         \A j \in 1 .. Len(s) : t[j] = s[j]
  PROVE  IsStrictPrefix(s, t)
<1>1. Len(s) \in Nat /\ Len(t) \in Nat /\ Len(s) \in 0 .. Len(s) /\ Len(s) \in 0 .. Len(t)
  BY LenProperties
<1>2. /\ Before(s, Len(s)) \in Seq(S) /\ Len(Before(s, Len(s))) = Len(s)
      /\ \A j \in 1 .. Len(s) : Before(s, Len(s))[j] = s[j]
  BY <1>1, DividedProperties
<1>3. /\ Before(t, Len(s)) \in Seq(S) /\ Len(Before(t, Len(s))) = Len(s)
      /\ \A j \in 1 .. Len(s) : Before(t, Len(s))[j] = t[j]
  BY <1>1, DividedProperties
<1>4. Before(s, Len(s)) = Before(t, Len(s))
  BY <1>2, <1>3, SeqEqual
<1> QED BY <1>1, <1>4 DEF IsStrictPrefix, IsPrefix, Before

\* With the cursor at the end, the whole line is before it.
LEMMA DivideAtEnd ==
  ASSUME NEW S, NEW s \in Seq(S)
  PROVE  Before(s, Len(s)) = s /\ Behind(s, Len(s)) = <<>>
<1>1. Len(s) \in Nat /\ Len(s) \in 0 .. Len(s)
  BY LenProperties
<1>2. /\ Before(s, Len(s)) \in Seq(S) /\ Len(Before(s, Len(s))) = Len(s)
      /\ (\A j \in 1 .. Len(s) : Before(s, Len(s))[j] = s[j])
      /\ Behind(s, Len(s)) \in Seq(S) /\ Len(Behind(s, Len(s))) = Len(s) - Len(s)
  BY <1>1, DividedProperties
<1> QED BY <1>1, <1>2, SeqEqual, EmptySeq

\* What the user sees while the session is inside what is promised.
Divided ==
  /\ cursor = len - move_left_num /\ cursor \in 0 .. len /\ move_left_num <= len
  /\ LeftOfCursor = Before(cmd_buf, cursor)
  /\ RightOfCursor = Behind(cmd_buf, cursor)
  /\ Remembered = entered
  /\ Progress = "running"

Running == IInv /\ Inside /\ status = "open"

LEMMA RunningIsDivided == Running => Divided
<1> SUFFICES ASSUME Running PROVE Divided
  OBVIOUS
<1>1. IInv /\ Inside /\ status = "open"
  BY DEF Running
<1>2. move_left_num <= len /\ move_left_num \in Nat /\ len \in Nat
  BY <1>1, Here DEF Inside
<1>3. cursor = len - move_left_num /\ cursor \in 0 .. len
  BY <1>2 DEF cursor
<1>4. LeftOfCursor = Before(cmd_buf, cursor) /\ RightOfCursor = Behind(cmd_buf, cursor)
  BY <1>1 DEF LeftOfCursor, RightOfCursor, Shown, Before, Behind, len
<1>5. Remembered = entered /\ Progress = "running"
  BY <1>1 DEF Remembered, Progress
<1> QED BY <1>2, <1>3, <1>4, <1>5 DEF Divided

LEMMA RunningStaysDivided == Running' => Divided'
BY RunningIsDivided, PTL

\* Outside, and after the end of the connection, nothing is left to see.
Nothing == LeftOfCursor = <<>> /\ RightOfCursor = <<>>

LEMMA OutsideShowsNothing == ~Inside => Nothing /\ Remembered = {} /\ Progress = "outside"
BY DEF Nothing, LeftOfCursor, RightOfCursor, Shown, Remembered, Progress

LEMMA OutsideStaysSo == (~Inside)' => (Nothing /\ Remembered = {} /\ Progress = "outside")'
BY OutsideShowsNothing, PTL

LEMMA EndShowsNothing ==
  status \in {"eof", "closed", "killed"} /\ Inside =>
    Nothing /\ Remembered = entered /\ Progress = "over"
BY DEF Nothing, LeftOfCursor, RightOfCursor, Shown, Remembered, Progress

LEMMA EndIsSeen ==
  (status \in {"eof", "closed", "killed"} /\ Inside)' =>
    (Nothing /\ Remembered = entered /\ Progress = "over")'
BY EndShowsNothing, PTL

\* What is left outside stays there, and so does an ended session.
LEMMA WaysOut ==
  ASSUME IInv, Next
  PROVE  (Inside' => Inside) /\ (status # "open" => ReadEof)
<1>1. strained \subseteq strained' /\ has_input_cmd_num <= has_input_cmd_num'
  <2>1. history_cmd \in Seq(Seq(STRING)) /\ cmd_buf \in Seq(STRING)
    BY Here DEF IInv, TypeOK
  <2>2. history_cmd' = history_cmd \/ history_cmd' = Append(history_cmd, cmd_buf)
    <3>1. CASE Overread \/ Hangup \/ ReadEof
      BY <3>1 DEF Overread, GoesWrong, Hangup, ReadEof
    <3>2. ASSUME NEW l \in CmdLines, Dispatch(l)
          PROVE  history_cmd' = history_cmd \/ history_cmd' = Append(history_cmd, cmd_buf)
      BY <3>2 DEF Dispatch, Ignored, Abandon, MoveUp, MoveDown, MoveRight, MoveLeft,
             Backspace, InsertChar, AppendChunk, Enter, UpdateHistory, Recall,
             RecallLast, GoesWrong, evars
    <3> QED BY <3>1, <3>2 DEF Next
  <2>3. strained \subseteq strained'
    <3>1. CASE Overread \/ Hangup \/ ReadEof
      BY <3>1 DEF Overread, GoesWrong, Hangup, ReadEof
    <3>2. ASSUME NEW l \in CmdLines, Dispatch(l) PROVE strained \subseteq strained'
      BY <3>2 DEF Dispatch, Ignored, Abandon, MoveUp, MoveDown, MoveRight, MoveLeft,
             Backspace, InsertChar, AppendChunk, Enter, Recall, RecallLast, evars
    <3> QED BY <3>1, <3>2 DEF Next
  <2>4. has_input_cmd_num' \in {has_input_cmd_num, has_input_cmd_num + 1}
    BY <2>1, <2>2 DEF has_input_cmd_num
  <2> QED BY <2>3, <2>4, Here
<1>2. Inside' => Inside
  <2>1. has_input_cmd_num' \in Nat /\ has_input_cmd_num \in Nat /\ MaxHistory \in Nat
    <3>1. IInv'
      BY NextIInv
    <3>2. history_cmd' \in Seq(Seq(STRING))
      BY <3>1 DEF IInv, TypeOK
    <3> QED BY <3>2, Here, Sizes, LenProperties DEF has_input_cmd_num
  <2> QED BY <1>1, <2>1 DEF Inside
<1>3. status # "open" => ReadEof
  BY DEF Next, Hangup
<1> QED BY <1>2, <1>3

-----------------------------------------------------------------------------
(* A key within the promise, as the user sees it *)

Stays == UNCHANGED <<LeftOfCursor, RightOfCursor, Remembered, Progress>>

LEMMA MovesRefine ==
  ASSUME Running, Running', NEW l \in CmdLines, MoveLeft(l) \/ MoveRight(l)
  PROVE  Line!MoveLeft \/ Line!MoveRight \/ Stays
<1>1. Divided /\ Divided'
  BY RunningIsDivided, RunningStaysDivided
<1>2. cmd_buf' = cmd_buf /\ cmd_buf \in Seq(Bytes) /\ len = Len(cmd_buf) /\ len \in Nat
      /\ len' = len /\ move_left_num \in Nat
  BY Here DEF Running, MoveLeft, MoveRight, len
<1>3. /\ LeftOfCursor = Before(cmd_buf, cursor) /\ RightOfCursor = Behind(cmd_buf, cursor)
      /\ LeftOfCursor' = Before(cmd_buf, cursor')
      /\ RightOfCursor' = Behind(cmd_buf, cursor')
  BY <1>1, <1>2 DEF Divided, Before, Behind
<1>4. cursor \in 0 .. len /\ cursor = len - move_left_num /\ cursor' = len - move_left_num'
  BY <1>1, <1>2 DEF Divided
<1>5. CASE cursor' = cursor - 1 /\ cursor \in 1 .. len
  <2>1. /\ LeftOfCursor' = Front(LeftOfCursor)
        /\ RightOfCursor' = <<Last(LeftOfCursor)>> \o RightOfCursor
    BY <1>2, <1>3, <1>5, DivideBack
  <2>2. LeftOfCursor # <<>>
    <3>1. Len(Before(cmd_buf, cursor)) = cursor
      BY <1>2, <1>4, DividedProperties
    <3> QED BY <1>2, <1>3, <1>5, <3>1
  <2> QED BY <2>1, <2>2, SameOperators DEF Line!MoveLeft
<1>6. CASE cursor' = cursor + 1 /\ cursor \in 0 .. len - 1
  <2>1. /\ LeftOfCursor' = Append(LeftOfCursor, Head(RightOfCursor))
        /\ RightOfCursor' = Tail(RightOfCursor)
        /\ RightOfCursor # <<>>
    BY <1>2, <1>3, <1>6, DivideForward
  <2> QED BY <2>1 DEF Line!MoveRight
<1>7. CASE cursor' = cursor
  <2>1. Remembered' = Remembered /\ Progress' = Progress
    BY <1>1 DEF Divided, MoveLeft, MoveRight
  <2> QED BY <1>3, <1>7, <2>1 DEF Stays
<1>8. cursor' = cursor \/ (cursor' = cursor - 1 /\ cursor \in 1 .. len)
      \/ (cursor' = cursor + 1 /\ cursor \in 0 .. len - 1)
  BY <1>2, <1>4 DEF MoveLeft, MoveRight
<1> QED BY <1>5, <1>6, <1>7, <1>8

LEMMA BackspaceRefines ==
  ASSUME Running, Running', NEW l \in CmdLines, Backspace(l)
  PROVE  Line!Erase \/ Stays
<1>1. Divided /\ Divided'
  BY RunningIsDivided, RunningStaysDivided
<1>2. cmd_buf \in Seq(Bytes) /\ len = Len(cmd_buf) /\ len \in Nat /\ move_left_num \in Nat
      /\ move_left_num' = move_left_num
  BY Here DEF Running, Backspace
<1>3. /\ LeftOfCursor = Before(cmd_buf, cursor) /\ RightOfCursor = Behind(cmd_buf, cursor)
      /\ cursor \in 0 .. len /\ cursor = len - move_left_num
  BY <1>1 DEF Divided
<1>4. CASE move_left_num < len /\ cmd_buf' = Erased
  <2> DEFINE t == RemoveAt(cmd_buf, cursor)
  <2>1. cmd_buf' = t /\ cursor \in 1 .. Len(cmd_buf)
    BY <1>2, <1>3, <1>4 DEF Erased
  <2>2. Len(t) = Len(cmd_buf) - 1
    BY <1>2, <2>1, RemoveAtProperties
  <2>3. cursor' = cursor - 1
    BY <1>1, <1>2, <1>3, <2>1, <2>2 DEF Divided, len
  <2>4. Before(t, cursor - 1) = Before(cmd_buf, cursor - 1)
        /\ Behind(t, cursor - 1) = Behind(cmd_buf, cursor)
    BY <1>2, <2>1, DivideErase
  <2>5. Before(cmd_buf, cursor - 1) = Front(LeftOfCursor)
    BY <1>2, <1>3, <2>1, DivideBack
  <2>6. LeftOfCursor' = Front(LeftOfCursor) /\ RightOfCursor' = RightOfCursor
    <3> HIDE DEF t
    <3>1. LeftOfCursor' = Before(t, cursor - 1) /\ RightOfCursor' = Behind(t, cursor - 1)
      BY <1>1, <2>1, <2>3 DEF Divided, Before, Behind
    <3> QED BY <1>3, <2>4, <2>5, <3>1
  <2>7. LeftOfCursor # <<>>
    <3>1. Len(Before(cmd_buf, cursor)) = cursor
      BY <1>2, <1>3, DividedProperties
    <3> QED BY <1>2, <1>3, <2>1, <3>1
  <2> QED BY <2>6, <2>7, SameOperators DEF Line!Erase
<1>5. CASE cmd_buf' = cmd_buf
  <2>1. len' = len /\ cursor' = cursor
    BY <1>1, <1>2, <1>5 DEF Divided, len
  <2> QED BY <1>1, <1>5, <2>1 DEF Divided, Stays, Backspace, Before, Behind
<1> QED BY <1>4, <1>5 DEF Backspace

\* A line that has grown before the cursor was typed into.
LEMMA TypedInto ==
  ASSUME Running, Running',
         Len(LeftOfCursor) < Len(LeftOfCursor'),
         \A j \in 1 .. Len(LeftOfCursor) : LeftOfCursor'[j] = LeftOfCursor[j],
         RightOfCursor' = RightOfCursor
  PROVE  Line!Type
<1>1. Divided /\ Divided'
  BY RunningIsDivided, RunningStaysDivided
<1>2. cmd_buf \in Seq(Bytes) /\ cursor \in 0 .. Len(cmd_buf)
  BY <1>1, Here DEF Running, Divided
<1>3. cmd_buf' \in Seq(Bytes) /\ cursor' \in 0 .. Len(cmd_buf')
  <2>1. cmd_buf' \in Seq(Bytes)
    BY DEF Running, IInv, AllGood, Good
  <2> QED BY <1>1, <2>1 DEF Divided, len
<1>4. LeftOfCursor \in Seq(Bytes)
  BY <1>1, <1>2, DividedProperties DEF Divided
<1>5. LeftOfCursor' \in Seq(Bytes)
  <2>1. Before(cmd_buf', cursor') \in Seq(Bytes)
    BY <1>3, DividedProperties
  <2> QED BY <1>1, <2>1 DEF Divided, Before
<1>6. IsStrictPrefix(LeftOfCursor, LeftOfCursor')
  BY <1>4, <1>5, LongerIsStrictPrefix
<1> QED BY <1>5, <1>6, SameOperators DEF Line!Type

\* Inside, nothing is left behind the line, and no zero gets into it.
LEMMA RunningInserts ==
  ASSUME Running, strained' = {}, status' # "undefined", NEW l \in CmdLines, InsertChar(l)
  PROVE  /\ Byte(l, 1) \in Bytes /\ move_left_num > 0 /\ len > 0
         /\ cmd_buf' = InsertAt(cmd_buf, len - move_left_num + 1, Byte(l, 1))
         /\ move_left_num' = move_left_num
<1>1. /\ IInv /\ strained = {} /\ status = "open" /\ stale = <<>> /\ move_left_num <= len
      /\ move_left_num \in Nat /\ len \in Nat
  BY Here DEF Running, Inside
<1>2. move_left_num > 0 /\ len > 0
  BY DEF InsertChar
<1> DEFINE e == Byte(l, 1)
           a == Inserted(e)
<1>3. /\ strained' = strained \cup Overlong(Len(CString(a)))
                      \cup (IF e = NUL THEN {"cut"} ELSE {})
      /\ cmd_buf' = CString(a) /\ move_left_num' = move_left_num
  BY <1>1 DEF InsertChar, GoesWrong
<1>4. e \in Bytes
  <2>1. e # NUL
    BY <1>3
  <2> QED BY <2>1, TypedBytes
<1> HIDE DEF e
<1>5. a = InsertAt(cmd_buf, len - move_left_num + 1, e) /\ CString(a) = a
  BY <1>1, <1>2, <1>4, InsertedProperties
<1> QED BY <1>2, <1>3, <1>4, <1>5 DEF e

LEMMA InsertCharRefines ==
  ASSUME Running, Running', NEW l \in CmdLines, InsertChar(l)
  PROVE  Line!Type
<1>1. Divided /\ Divided'
  BY RunningIsDivided, RunningStaysDivided
<1>2. /\ Byte(l, 1) \in Bytes
      /\ cmd_buf' = InsertAt(cmd_buf, len - move_left_num + 1, Byte(l, 1))
      /\ move_left_num' = move_left_num
      /\ cmd_buf \in Seq(Bytes) /\ len = Len(cmd_buf) /\ len \in Nat
      /\ move_left_num \in Nat
  <2>1. strained' = {} /\ status' # "undefined"
    BY DEF Running, Inside
  <2> QED BY <2>1, RunningInserts, Here DEF Running
<1>3. /\ LeftOfCursor = Before(cmd_buf, cursor) /\ RightOfCursor = Behind(cmd_buf, cursor)
      /\ cursor \in 0 .. len /\ cursor = len - move_left_num /\ move_left_num <= len
  BY <1>1 DEF Divided
<1> DEFINE e == Byte(l, 1)
           t == InsertAt(cmd_buf, cursor + 1, e)
<1>4. cmd_buf' = t /\ move_left_num' = move_left_num
  BY <1>2, <1>3
<1>5. Len(t) = len + 1
  <2>1. cursor + 1 \in 1 .. Len(cmd_buf) + 1 /\ e \in Bytes
    BY <1>2, <1>3
  <2> DEFINE k == cursor + 1
  <2>2. k \in 1 .. Len(cmd_buf) + 1
    BY <2>1
  <2> HIDE DEF k, e
  <2>3. Len(InsertAt(cmd_buf, k, e)) = Len(cmd_buf) + 1
    BY <1>2, <2>1, <2>2, InsertAtProperties
  <2> QED BY <1>2, <2>3 DEF k
<1>6. cursor' = cursor + 1
  BY <1>1, <1>2, <1>3, <1>4, <1>5 DEF Divided, len
<1>7. Before(t, cursor + 1) = Append(Before(cmd_buf, cursor), e)
      /\ Behind(t, cursor + 1) = Behind(cmd_buf, cursor)
  <2> DEFINE k == cursor
  <2>1. k \in 0 .. Len(cmd_buf) /\ e \in Bytes
    BY <1>2, <1>3
  <2> HIDE DEF k, e
  <2>2. Before(InsertAt(cmd_buf, k + 1, e), k + 1) = Append(Before(cmd_buf, k), e)
        /\ Behind(InsertAt(cmd_buf, k + 1, e), k + 1) = Behind(cmd_buf, k)
    BY <1>2, <2>1, DivideInsert
  <2> QED BY <2>2 DEF k
<1> HIDE DEF t, e
<1>8. LeftOfCursor' = Append(LeftOfCursor, e) /\ RightOfCursor' = RightOfCursor
  <2>1. LeftOfCursor' = Before(t, cursor + 1) /\ RightOfCursor' = Behind(t, cursor + 1)
    BY <1>1, <1>4, <1>6 DEF Divided, Before, Behind
  <2> QED BY <1>3, <1>7, <2>1
<1>9. LeftOfCursor \in Seq(Bytes) /\ e \in Bytes
  BY <1>2, <1>3, DividedProperties DEF e
<1>10. Len(LeftOfCursor) < Len(LeftOfCursor')
       /\ \A j \in 1 .. Len(LeftOfCursor) : LeftOfCursor'[j] = LeftOfCursor[j]
  BY <1>8, <1>9
<1> QED BY <1>8, <1>10, TypedInto

LEMMA AppendChunkRefines ==
  ASSUME Running, Running', NEW l \in CmdLines, AppendChunk(l)
  PROVE  Line!Type \/ Stays
<1>1. Divided /\ Divided'
  BY RunningIsDivided, RunningStaysDivided
<1>2. cmd_buf \in Seq(Bytes) /\ len = Len(cmd_buf) /\ len \in Nat /\ move_left_num \in Nat
      /\ l \in Seq(Bytes) /\ Len(l) \in Nat
  BY Here, TypedBytes, Sizes DEF Running
<1>3. /\ LeftOfCursor = Before(cmd_buf, cursor) /\ RightOfCursor = Behind(cmd_buf, cursor)
      /\ cursor = len - move_left_num /\ move_left_num <= len
  BY <1>1 DEF Divided
<1>4. move_left_num = 0
  BY <1>2, <1>3 DEF AppendChunk
<1>5. cmd_buf' = cmd_buf \o l /\ move_left_num' = 0
  <2>1. status' # "undefined"
    BY DEF Running
  <2> QED BY <1>4, <2>1 DEF AppendChunk, GoesWrong
<1> DEFINE t == cmd_buf \o l
<1>6. /\ t \in Seq(Bytes) /\ Len(t) = Len(cmd_buf) + Len(l)
      /\ \A j \in 1 .. Len(cmd_buf) + Len(l) :
           t[j] = IF j <= Len(cmd_buf) THEN cmd_buf[j] ELSE l[j - Len(cmd_buf)]
  BY <1>2, ConcatProperties
<1>7. cursor = Len(cmd_buf) /\ cursor' = Len(t)
  BY <1>1, <1>2, <1>3, <1>4, <1>5, <1>6 DEF Divided, len
<1> HIDE DEF t
<1>8. LeftOfCursor = cmd_buf /\ RightOfCursor = <<>>
  BY <1>2, <1>3, <1>7, DivideAtEnd
<1>9. LeftOfCursor' = t /\ RightOfCursor' = <<>>
  <2>1. LeftOfCursor' = Before(t, Len(t)) /\ RightOfCursor' = Behind(t, Len(t))
    BY <1>1, <1>5, <1>7 DEF Divided, Before, Behind, t
  <2> QED BY <1>6, <2>1, DivideAtEnd
<1>10. CASE Len(l) # 0
  <2>1. Len(LeftOfCursor) < Len(LeftOfCursor')
        /\ \A j \in 1 .. Len(LeftOfCursor) : LeftOfCursor'[j] = LeftOfCursor[j]
    BY <1>2, <1>6, <1>8, <1>9, <1>10
  <2> QED BY <1>8, <1>9, <2>1, TypedInto
<1>11. CASE Len(l) = 0
  <2>1. t = cmd_buf
    BY <1>2, <1>6, <1>11, SeqEqual
  <2>2. Remembered' = Remembered /\ Progress' = Progress
    BY <1>1 DEF Divided, AppendChunk, GoesWrong
  <2> QED BY <1>8, <1>9, <2>1, <2>2 DEF Stays
<1> QED BY <1>2, <1>10, <1>11

\* A line with the cursor at its end.
LEMMA ShownToTheEnd ==
  ASSUME Running', move_left_num' = 0
  PROVE  LeftOfCursor' = cmd_buf' /\ RightOfCursor' = <<>>
<1>1. Divided'
  BY RunningStaysDivided
<1>2. cmd_buf' \in Seq(Bytes)
  BY DEF Running, IInv, AllGood, Good
<1>3. Len(cmd_buf') \in Nat
  BY <1>2, LenProperties
<1>4. cursor' = Len(cmd_buf')
  BY <1>1, <1>3 DEF Divided, len
<1>5. LeftOfCursor' = Before(cmd_buf', Len(cmd_buf'))
      /\ RightOfCursor' = Behind(cmd_buf', Len(cmd_buf'))
  BY <1>1, <1>4 DEF Divided, Before, Behind
<1> QED BY <1>2, <1>5, DivideAtEnd

LEMMA HistoryRefines ==
  ASSUME Running, Running', NEW l \in CmdLines, Abandon(l) \/ MoveUp(l) \/ MoveDown(l)
  PROVE  Line!Recall
<1>1. Divided
  BY RunningIsDivided
<1>2. status' # "undefined" /\ strained' = {}
  BY DEF Running, Inside
<1>3. move_left_num' = 0 /\ cmd_buf' \in {<<>>} \cup entered
  <2>1. IInv /\ cmd_index \in 0 .. has_input_cmd_num /\ has_input_cmd_num \in Nat
        /\ move_left_num \in Nat
    BY Here DEF Running
  <2>2. CASE Abandon(l)
    BY <1>2, <2>1, <2>2 DEF Abandon
  <2>3. g_cmd \in {<<>>} \cup entered
        /\ \A i \in 1 .. has_input_cmd_num : history_cmd[i] \in entered
    BY <2>1 DEF IInv, AllEntered
  <2>4. CASE MoveUp(l)
    <3>1. cmd_index # 0 => cmd_index \in 1 .. has_input_cmd_num
      BY <2>1
    <3> QED BY <1>2, <2>3, <2>4, <3>1 DEF MoveUp, Recall, RecallLast, GoesWrong
  <2>5. CASE MoveDown(l)
    <3>1. cmd_index + 1 < has_input_cmd_num => cmd_index + 2 \in 1 .. has_input_cmd_num
      BY <2>1
    <3> QED BY <1>2, <2>3, <2>5, <3>1 DEF MoveDown, Recall, RecallLast, GoesWrong
  <2> QED BY <2>2, <2>4, <2>5
<1>4. LeftOfCursor' = cmd_buf' /\ RightOfCursor' = <<>>
  BY <1>3, ShownToTheEnd
<1> QED BY <1>1, <1>3, <1>4 DEF Line!Recall, Divided

LEMMA EnterRefines ==
  ASSUME Running, IInv', Inside', NEW l \in CmdLines, Enter(l)
  PROVE  Line!Enter \/ (Line!Keep /\ UNCHANGED Progress) \/ Stays
<1>1. Divided
  BY RunningIsDivided
<1>2. cmd_buf \in Seq(Bytes) /\ len = Len(cmd_buf) /\ len \in Nat /\ move_left_num \in Nat
  BY Here DEF Running
<1>3. /\ LeftOfCursor = Before(cmd_buf, cursor) /\ RightOfCursor = Behind(cmd_buf, cursor)
      /\ cursor \in 0 .. len /\ Remembered = entered /\ Progress = "running"
  BY <1>1 DEF Divided
<1>4. LeftOfCursor \o RightOfCursor = cmd_buf
  BY <1>2, <1>3, DividedWhole
<1>5. Line!line = cmd_buf
  BY <1>4 DEF Line!line
<1>6. move_left_num' = 0 /\ status' \in {"open", "closed"} /\ Remembered' = entered'
  BY DEF Enter, Running, Remembered
<1>7. CASE cmd_buf = <<>>
  <2>1. cmd_buf' = <<>> /\ status' = "open" /\ entered' = entered
    BY <1>7 DEF Enter, Byte, Running
  <2>2. Running'
    BY <2>1 DEF Running
  <2>3. LeftOfCursor' = <<>> /\ RightOfCursor' = <<>> /\ Progress' = "running"
    BY <1>6, <2>1, <2>2, ShownToTheEnd, RunningStaysDivided DEF Divided
  <2>4. LeftOfCursor = <<>> /\ RightOfCursor = <<>>
    <3>1. cursor = Len(cmd_buf)
      BY <1>2, <1>3, <1>7
    <3> QED BY <1>2, <1>3, <1>7, <3>1, DivideAtEnd
  <2> QED BY <1>3, <1>6, <2>1, <2>3, <2>4 DEF Stays
<1>8. CASE cmd_buf # <<>>
  <2>1. Byte(cmd_buf, 1) = cmd_buf[1] /\ cmd_buf[1] # NUL
    <3>1. 1 \in 1 .. Len(cmd_buf)
      BY <1>2, <1>8, EmptySeq
    <3>2. cmd_buf[1] \in Bytes
      BY <1>2, <3>1, ElementOfSeq
    <3> QED BY <3>1, <3>2, TypedBytes DEF Byte
  <2>2. entered' = entered \cup {cmd_buf}
    BY <1>8 DEF Enter
  <2>3. CASE cmd_buf[1] = CR
    <3>1. cmd_buf' = cmd_buf /\ status' = "open"
      BY <2>1, <2>3 DEF Enter, Running
    <3>2. Running'
      BY <3>1 DEF Running
    <3>3. LeftOfCursor' = cmd_buf /\ RightOfCursor' = <<>> /\ Progress' = "running"
      BY <1>6, <3>1, <3>2, ShownToTheEnd, RunningStaysDivided DEF Divided
    <3> QED BY <1>3, <1>5, <1>6, <1>8, <2>2, <2>3, <3>3 DEF Line!Keep
  <2>4. CASE cmd_buf[1] # CR /\ cmd_buf \in QuitLines
    <3>1. status' = "closed"
      BY <2>1, <2>4 DEF Enter
    <3>2. Nothing' /\ Progress' = "over"
      BY <3>1, EndIsSeen
    <3> QED BY <1>3, <1>5, <1>6, <1>8, <2>2, <2>4, <3>2 DEF Line!Enter, Nothing
  <2>5. CASE cmd_buf[1] # CR /\ cmd_buf \notin QuitLines
    <3>1. cmd_buf' = <<>> /\ status' = "open"
      BY <2>1, <2>5 DEF Enter, Running
    <3>2. Running'
      BY <3>1 DEF Running
    <3>3. LeftOfCursor' = <<>> /\ RightOfCursor' = <<>> /\ Progress' = "running"
      BY <1>6, <3>1, <3>2, ShownToTheEnd, RunningStaysDivided DEF Divided
    <3> QED BY <1>3, <1>5, <1>6, <1>8, <2>2, <2>5, <3>3 DEF Line!Enter
  <2> QED BY <2>3, <2>4, <2>5
<1> QED BY <1>7, <1>8

\* Every other key leaves what was entered as it is.
LEMMA KeysKeepEntered ==
  ASSUME Running, Running', NEW l \in CmdLines, Dispatch(l), ~Enter(l)
  PROVE  UNCHANGED <<Remembered, Progress>>
<1>1. Divided /\ Divided'
  BY RunningIsDivided, RunningStaysDivided
<1>2. entered' = entered
  BY DEF Dispatch, Ignored, Abandon, MoveUp, MoveDown, MoveRight, MoveLeft, Backspace,
         InsertChar, AppendChunk, Recall, RecallLast, GoesWrong, evars
<1> QED BY <1>1, <1>2 DEF Divided

LEMMA KeysRefine ==
  ASSUME Running, IInv', Inside', NEW l \in CmdLines, Dispatch(l)
  PROVE  Line!Next \/ Stays
<1>1. Progress = "running"
  BY RunningIsDivided DEF Divided
<1>2. CASE Enter(l)
  <2>1. Line!Keep /\ UNCHANGED Progress => Line!Next
    BY <1>1 DEF Line!Next, Line!Keep
  <2> QED BY <1>1, <1>2, <2>1, EnterRefines DEF Line!Next
<1>3. CASE ~Enter(l)
  <2>1. status' = "open"
    <3>1. status' # "undefined"
      BY Sizes DEF IInv, DefinedUnlessStrained, Inside
    <3> QED BY <1>3, <3>1 DEF Running, Dispatch, Ignored, Abandon, MoveUp, MoveDown,
               MoveRight, MoveLeft, Backspace, InsertChar, AppendChunk, Recall,
               RecallLast, GoesWrong, evars
  <2>2. Running'
    BY <2>1 DEF Running
  <2>3. UNCHANGED <<Remembered, Progress>>
    BY <1>3, <2>2, KeysKeepEntered
  <2>4. Line!Edit => Line!Next
    BY <1>1, <2>3 DEF Line!Next
  <2>5. CASE Ignored(l)
    BY <2>5 DEF Ignored, evars, Stays, LeftOfCursor, RightOfCursor, Remembered, Progress,
           Shown, Inside, cursor, len, has_input_cmd_num
  <2> QED BY <1>3, <2>2, <2>4, <2>5, MovesRefine, BackspaceRefines, InsertCharRefines,
             AppendChunkRefines, HistoryRefines DEF Line!Edit, Dispatch
<1> QED BY <1>2, <1>3

LEMMA InitRefines == Init => Line!Init
<1> SUFFICES ASSUME Init PROVE Line!Init
  OBVIOUS
<1>1. IInv /\ Running
  BY InitIInv, Sizes DEF Init, Running, Inside, has_input_cmd_num
<1>2. Divided /\ cmd_buf = <<>> /\ cmd_buf \in Seq(Bytes) /\ cursor = Len(cmd_buf)
  BY <1>1, RunningIsDivided, Here DEF Init, Divided, cursor, len
<1>3. LeftOfCursor = <<>> /\ RightOfCursor = <<>>
  BY <1>2, DivideAtEnd DEF Divided
<1> QED BY <1>2, <1>3 DEF Line!Init, Init, Divided

LEMMA NextRefines == IInv /\ [Next]_evars => [Line!Next]_(Line!gvars)
<1> SUFFICES ASSUME IInv, [Next]_evars PROVE Line!Next \/ Stays
  BY DEF Line!gvars, Stays
<1>1. CASE UNCHANGED evars
  BY <1>1 DEF evars, Stays, LeftOfCursor, RightOfCursor, Remembered, Progress, Shown,
         Inside, cursor, len, has_input_cmd_num
<1>2. CASE Next /\ ~Inside
  <2>1. ~Inside'
    BY <1>2, WaysOut
  <2> QED BY <1>2, <2>1, OutsideShowsNothing, OutsideStaysSo DEF Stays, Nothing
<1>3. CASE Next /\ Inside /\ status # "open"
  <2>1. ReadEof /\ status = "eof" /\ status' \in {"eof", "killed"}
    BY <1>3, WaysOut DEF ReadEof
  <2>2. Inside' /\ entered' = entered
    BY <1>3, <2>1 DEF ReadEof, Inside, has_input_cmd_num
  <2> QED BY <1>3, <2>1, <2>2, EndShowsNothing, EndIsSeen DEF Stays, Nothing
<1>4. CASE Next /\ Inside /\ status = "open" /\ ~Inside'
  <2>1. Progress = "running"
    BY <1>4, RunningIsDivided DEF Running, Divided
  <2>2. Nothing' /\ Remembered' = {} /\ Progress' = "outside"
    BY <1>4, OutsideStaysSo
  <2>3. Line!GoOutside
    BY <2>2 DEF Line!GoOutside, Nothing
  <2> QED BY <2>1, <2>3 DEF Line!Next
<1>5. CASE Next /\ Inside /\ status = "open" /\ Inside'
  <2>1. Running /\ IInv'
    BY <1>5, NextIInv DEF Running
  <2>2. Progress = "running" /\ Remembered = entered
    BY <2>1, RunningIsDivided DEF Divided
  <2>3. CASE Hangup
    <3>1. Nothing' /\ Remembered' = entered /\ Progress' = "over"
      BY <1>5, <2>3, EndIsSeen DEF Hangup
    <3>2. Line!Leave
      BY <2>2, <3>1 DEF Line!Leave, Nothing
    <3> QED BY <2>2, <3>2 DEF Line!Next
  <2>4. CASE ReadEof
    BY <1>5, <2>4 DEF ReadEof
  <2>5. ASSUME NEW l \in CmdLines, Dispatch(l) PROVE Line!Next \/ Stays
    BY <1>5, <2>1, <2>5, KeysRefine
  <2>6. ~Overread
    BY <1>5 DEF Overread, Inside
  <2> QED BY <1>5, <2>3, <2>4, <2>5, <2>6 DEF Next
<1> QED BY <1>1, <1>2, <1>3, <1>4, <1>5

\* The dispatch of telnet_server.c:355-535 is the gap buffer for arrays of any
\* size and reads of any bytes: every key does to the line what it is for, what
\* is entered is the line, and a history key brings back what was entered, for
\* as long as no line is dropped from under its cursor or cut by a zero byte,
\* none grows too long to be shown again, no read fills its array and the history
\* does not fill.
THEOREM EditorIsGapBuffer == Spec => ImplementsLine
<1>1. Spec => Line!Init /\ [][Line!Next]_(Line!gvars)
  <2>1. Spec => Line!Init
    BY InitRefines DEF Spec
  <2> QED BY <2>1, Invariance, NextRefines, PTL DEF Spec
<1> QED BY <1>1 DEF ImplementsLine, Line!Spec

-----------------------------------------------------------------------------
(* What the terminal makes of what it is sent *)

\* A row and a column: all there is to the terminal.
IsTerminal(t) ==
  /\ t = [row |-> t.row, col |-> t.col]
  /\ t.row = [i \in Column |-> t.row[i]]
  /\ t.col \in Nat \ {0}

\* A terminal with a cursor is not gone.
LEMMA NotGone ==
  ASSUME NEW t, IsTerminal(t)
  PROVE  ~Gone(t) /\ t # Lost /\ \A u : Sent(t, u) = u
<1>1. Off.col = 0 /\ Lost.col = -1
  BY DEF Off, Lost
<1>2. t # Off /\ t # Lost
  BY <1>1 DEF IsTerminal
<1>3. ~Gone(t)
  BY <1>2 DEF Gone
<1> QED BY <1>2, <1>3 DEF Sent

LEMMA SameTerminal ==
  ASSUME NEW t, NEW u, IsTerminal(t), IsTerminal(u),
         t.col = u.col, \A i \in Column : t.row[i] = u.row[i]
  PROVE  t = u
<1>1. [i \in Column |-> t.row[i]] = [i \in Column |-> u.row[i]]
  OBVIOUS
<1>2. t.row = u.row
  BY <1>1 DEF IsTerminal
<1> QED BY <1>2 DEF IsTerminal

LEMMA ReturnCells ==
  ASSUME NEW t, IsTerminal(t)
  PROVE  /\ IsTerminal(Return(t)) /\ Return(t).col = 1
         /\ \A i \in Column : Return(t).row[i] = t.row[i]
<1>1. Return(t) = [row |-> t.row, col |-> 1]
  BY NotGone DEF Return, IsTerminal
<1> QED BY <1>1 DEF IsTerminal

LEMMA PutCells ==
  ASSUME NEW t, IsTerminal(t), NEW c, c \notin Controls
  PROVE  /\ IsTerminal(Put(t, c)) /\ Put(t, c).col = t.col + 1
         /\ \A i \in Column : Put(t, c).row[i] = IF i = t.col THEN c ELSE t.row[i]
<1> DEFINE r == [t.row EXCEPT ![t.col] = c]
<1>1. Put(t, c) = [row |-> r, col |-> t.col + 1]
  <2>1. c \notin {ESC, CTL} /\ c # CR /\ c \notin Controls \ {ESC, CTL, CR}
    BY DEF Controls
  <2>2. Put(t, c) = Sent(t, [row |-> r, col |-> t.col + 1])
    BY <2>1 DEF Put
  <2> QED BY <2>2, NotGone
<1>2. r = [i \in Column |-> r[i]] /\ \A i \in Column : r[i] = IF i = t.col THEN c ELSE t.row[i]
  BY DEF IsTerminal
<1> HIDE DEF r
<1> QED BY <1>1, <1>2 DEF IsTerminal

LEMMA LeftCells ==
  ASSUME NEW t, IsTerminal(t), NEW n \in Nat, n < t.col
  PROVE  /\ IsTerminal(Left(t, n)) /\ Left(t, n).col = t.col - n
         /\ \A i \in Column : Left(t, n).row[i] = t.row[i]
<1>1. Left(t, n) = [row |-> t.row, col |-> t.col - n]
  BY NotGone DEF Left, IsTerminal
<1> QED BY <1>1 DEF IsTerminal

LEMMA RightCells ==
  ASSUME NEW t, IsTerminal(t)
  PROVE  /\ IsTerminal(Right(t)) /\ Right(t).col = t.col + 1
         /\ \A i \in Column : Right(t).row[i] = t.row[i]
<1>1. Right(t) = [row |-> t.row, col |-> t.col + 1]
  BY NotGone DEF Right, IsTerminal
<1> QED BY <1>1 DEF IsTerminal

\* A row whose cells are replaced by those of r.
LEMMA NewRow ==
  ASSUME NEW t, IsTerminal(t), NEW r, r = [i \in Column |-> r[i]],
         NEW u, u = [t EXCEPT !.row = r]
  PROVE  /\ IsTerminal(u) /\ u.col = t.col
         /\ \A i \in Column : u.row[i] = r[i]
<1>1. u = [row |-> r, col |-> t.col]
  BY DEF IsTerminal
<1> QED BY <1>1 DEF IsTerminal

LEMMA ClearRightCells ==
  ASSUME NEW t, IsTerminal(t)
  PROVE  /\ IsTerminal(ClearRight(t)) /\ ClearRight(t).col = t.col
         /\ \A i \in Column : ClearRight(t).row[i] = IF i < t.col THEN t.row[i] ELSE Blank
<1> DEFINE r == [i \in Column |-> IF i < t.col THEN t.row[i] ELSE Blank]
<1>1. r = [i \in Column |-> r[i]] /\ \A i \in Column : r[i] = IF i < t.col THEN t.row[i] ELSE Blank
  OBVIOUS
<1>2. ClearRight(t) = [t EXCEPT !.row = r]
  BY NotGone DEF ClearRight
<1> HIDE DEF r
<1> QED BY <1>1, <1>2, NewRow

LEMMA ClearLeftCells ==
  ASSUME NEW t, IsTerminal(t)
  PROVE  /\ IsTerminal(ClearLeft(t)) /\ ClearLeft(t).col = t.col
         /\ \A i \in Column : ClearLeft(t).row[i] = IF i > t.col THEN t.row[i] ELSE Blank
<1> DEFINE r == [i \in Column |-> IF i > t.col THEN t.row[i] ELSE Blank]
<1>1. r = [i \in Column |-> r[i]] /\ \A i \in Column : r[i] = IF i > t.col THEN t.row[i] ELSE Blank
  OBVIOUS
<1>2. ClearLeft(t) = [t EXCEPT !.row = r]
  BY NotGone DEF ClearLeft
<1> HIDE DEF r
<1> QED BY <1>1, <1>2, NewRow

LEMMA OpenCells ==
  ASSUME NEW t, IsTerminal(t)
  PROVE  /\ IsTerminal(OpenCell(t)) /\ OpenCell(t).col = t.col
         /\ \A i \in Column : OpenCell(t).row[i] = IF i < t.col THEN t.row[i]
                                                   ELSE IF i = t.col THEN Blank
                                                   ELSE t.row[i - 1]
<1> DEFINE r == [i \in Column |-> IF i < t.col THEN t.row[i]
                                  ELSE IF i = t.col THEN Blank ELSE t.row[i - 1]]
<1>1. r = [i \in Column |-> r[i]]
      /\ \A i \in Column : r[i] = IF i < t.col THEN t.row[i]
                                  ELSE IF i = t.col THEN Blank ELSE t.row[i - 1]
  OBVIOUS
<1>2. OpenCell(t) = [t EXCEPT !.row = r]
  BY NotGone DEF OpenCell
<1> HIDE DEF r
<1> QED BY <1>1, <1>2, NewRow

\* A string without a control byte fills a cell for each byte.
LEMMA ShowCells ==
  ASSUME NEW t, IsTerminal(t), NEW S, NEW s \in Seq(S),
         \A i \in 1 .. Len(s) : s[i] \notin Controls
  PROVE  /\ IsTerminal(Show(t, s)) /\ Show(t, s).col = t.col + Len(s)
         /\ \A i \in Column :
              Show(t, s).row[i] = IF i \in t.col .. t.col + Len(s) - 1
                                  THEN s[i - t.col + 1] ELSE t.row[i]
<1> DEFINE Rule(a) == [i \in 0 .. Len(s) |-> IF i = 0 THEN t ELSE Put(a[i - 1], s[i])]
           shown == CHOOSE a : a = Rule(a)
           RowAfter(n) == [i \in Column |-> IF i \in t.col .. t.col + n - 1
                                            THEN s[i - t.col + 1] ELSE t.row[i]]
           After(n) == [row |-> RowAfter(n), col |-> t.col + n]
           after == [n \in 0 .. Len(s) |-> After(n)]
<1>1. Len(s) \in Nat /\ t.col \in Nat \ {0}
  BY LenProperties DEF IsTerminal
<1>2. ASSUME NEW n \in Nat
      PROVE  /\ IsTerminal(After(n)) /\ After(n).col = t.col + n
             /\ \A i \in Column : After(n).row[i] = IF i \in t.col .. t.col + n - 1
                                                    THEN s[i - t.col + 1] ELSE t.row[i]
  <2>1. RowAfter(n) = [i \in Column |-> RowAfter(n)[i]]
        /\ \A i \in Column : RowAfter(n)[i] = IF i \in t.col .. t.col + n - 1
                                              THEN s[i - t.col + 1] ELSE t.row[i]
    OBVIOUS
  <2>2. After(n).row = RowAfter(n) /\ After(n).col = t.col + n
        /\ After(n) = [row |-> RowAfter(n), col |-> t.col + n]
    OBVIOUS
  <2> HIDE DEF RowAfter, After
  <2> QED BY <1>1, <2>1, <2>2 DEF IsTerminal
<1> HIDE DEF RowAfter, After
<1>3. After(0) = t
  <2>1. \A i \in Column : i \notin t.col .. t.col + 0 - 1
    BY <1>1
  <2> QED BY <1>1, <1>2, <2>1, SameTerminal
<1>4. ASSUME NEW n \in 1 .. Len(s) PROVE Put(After(n - 1), s[n]) = After(n)
  <2>1. n \in Nat /\ n - 1 \in Nat /\ s[n] \notin Controls
    BY <1>1
  <2> DEFINE u == After(n - 1)
             p == Put(u, s[n])
  <2>2. /\ IsTerminal(u) /\ u.col = t.col + (n - 1)
        /\ \A i \in Column : u.row[i] = IF i \in t.col .. t.col + (n - 1) - 1
                                        THEN s[i - t.col + 1] ELSE t.row[i]
    BY <1>2, <2>1
  <2> HIDE DEF u
  <2>3. /\ IsTerminal(p) /\ p.col = u.col + 1
        /\ \A i \in Column : p.row[i] = IF i = u.col THEN s[n] ELSE u.row[i]
    BY <2>1, <2>2, PutCells
  <2> HIDE DEF p
  <2>4. /\ IsTerminal(After(n)) /\ After(n).col = t.col + n
        /\ \A i \in Column : After(n).row[i] = IF i \in t.col .. t.col + n - 1
                                               THEN s[i - t.col + 1] ELSE t.row[i]
    BY <1>2, <2>1
  <2>5. p.col = After(n).col
    BY <1>1, <2>1, <2>2, <2>3, <2>4
  <2>6. ASSUME NEW i \in Column PROVE p.row[i] = After(n).row[i]
    <3>1. i \in Int
      BY Sizes DEF Column, Width
    <3>2. CASE i = u.col
      <4>1. i \in t.col .. t.col + n - 1 /\ i - t.col + 1 = n
        BY <1>1, <2>1, <2>2, <3>2
      <4> QED BY <2>3, <2>4, <3>2, <4>1
    <3>3. CASE i # u.col
      <4>1. i \in t.col .. t.col + n - 1 <=> i \in t.col .. t.col + (n - 1) - 1
        BY <1>1, <2>1, <2>2, <3>1, <3>3
      <4> QED BY <2>2, <2>3, <2>4, <3>3, <4>1
    <3> QED BY <3>2, <3>3
  <2>7. p = After(n)
    BY <2>3, <2>4, <2>5, <2>6, SameTerminal
  <2> QED BY <2>7 DEF p, u
<1>5. after = Rule(after)
  <2>1. ASSUME NEW n \in 0 .. Len(s)
        PROVE  after[n] = IF n = 0 THEN t ELSE Put(after[n - 1], s[n])
    <3>1. CASE n = 0
      BY <1>3, <3>1
    <3>2. CASE n # 0
      <4>1. n \in 1 .. Len(s) /\ n - 1 \in 0 .. Len(s)
        BY <1>1, <3>2
      <4>2. after[n] = After(n) /\ after[n - 1] = After(n - 1)
        BY <4>1
      <4> HIDE DEF after
      <4> QED BY <1>4, <3>2, <4>1, <4>2
    <3> QED BY <3>1, <3>2
  <2>2. after = [n \in 0 .. Len(s) |-> after[n]]
    OBVIOUS
  <2> HIDE DEF after
  <2> QED BY <2>1, <2>2
<1>6. shown = Rule(shown)
  <2>1. \E a : a = Rule(a)
    <3> HIDE DEF after, Rule
    <3> QED BY <1>5
  <2> HIDE DEF Rule
  <2> QED BY <2>1
<1>7. Show(t, s) = shown[Len(s)]
  BY DEF Show
<1> HIDE DEF after, shown
<1>8. \A n \in 0 .. Len(s) : shown[n] = IF n = 0 THEN t ELSE Put(shown[n - 1], s[n])
  BY <1>6
<1>9. \A n \in 0 .. Len(s) : after[n] = IF n = 0 THEN t ELSE Put(after[n - 1], s[n])
  BY <1>5
<1> HIDE DEF Rule
<1> DEFINE T == {n \in Nat : n <= Len(s) => shown[n] = after[n]}
<1>10. 0 \in T
  BY <1>1, <1>8, <1>9
<1>11. ASSUME NEW n \in Nat, n \in T PROVE n + 1 \in T
  <2>1. ASSUME n + 1 <= Len(s) PROVE shown[n + 1] = after[n + 1]
    <3>1. n + 1 \in 0 .. Len(s) /\ n + 1 # 0 /\ (n + 1) - 1 = n /\ n <= Len(s)
      BY <1>1, <2>1
    <3>2. shown[n] = after[n]
      BY <1>11, <3>1
    <3> QED BY <1>8, <1>9, <3>1, <3>2
  <2> QED BY <2>1
<1> HIDE DEF T
<1>12. Nat \subseteq T
  BY <1>10, <1>11, NatSetInduction
<1>13. shown[Len(s)] = after[Len(s)]
  BY <1>1, <1>12 DEF T
<1>14. after[Len(s)] = After(Len(s))
  BY <1>1 DEF after
<1>15. Show(t, s) = After(Len(s))
  BY <1>7, <1>13, <1>14
<1> QED BY <1>1, <1>2, <1>15

-----------------------------------------------------------------------------
(* The row of the prompt, cell by cell *)

\* What is in column i of the prompt and the line s.
Cell(s, i) == IF i <= PromptLen THEN "#"
              ELSE IF i <= PromptLen + Len(s) THEN s[i - PromptLen] ELSE Blank

\* t shows the line s, its cursor m left of the end.
ShowsLine(t, s, m) ==
  /\ m <= Len(s)
  /\ IsTerminal(t) /\ t.col = PromptLen + Len(s) - m + 1
  /\ \A i \in Column : t.row[i] = Cell(s, i)

\* Every byte of a plain line fills a cell.
LEMMA PlainBytes ==
  ASSUME NEW S, NEW s \in Seq(S), Plain(s)
  PROVE  \A i \in 1 .. Len(s) : s[i] \notin Controls
<1>1. DOMAIN s = 1 .. Len(s)
  BY LenProperties
<1> QED BY <1>1 DEF Plain, Range

\* Nor are the blank and the prompt's bytes controls.
LEMMA NoControls == Blank \notin Controls /\ "#" \notin Controls
BY DEF Blank, Controls, NUL, CR, LF, ETX, FF, ESC, BS, DEL, TAB, CTL

LEMMA Columns == PromptLen \in Nat /\ Column \subseteq Nat \ {0}
BY Sizes DEF Column, Width

\* The prompt and the line, one after the other.
LEMMA PromptAndLine ==
  ASSUME NEW s \in Seq(Bytes)
  PROVE  /\ Prompt \o s \in Seq(Bytes \cup {"#"})
         /\ Len(Prompt \o s) = PromptLen + Len(s)
         /\ \A i \in 1 .. PromptLen + Len(s) : (Prompt \o s)[i] = Cell(s, i)
<1> DEFINE B == Bytes \cup {"#"}
<1>1. Prompt \in Seq(B) /\ Len(Prompt) = PromptLen /\ \A i \in 1 .. PromptLen : Prompt[i] = "#"
  <2>1. Prompt \in [1 .. PromptLen -> B]
    BY DEF Prompt
  <2>2. \A i \in 1 .. PromptLen : Prompt[i] = "#"
    BY DEF Prompt
  <2> HIDE DEF B
  <2> QED BY <2>1, <2>2, Columns
<1>2. s \in Seq(B) /\ Len(s) \in Nat
  <2>1. Len(s) \in Nat /\ s \in [1 .. Len(s) -> Bytes]
    BY LenProperties
  <2>2. s \in [1 .. Len(s) -> B]
    BY <2>1
  <2> HIDE DEF B
  <2> QED BY <2>1, <2>2
<1> HIDE DEF B
<1>3. /\ Prompt \o s \in Seq(B) /\ Len(Prompt \o s) = Len(Prompt) + Len(s)
      /\ \A j \in 1 .. Len(Prompt) + Len(s) :
           (Prompt \o s)[j] = IF j <= Len(Prompt) THEN Prompt[j] ELSE s[j - Len(Prompt)]
  BY <1>1, <1>2, ConcatProperties
<1>4. \A i \in 1 .. PromptLen + Len(s) : (Prompt \o s)[i] = Cell(s, i)
  BY <1>1, <1>2, <1>3, Columns DEF Cell
<1> QED BY <1>1, <1>3, <1>4 DEF B

LEMMA RowCells ==
  ASSUME NEW s, NEW c \in Nat \ {0}
  PROVE  /\ IsTerminal(RowOf(s, c)) /\ RowOf(s, c).col = c
         /\ \A i \in Column : RowOf(s, c).row[i] = IF i <= Len(s) THEN s[i] ELSE Blank
BY DEF RowOf, IsTerminal

LEMMA RowShowsLine ==
  ASSUME NEW s \in Seq(Bytes), NEW m \in Nat, m <= Len(s), NEW t
  PROVE  t = RowOf(Prompt \o s, PromptLen + Len(s) - m + 1) <=> ShowsLine(t, s, m)
<1> DEFINE c == PromptLen + Len(s) - m + 1
           u == RowOf(Prompt \o s, c)
<1>1. Len(s) \in Nat /\ c \in Nat \ {0}
  BY Columns, LenProperties
<1>2. \A i \in Column : (IF i <= Len(Prompt \o s) THEN (Prompt \o s)[i] ELSE Blank) = Cell(s, i)
  <2> TAKE i \in Column
  <2>1. i \in Nat \ {0}
    BY Columns
  <2>2. CASE i <= PromptLen + Len(s)
    <3>1. i \in 1 .. PromptLen + Len(s)
      BY <1>1, <2>1, <2>2, Columns
    <3> QED BY <2>2, <3>1, PromptAndLine
  <2>3. CASE ~(i <= PromptLen + Len(s))
    <3>1. ~(i <= PromptLen)
      BY <1>1, <2>1, <2>3, Columns
    <3> QED BY <2>3, <3>1, PromptAndLine DEF Cell
  <2> QED BY <2>2, <2>3
<1>3. IsTerminal(u) /\ u.col = c /\ \A i \in Column : u.row[i] = Cell(s, i)
  <2> HIDE DEF c
  <2>1. /\ IsTerminal(u) /\ u.col = c
        /\ \A i \in Column : u.row[i] = IF i <= Len(Prompt \o s) THEN (Prompt \o s)[i] ELSE Blank
    BY <1>1, RowCells
  <2> HIDE DEF u
  <2> QED BY <1>2, <2>1
<1> HIDE DEF u
<1>4. ASSUME ShowsLine(t, s, m) PROVE t = u
  BY <1>3, <1>4, SameTerminal DEF ShowsLine
<1>5. ASSUME t = u PROVE ShowsLine(t, s, m)
  BY <1>3, <1>5 DEF ShowsLine
<1>6. t = u <=> ShowsLine(t, s, m)
  BY <1>4, <1>5
<1> QED BY <1>6 DEF u

LEMMA FaithfulShowsLine ==
  IInv => (Faithful <=> ShowsLine(terminal, cmd_buf, move_left_num))
<1> SUFFICES ASSUME IInv PROVE Faithful <=> ShowsLine(terminal, cmd_buf, move_left_num)
  OBVIOUS
<1>1. cmd_buf \in Seq(Bytes) /\ move_left_num \in Nat /\ len = Len(cmd_buf)
  BY Here
<1>2. CASE move_left_num <= Len(cmd_buf)
  BY <1>1, <1>2, RowShowsLine DEF Faithful
<1>3. CASE ~(move_left_num <= Len(cmd_buf))
  BY <1>1, <1>3 DEF Faithful, ShowsLine
<1> QED BY <1>2, <1>3

LEMMA FaithfulShowsLineThen ==
  IInv' => (Faithful' <=> ShowsLine(terminal', cmd_buf', move_left_num'))
<1>1. (IInv => (Faithful <=> ShowsLine(terminal, cmd_buf, move_left_num)))'
  BY FaithfulShowsLine, PTL
<1> QED BY <1>1

\* "\r\n" and the prompt show an empty line.
LEMMA PromptShowsLine == ShowsLine(NewPrompt, <<>>, 0)
<1>1. Prompt \o <<>> = Prompt
  <2>1. Prompt \in [1 .. PromptLen -> {"#"}]
    BY DEF Prompt
  <2>2. Prompt \in Seq({"#"})
    BY <2>1, Columns
  <2> QED BY <2>2, ConcatEmptySeq
<1>2. <<>> \in Seq(Bytes) /\ Len(<<>>) = 0 /\ 0 \in Nat
  OBVIOUS
<1>3. PromptLen + Len(<<>>) - 0 + 1 = PromptLen + 1
  BY <1>2, Columns
<1>4. NewPrompt = RowOf(Prompt \o <<>>, PromptLen + Len(<<>>) - 0 + 1)
  BY <1>1, <1>3 DEF NewPrompt
<1>5. \A s \in Seq(Bytes), m \in Nat : m <= Len(s) =>
        (NewPrompt = RowOf(Prompt \o s, PromptLen + Len(s) - m + 1)
           <=> ShowsLine(NewPrompt, s, m))
  BY RowShowsLine
<1>6. <<>> \in Seq(Bytes) /\ 0 \in Nat /\ 0 <= Len(<<>>)
  BY <1>2
<1> QED BY <1>4, <1>5, <1>6

-----------------------------------------------------------------------------
(* One turn that is handled, from a row that shows the line *)

\* The session goes on, with an invariant that holds.
Open == IInv /\ status = "open"

\* The turn for l is handled, and leaves no control byte in the line.
Handles(l) ==
  /\ Open /\ Open' /\ Plain(cmd_buf')
  /\ l \in CmdLines /\ Handled(l)
  /\ ShowsLine(terminal, cmd_buf, move_left_num)

\* The row shows the line when the turn is over.
ShownThen == ShowsLine(terminal', cmd_buf', move_left_num')

LEMMA Handling ==
  ASSUME NEW l, Handles(l)
  PROVE  /\ cmd_buf \in Seq(Bytes) /\ len \in Nat /\ len = Len(cmd_buf)
         /\ move_left_num \in Nat /\ move_left_num <= len
         /\ IsTerminal(terminal) /\ terminal.col = PromptLen + len - move_left_num + 1
         /\ \A i \in Column : terminal.row[i] = Cell(cmd_buf, i)
         /\ cmd_buf' \in Seq(Bytes) /\ Len(cmd_buf') \in Nat /\ move_left_num' \in Nat
         /\ l \in Seq(Bytes) /\ Len(l) \in Nat
         /\ status' # "undefined"
         /\ \A i \in 1 .. Len(cmd_buf') : cmd_buf'[i] \notin Controls
         /\ terminal # Lost /\ PromptAfter(terminal) = NewPrompt
<1>1. /\ cmd_buf \in Seq(Bytes) /\ len \in Nat /\ len = Len(cmd_buf)
      /\ move_left_num \in Nat
  BY Here DEF Handles, Open
<1>2. cmd_buf' \in Seq(Bytes) /\ move_left_num' \in Nat
  BY DEF Handles, Open, IInv, AllGood, Good, TypeOK
<1>3. Len(cmd_buf') \in Nat
  BY <1>2, LenProperties
<1>4. l \in Seq(Bytes) /\ Len(l) \in Nat
  BY TypedBytes, Sizes DEF Handles
<1>5. status' # "undefined"
  BY DEF Handles, Open
<1>6. \A i \in 1 .. Len(cmd_buf') : cmd_buf'[i] \notin Controls
  BY <1>2, PlainBytes DEF Handles
<1>7. terminal # Lost /\ PromptAfter(terminal) = NewPrompt
  BY NotGone DEF Handles, ShowsLine, PromptAfter
<1> QED BY <1>1, <1>2, <1>3, <1>4, <1>5, <1>6, <1>7 DEF Handles, ShowsLine

LEMMA IgnoredShown ==
  ASSUME NEW l, Handles(l), ScreenIgnored(l)
  PROVE  ShownThen
<1>1. cmd_buf' = cmd_buf /\ move_left_num' = move_left_num
  BY DEF ScreenIgnored, Ignored, evars
<1>2. CASE Byte(l, 1) \in {HELP, TAB}
  <2>1. cmd_buf = <<>> /\ move_left_num = 0
    <3>1. cmd_buf = <<>>
      BY <1>2 DEF Handles, Handled
    <3>2. Len(cmd_buf) = 0
      BY <3>1
    <3> QED BY <3>1, <3>2, Handling
  <2> QED BY <1>1, <1>2, <2>1, Handling, PromptShowsLine DEF ScreenIgnored, ShownThen
<1>3. CASE Byte(l, 1) \notin {HELP, TAB}
  BY <1>1, <1>3 DEF ScreenIgnored, ShownThen, Handles
<1> QED BY <1>2, <1>3

LEMMA AbandonShown ==
  ASSUME NEW l, Handled(l), terminal # Lost, ScreenAbandon(l)
  PROVE  ShownThen
<1>1. move_left_num' = 0
  BY DEF Handled, ScreenAbandon, Abandon
<1> QED BY <1>1, PromptShowsLine DEF ScreenAbandon, Abandon, ShownThen, PromptAfter

LEMMA MovesShown ==
  ASSUME NEW l, Handles(l), ScreenMoveLeft(l) \/ ScreenMoveRight(l)
  PROVE  ShownThen
<1>0. /\ len \in Nat /\ len = Len(cmd_buf) /\ PromptLen \in Nat
      /\ move_left_num \in Nat /\ move_left_num <= len
      /\ terminal.col = PromptLen + len - move_left_num + 1
  BY Handling, Columns
<1>1. cmd_buf' = cmd_buf
  BY DEF ScreenMoveLeft, ScreenMoveRight, MoveLeft, MoveRight
<1>2. CASE move_left_num' = move_left_num /\ terminal' = terminal
  BY <1>1, <1>2 DEF ShownThen, Handles
<1>3. CASE ScreenMoveLeft(l) /\ move_left_num < len
  <2>1. 1 \in Nat /\ 1 < terminal.col
    BY <1>3, Handling, Columns
  <2>2. terminal' = Left(terminal, 1) /\ move_left_num' = move_left_num + 1
    BY <1>3 DEF ScreenMoveLeft, MoveLeft
  <2>3. /\ IsTerminal(terminal') /\ terminal'.col = terminal.col - 1
        /\ \A i \in Column : terminal'.row[i] = terminal.row[i]
    BY <2>1, <2>2, Handling, LeftCells
  <2>4. /\ move_left_num' <= Len(cmd_buf')
        /\ terminal'.col = PromptLen + Len(cmd_buf') - move_left_num' + 1
    BY <1>0, <1>1, <1>3, <2>2, <2>3
  <2>5. \A i \in Column : terminal'.row[i] = Cell(cmd_buf', i)
    BY <1>1, <2>3, Handling
  <2> QED BY <2>3, <2>4, <2>5 DEF ShownThen, ShowsLine
<1>4. CASE ScreenMoveRight(l) /\ move_left_num > 0
  <2>2. terminal' = Right(terminal) /\ move_left_num' = move_left_num - 1
    BY <1>4 DEF ScreenMoveRight, MoveRight
  <2>3. /\ IsTerminal(terminal') /\ terminal'.col = terminal.col + 1
        /\ \A i \in Column : terminal'.row[i] = terminal.row[i]
    BY <2>2, Handling, RightCells
  <2>4. /\ move_left_num' <= Len(cmd_buf')
        /\ terminal'.col = PromptLen + Len(cmd_buf') - move_left_num' + 1
    BY <1>0, <1>1, <1>4, <2>2, <2>3
  <2>5. \A i \in Column : terminal'.row[i] = Cell(cmd_buf', i)
    BY <1>1, <2>3, Handling
  <2> QED BY <2>3, <2>4, <2>5 DEF ShownThen, ShowsLine
<1>5. ScreenMoveRight(l) /\ ~(move_left_num > 0) => move_left_num' = move_left_num
  BY Handling DEF ScreenMoveRight, MoveRight
<1> QED BY <1>2, <1>3, <1>4, <1>5 DEF ScreenMoveLeft, MoveLeft, ScreenMoveRight

LEMMA EnterShown ==
  ASSUME NEW l, IInv, status' = "open", Plain(cmd_buf'), terminal # Lost, ScreenEnter(l)
  PROVE  ShownThen
<1>0. PromptAfter(terminal) = NewPrompt
  BY DEF PromptAfter
<1>1. cmd_buf \in Seq(Bytes) /\ Len(cmd_buf) \in Nat
  BY Here
<1>2. move_left_num' = 0
  BY DEF ScreenEnter, Enter
<1>3. CASE cmd_buf = <<>>
  <2>1. Byte(cmd_buf, 1) = NUL
    BY <1>3 DEF Byte
  <2> QED BY <1>0, <1>2, <1>3, <2>1, PromptShowsLine DEF ScreenEnter, Enter, ShownThen, NUL, CR
<1>4. CASE cmd_buf # <<>>
  <2>1. 1 \in 1 .. Len(cmd_buf)
    BY <1>1, <1>4, EmptySeq
  <2>2. Byte(cmd_buf, 1) = cmd_buf[1] /\ cmd_buf[1] # NUL
    BY <1>1, <2>1, ElementOfSeq, TypedBytes DEF Byte
  <2>3. cmd_buf[1] # CR
    <3>1. cmd_buf[1] = CR => cmd_buf' = cmd_buf
      BY <2>2 DEF ScreenEnter, Enter
    <3>2. cmd_buf' = cmd_buf => cmd_buf[1] \notin Controls
      BY <1>1, <2>1, PlainBytes
    <3> QED BY <3>1, <3>2 DEF Controls
  <2>4. cmd_buf' = <<>>
    BY <2>2, <2>3 DEF ScreenEnter, Enter
  <2> QED BY <1>0, <1>2, <2>2, <2>3, <2>4, PromptShowsLine DEF ScreenEnter, ShownThen
<1> QED BY <1>3, <1>4

LEMMA BackspaceShown ==
  ASSUME NEW l, Handles(l), ScreenBackspace(l)
  PROVE  ShownThen
<1> DEFINE n == Len(cmd_buf)
           m == move_left_num
           c == PromptLen + n - m
           back == Left(terminal, 1)
           blanked == Put(back, Blank)
           erased == Left(blanked, 1)
<1>1. /\ cmd_buf \in Seq(Bytes) /\ len = n /\ n \in Nat /\ PromptLen \in Nat
      /\ m \in Nat /\ m <= n
      /\ IsTerminal(terminal) /\ terminal.col = c + 1
      /\ \A i \in Column : terminal.row[i] = Cell(cmd_buf, i)
      /\ status' # "undefined"
      /\ \A i \in 1 .. Len(cmd_buf') : cmd_buf'[i] \notin Controls
  BY Handling, Columns
<1>2. move_left_num' = m
  BY DEF ScreenBackspace, Backspace
<1>3. CASE m = n
  <2>1. cmd_buf' = cmd_buf /\ terminal' = terminal
    BY <1>1, <1>3 DEF ScreenBackspace, Backspace
  <2> QED BY <1>2, <2>1 DEF ShownThen, Handles
<1>4. CASE m < n
  <2> DEFINE right == SubSeq(cmd_buf, n - m + 1, n)
             shown == IF m = 0 THEN Put(erased, Blank) ELSE Show(ClearRight(erased), right)
             k == IF m > 0 THEN m ELSE 1
  <2>1. terminal' = Left(shown, k)
    <3>1. len # 0 /\ ~(move_left_num = len \/ status' = "undefined")
      BY <1>1, <1>4
    <3> QED BY <1>1, <3>1 DEF ScreenBackspace
  <2>2. /\ cmd_buf' \in Seq(Bytes) /\ Len(cmd_buf') = n - 1
        /\ \A j \in 1 .. n - 1 : cmd_buf'[j] = IF j < n - m THEN cmd_buf[j] ELSE cmd_buf[j + 1]
    <3> DEFINE e == n - m
    <3>1. cmd_buf' = RemoveAt(cmd_buf, e) /\ e \in 1 .. Len(cmd_buf)
      BY <1>1, <1>4 DEF ScreenBackspace, Backspace, Erased
    <3> HIDE DEF e
    <3>2. /\ RemoveAt(cmd_buf, e) \in Seq(Bytes)
          /\ Len(RemoveAt(cmd_buf, e)) = Len(cmd_buf) - 1
          /\ \A j \in 1 .. Len(cmd_buf) - 1 :
               RemoveAt(cmd_buf, e)[j] = IF j < e THEN cmd_buf[j] ELSE cmd_buf[j + 1]
      BY <1>1, <3>1, RemoveAtProperties
    <3> QED BY <3>1, <3>2 DEF e
  <2>3. c \in Nat \ {0} /\ c = PromptLen + n - m
    BY <1>1, <1>4
  <2> HIDE DEF c
  <2>4. /\ IsTerminal(back) /\ back.col = c
        /\ \A i \in Column : back.row[i] = Cell(cmd_buf, i)
    <3>1. 1 \in Nat /\ 1 < terminal.col /\ terminal.col - 1 = c
      BY <1>1, <2>3
    <3> QED BY <1>1, <3>1, LeftCells
  <2> HIDE DEF back
  <2>5. Blank \notin Controls
    BY NoControls
  <2>6. /\ IsTerminal(blanked) /\ blanked.col = c + 1
        /\ \A i \in Column : blanked.row[i] = IF i = c THEN Blank ELSE Cell(cmd_buf, i)
    BY <2>4, <2>5, PutCells
  <2> HIDE DEF blanked
  <2>7. /\ IsTerminal(erased) /\ erased.col = c
        /\ \A i \in Column : erased.row[i] = IF i = c THEN Blank ELSE Cell(cmd_buf, i)
    <3>1. 1 \in Nat /\ 1 < blanked.col /\ blanked.col - 1 = c
      BY <2>3, <2>6
    <3> QED BY <2>6, <3>1, LeftCells
  <2> HIDE DEF erased
  <2>8. /\ IsTerminal(shown) /\ shown.col = c + k /\ k \in Nat
        /\ \A i \in Column : shown.row[i] = Cell(cmd_buf', i)
    <3>1. CASE m = 0
      <4>1. /\ IsTerminal(shown) /\ shown.col = c + 1
            /\ \A i \in Column : shown.row[i] = IF i = c THEN Blank ELSE erased.row[i]
        BY <2>5, <2>7, <3>1, PutCells
      <4>2. ASSUME NEW i \in Column
            PROVE  (IF i = c THEN Blank ELSE Cell(cmd_buf, i)) = Cell(cmd_buf', i)
        <5>1. i \in Nat \ {0} /\ c = PromptLen + n
          BY <1>1, <2>3, <3>1, Columns
        <5>2. CASE i \in PromptLen + 1 .. PromptLen + n - 1
          <6>1. /\ i - PromptLen \in 1 .. n - 1 /\ i - PromptLen < n - m
                /\ ~(i <= PromptLen) /\ i <= PromptLen + n /\ i <= PromptLen + (n - 1)
                /\ i # c
            BY <1>1, <3>1, <5>1, <5>2
          <6> QED BY <2>2, <6>1 DEF Cell
        <5>3. CASE i <= PromptLen
          <6>1. i # c
            BY <1>1, <1>4, <3>1, <5>1, <5>3
          <6> QED BY <5>3, <6>1 DEF Cell
        <5>4. CASE i > PromptLen + n - 1
          <6>1. ~(i <= PromptLen) /\ ~(i <= PromptLen + (n - 1)) /\ (i # c => ~(i <= PromptLen + n))
            BY <1>1, <1>4, <3>1, <5>1, <5>4
          <6>2. ~(i <= PromptLen + Len(cmd_buf'))
            BY <2>2, <6>1
          <6>3. Cell(cmd_buf', i) = Blank /\ (i # c => Cell(cmd_buf, i) = Blank)
            BY <6>1, <6>2 DEF Cell
          <6> QED BY <6>3
        <5> QED BY <1>1, <5>1, <5>2, <5>3, <5>4
      <4> QED BY <2>7, <3>1, <4>1, <4>2
    <3>2. CASE m > 0
      <4> DEFINE cleared == ClearRight(erased)
      <4>1. /\ IsTerminal(cleared) /\ cleared.col = c
            /\ \A i \in Column : cleared.row[i] = IF i < c THEN Cell(cmd_buf, i) ELSE Blank
        <5>1. \A i \in Column : i \in Nat
          BY Columns
        <5> QED BY <2>3, <2>7, <5>1, ClearRightCells
      <4> HIDE DEF cleared
      <4>2. /\ right \in Seq(Bytes) /\ Len(right) = m
            /\ \A j \in 1 .. m : right[j] = cmd_buf[n - m + j]
        <5> DEFINE b == n - m
        <5>1. b \in 0 .. Len(cmd_buf) /\ right = Behind(cmd_buf, b)
          BY <1>1 DEF Behind
        <5> HIDE DEF b, right
        <5>2. /\ Behind(cmd_buf, b) \in Seq(Bytes) /\ Len(Behind(cmd_buf, b)) = Len(cmd_buf) - b
              /\ \A j \in 1 .. Len(cmd_buf) - b : Behind(cmd_buf, b)[j] = cmd_buf[b + j]
          BY <1>1, <5>1, DividedProperties
        <5>3. Len(cmd_buf) - b = m
          BY <1>1 DEF b
        <5> QED BY <5>1, <5>2, <5>3 DEF b
      <4> HIDE DEF right
      <4>3. ASSUME NEW j \in 1 .. m
            PROVE  right[j] = cmd_buf'[n - m + j - 1] /\ right[j] \notin Controls
        <5>1. n - m + j - 1 \in 1 .. n - 1 /\ ~(n - m + j - 1 < n - m)
              /\ (n - m + j - 1) + 1 = n - m + j
          BY <1>1, <1>4
        <5>2. cmd_buf'[n - m + j - 1] = cmd_buf[n - m + j]
          BY <2>2, <5>1
        <5> QED BY <1>1, <2>2, <4>2, <5>1, <5>2
      <4>4. /\ IsTerminal(shown) /\ shown.col = c + m
            /\ \A i \in Column : shown.row[i] = IF i \in c .. c + m - 1
                                               THEN right[i - c + 1] ELSE cleared.row[i]
        <5>1. shown = Show(cleared, right)
          BY <1>1, <3>2 DEF cleared
        <5> HIDE DEF shown
        <5>2. /\ IsTerminal(Show(cleared, right))
              /\ Show(cleared, right).col = cleared.col + Len(right)
              /\ \A i \in Column :
                   Show(cleared, right).row[i] =
                     IF i \in cleared.col .. cleared.col + Len(right) - 1
                     THEN right[i - cleared.col + 1] ELSE cleared.row[i]
          BY <4>1, <4>2, <4>3, ShowCells
        <5> QED BY <4>1, <4>2, <5>1, <5>2
      <4>5. ASSUME NEW i \in Column
            PROVE  shown.row[i] = Cell(cmd_buf', i)
        <5> HIDE DEF shown
        <5>0. i \in Nat \ {0}
          BY Columns
        <5>1. CASE i \in c .. c + m - 1
          <6>1. /\ i - c + 1 \in 1 .. m /\ n - m + (i - c + 1) - 1 = i - PromptLen
                /\ ~(i <= PromptLen) /\ i <= PromptLen + (n - 1)
            BY <1>1, <1>4, <2>3, <5>0, <5>1
          <6>2. right[i - c + 1] = cmd_buf'[i - PromptLen]
            BY <4>3, <6>1
          <6> QED BY <2>2, <4>4, <5>1, <6>1, <6>2 DEF Cell
        <5>2. CASE i < c
          <6>1. shown.row[i] = Cell(cmd_buf, i)
            BY <4>1, <4>4, <2>3, <5>0, <5>2
          <6>2. CASE i <= PromptLen
            BY <6>1, <6>2 DEF Cell
          <6>3. CASE ~(i <= PromptLen)
            <7>1. /\ i - PromptLen \in 1 .. n - 1 /\ i - PromptLen < n - m
                  /\ i <= PromptLen + n /\ i <= PromptLen + (n - 1)
              BY <1>1, <1>4, <2>3, <5>0, <5>2, <6>3
            <7> QED BY <2>2, <6>1, <6>3, <7>1 DEF Cell
          <6> QED BY <6>2, <6>3
        <5>3. CASE ~(i < c) /\ i \notin c .. c + m - 1
          <6>1. ~(i <= PromptLen) /\ ~(i <= PromptLen + (n - 1))
            BY <1>1, <1>4, <2>3, <5>0, <5>3
          <6>2. shown.row[i] = Blank
            BY <4>1, <4>4, <5>3
          <6> QED BY <2>2, <6>1, <6>2 DEF Cell
        <5> QED BY <5>1, <5>2, <5>3
      <4> QED BY <1>1, <3>2, <4>4, <4>5
    <3> QED BY <1>1, <3>1, <3>2
  <2> HIDE DEF shown, k
  <2>9. k < shown.col
    BY <2>3, <2>8
  <2>10. /\ IsTerminal(terminal') /\ terminal'.col = c
         /\ \A i \in Column : terminal'.row[i] = Cell(cmd_buf', i)
    <3>1. /\ IsTerminal(Left(shown, k)) /\ Left(shown, k).col = shown.col - k
          /\ \A i \in Column : Left(shown, k).row[i] = shown.row[i]
      BY <2>8, <2>9, LeftCells
    <3> QED BY <2>1, <2>3, <2>8, <3>1
  <2>11. move_left_num' <= Len(cmd_buf')
         /\ terminal'.col = PromptLen + Len(cmd_buf') - move_left_num' + 1
    BY <1>1, <1>2, <1>4, <2>2, <2>3, <2>10
  <2> QED BY <2>10, <2>11 DEF ShownThen, ShowsLine
<1> QED BY <1>1, <1>3, <1>4

LEMMA InsertShown ==
  ASSUME NEW l, Handles(l), ScreenInsert(l)
  PROVE  ShownThen
<1> DEFINE n == Len(cmd_buf)
           m == move_left_num
           c == PromptLen + n - m + 1
           b == Byte(l, 1)
           open == OpenCell(terminal)
<1>1. /\ cmd_buf \in Seq(Bytes) /\ len = n /\ n \in Nat /\ PromptLen \in Nat
      /\ m \in Nat /\ m <= n
      /\ IsTerminal(terminal) /\ terminal.col = c
      /\ (\A i \in Column : terminal.row[i] = Cell(cmd_buf, i))
      /\ status' # "undefined" /\ IInv
      /\ \A i \in 1 .. Len(cmd_buf') : cmd_buf'[i] \notin Controls
  BY Handling, Columns DEF Handles, Open
<1>2. m > 0 /\ n > 0 /\ b \notin {HIGH, NUL} /\ b \in Bytes /\ stale = <<>>
  <2>1. m > 0 /\ n > 0 /\ IsText(l)
    BY <1>1 DEF ScreenInsert, InsertChar
  <2>2. (b \in {HIGH, NUL} => m = 0 \/ n = 0) /\ (m = 0 \/ stale = <<>>)
    BY <1>1, <2>1 DEF Handles, Handled
  <2>3. b \in Bytes \cup {NUL}
    BY TypedBytes DEF Handles
  <2> QED BY <1>1, <2>1, <2>2, <2>3
<1>3. terminal' = IF b \in (Controls \ {DEL}) \cup {HIGH}
                  THEN Left(Put(open, b), m) ELSE Put(open, b)
  BY <1>1 DEF ScreenInsert
<1>4. cmd_buf' = InsertAt(cmd_buf, n - m + 1, b) /\ move_left_num' = m
  <2>1. cmd_buf' = CString(Inserted(b)) /\ move_left_num' = m
    BY <1>1 DEF ScreenInsert, InsertChar, GoesWrong
  <2>2. /\ Inserted(b) = InsertAt(cmd_buf, len - move_left_num + 1, b)
        /\ CString(Inserted(b)) = Inserted(b)
    <3> HIDE DEF b
    <3> QED BY <1>1, <1>2, InsertedProperties
  <2> QED BY <1>1, <2>1, <2>2
<1> HIDE DEF b
<1>5. /\ Len(cmd_buf') = n + 1
      /\ \A j \in 1 .. n + 1 : cmd_buf'[j] = IF j < n - m + 1 THEN cmd_buf[j]
                                             ELSE IF j = n - m + 1 THEN b ELSE cmd_buf[j - 1]
  <2> DEFINE e == n - m + 1
  <2>1. e \in 1 .. Len(cmd_buf) + 1
    BY <1>1
  <2> HIDE DEF e
  <2>2. /\ Len(InsertAt(cmd_buf, e, b)) = Len(cmd_buf) + 1
        /\ \A j \in 1 .. Len(cmd_buf) + 1 :
             InsertAt(cmd_buf, e, b)[j] = IF j < e THEN cmd_buf[j]
                                          ELSE IF j = e THEN b ELSE cmd_buf[j - 1]
    <3> HIDE DEF n, m, c
    <3>1. cmd_buf \in Seq(Bytes) /\ b \in Bytes
      BY <1>1, <1>2
    <3> QED BY ONLY <2>1, <3>1, InsertAtProperties
  <2> QED BY <1>4, <2>2 DEF e
<1>6. c \in Nat \ {0} /\ c = PromptLen + n - m + 1
  BY <1>1
<1>11. b \notin Controls /\ terminal' = Put(open, b)
  <2>1. n - m + 1 \in 1 .. n + 1 /\ ~(n - m + 1 < n - m + 1)
    BY <1>1
  <2>2. cmd_buf'[n - m + 1] = b
    BY <1>5, <2>1
  <2>3. b \notin Controls
    BY <1>1, <1>5, <2>1, <2>2
  <2> QED BY <1>2, <1>3, <2>3
<1> HIDE DEF c
<1>7. /\ IsTerminal(open) /\ open.col = c
      /\ \A i \in Column : open.row[i] = IF i < c THEN terminal.row[i]
                                         ELSE IF i = c THEN Blank ELSE terminal.row[i - 1]
  BY <1>1, OpenCells
<1> HIDE DEF open
<1>8. /\ IsTerminal(terminal') /\ terminal'.col = c + 1
      /\ \A i \in Column : terminal'.row[i] = IF i = c THEN b ELSE open.row[i]
  BY <1>11, <1>7, PutCells
<1>9. ASSUME NEW i \in Column
      PROVE  terminal'.row[i] = Cell(cmd_buf', i)
  <2>1. i \in Nat \ {0}
    BY Columns
  <2>2. CASE i < c
    <3>1. terminal'.row[i] = Cell(cmd_buf, i)
      BY <1>1, <1>6, <1>7, <1>8, <2>1, <2>2
    <3>2. CASE i <= PromptLen
      BY <3>1, <3>2 DEF Cell
    <3>3. CASE ~(i <= PromptLen)
      <4>1. /\ i - PromptLen \in 1 .. n + 1 /\ i - PromptLen < n - m + 1
            /\ i <= PromptLen + n /\ i <= PromptLen + (n + 1)
        BY <1>1, <1>2, <1>6, <2>1, <2>2, <3>3
      <4> QED BY <1>5, <3>1, <3>3, <4>1 DEF Cell
    <3> QED BY <3>2, <3>3
  <2>3. CASE i = c
    <3>1. /\ i - PromptLen \in 1 .. n + 1 /\ i - PromptLen = n - m + 1
          /\ ~(i - PromptLen < n - m + 1)
          /\ ~(i <= PromptLen) /\ i <= PromptLen + (n + 1)
      BY <1>1, <1>2, <1>6, <2>1, <2>3
    <3> QED BY <1>5, <1>8, <2>3, <3>1 DEF Cell
  <2>4. CASE i > c
    <3>1. /\ i - 1 \in Column /\ ~(i < c) /\ i # c
          /\ ~(i <= PromptLen) /\ ~(i - 1 <= PromptLen)
          /\ i - 1 <= PromptLen + n <=> i <= PromptLen + (n + 1)
      BY <1>1, <1>2, <1>6, <2>1, <2>4, Sizes DEF Column, Width
    <3>2. terminal'.row[i] = Cell(cmd_buf, i - 1)
      BY <1>1, <1>7, <1>8, <3>1
    <3>3. CASE i <= PromptLen + (n + 1)
      <4>1. /\ i - PromptLen \in 1 .. n + 1 /\ (i - PromptLen) - 1 = (i - 1) - PromptLen
            /\ ~(i - PromptLen < n - m + 1) /\ i - PromptLen # n - m + 1
        BY <1>1, <1>2, <1>6, <2>1, <2>4, <3>3
      <4>2. cmd_buf'[i - PromptLen] = cmd_buf[(i - 1) - PromptLen]
        BY <1>5, <4>1
      <4> QED BY <1>5, <3>1, <3>2, <3>3, <4>2 DEF Cell
    <3>4. CASE ~(i <= PromptLen + (n + 1))
      BY <1>5, <3>1, <3>2, <3>4 DEF Cell
    <3> QED BY <3>3, <3>4
  <2> QED BY <1>6, <2>1, <2>2, <2>3, <2>4
<1>10. move_left_num' <= Len(cmd_buf')
       /\ terminal'.col = PromptLen + Len(cmd_buf') - move_left_num' + 1
  <2>1. Len(cmd_buf') = n + 1 /\ move_left_num' = m /\ terminal'.col = c + 1
    BY <1>4, <1>5, <1>8
  <2> QED BY <1>1, <1>6, <2>1
<1> QED BY <1>8, <1>9, <1>10 DEF ShownThen, ShowsLine

LEMMA AppendShown ==
  ASSUME NEW l, Handles(l), ScreenAppend(l)
  PROVE  ShownThen
<1> DEFINE n == Len(cmd_buf)
           c == PromptLen + n + 1
<1>1. /\ cmd_buf \in Seq(Bytes) /\ len = n /\ n \in Nat /\ PromptLen \in Nat
      /\ l \in Seq(Bytes) /\ Len(l) \in Nat
      /\ move_left_num \in Nat /\ move_left_num <= n
      /\ IsTerminal(terminal) /\ terminal.col = PromptLen + n - move_left_num + 1
      /\ (\A i \in Column : terminal.row[i] = Cell(cmd_buf, i))
      /\ status' # "undefined"
      /\ \A i \in 1 .. Len(cmd_buf') : cmd_buf'[i] \notin Controls
  BY Handling, Columns
<1>2. move_left_num = 0
  BY <1>1 DEF ScreenAppend, AppendChunk
<1>3. cmd_buf' = cmd_buf \o l /\ move_left_num' = 0
  BY <1>1, <1>2 DEF ScreenAppend, AppendChunk, GoesWrong
<1>4. /\ Len(cmd_buf') = n + Len(l)
      /\ \A j \in 1 .. n + Len(l) : cmd_buf'[j] = IF j <= n THEN cmd_buf[j] ELSE l[j - n]
  BY <1>1, <1>3, ConcatProperties
<1>5. \A j \in 1 .. Len(l) : l[j] \notin Controls
  <2> TAKE j \in 1 .. Len(l)
  <2>1. n + j \in 1 .. n + Len(l) /\ ~(n + j <= n) /\ (n + j) - n = j
    BY <1>1
  <2>2. cmd_buf'[n + j] = l[j]
    BY <1>4, <2>1
  <2> QED BY <1>1, <1>4, <2>1, <2>2
<1>6. c \in Nat \ {0} /\ terminal.col = c /\ c = PromptLen + n + 1
  BY <1>1, <1>2
<1> HIDE DEF c
<1>7. /\ IsTerminal(terminal') /\ terminal'.col = c + Len(l)
      /\ \A i \in Column : terminal'.row[i] = IF i \in c .. c + Len(l) - 1
                                              THEN l[i - c + 1] ELSE terminal.row[i]
  <2>1. terminal' = Show(terminal, l)
    BY DEF ScreenAppend
  <2>2. /\ IsTerminal(Show(terminal, l)) /\ Show(terminal, l).col = terminal.col + Len(l)
        /\ \A i \in Column :
             Show(terminal, l).row[i] = IF i \in terminal.col .. terminal.col + Len(l) - 1
                                        THEN l[i - terminal.col + 1] ELSE terminal.row[i]
    <3>1. IsTerminal(terminal) /\ l \in Seq(Bytes)
      BY <1>1
    <3> QED BY ONLY <1>5, <3>1, ShowCells
  <2>3. terminal.col = c
    BY <1>6
  <2> QED BY ONLY <2>1, <2>2, <2>3
<1>8. ASSUME NEW i \in Column
      PROVE  terminal'.row[i] = Cell(cmd_buf', i)
  <2>1. i \in Nat \ {0}
    BY Columns
  <2>2. CASE i \in c .. c + Len(l) - 1
    <3>1. /\ i - PromptLen \in 1 .. n + Len(l) /\ ~(i - PromptLen <= n)
          /\ (i - PromptLen) - n = i - c + 1
          /\ ~(i <= PromptLen) /\ i <= PromptLen + (n + Len(l))
      BY <1>1, <1>6, <2>1, <2>2
    <3> QED BY <1>4, <1>7, <2>2, <3>1 DEF Cell
  <2>3. CASE i < c
    <3>1. terminal'.row[i] = Cell(cmd_buf, i)
      <4>1. i \notin c .. c + Len(l) - 1
        BY <1>1, <1>6, <2>1, <2>3
      <4> QED BY <1>1, <1>7, <4>1
    <3>2. CASE i <= PromptLen
      BY <3>1, <3>2 DEF Cell
    <3>3. CASE ~(i <= PromptLen)
      <4>1. /\ i - PromptLen \in 1 .. n + Len(l) /\ i - PromptLen <= n
            /\ i <= PromptLen + n /\ i <= PromptLen + (n + Len(l))
        BY <1>1, <1>6, <2>1, <2>3, <3>3
      <4> QED BY <1>4, <3>1, <3>3, <4>1 DEF Cell
    <3> QED BY <3>2, <3>3
  <2>4. CASE i > c + Len(l) - 1
    <3>1. /\ i \notin c .. c + Len(l) - 1 /\ ~(i <= PromptLen)
          /\ ~(i <= PromptLen + n) /\ ~(i <= PromptLen + (n + Len(l)))
      BY <1>1, <1>6, <2>1, <2>4
    <3>2. terminal'.row[i] = Cell(cmd_buf, i)
      BY <1>1, <1>7, <3>1
    <3> QED BY <1>4, <3>1, <3>2 DEF Cell
  <2> QED BY <1>1, <1>6, <2>1, <2>2, <2>3, <2>4
<1>9. move_left_num' <= Len(cmd_buf')
      /\ terminal'.col = PromptLen + Len(cmd_buf') - move_left_num' + 1
  BY <1>1, <1>3, <1>4, <1>6, <1>7
<1> QED BY <1>7, <1>8, <1>9 DEF ShownThen, ShowsLine

LEMMA RecallShown ==
  ASSUME NEW l, Handles(l), ScreenRecall(l)
  PROVE  ShownThen
<1>1. /\ cmd_buf \in Seq(Bytes) /\ len = Len(cmd_buf) /\ len \in Nat /\ PromptLen \in Nat
      /\ move_left_num \in Nat
      /\ IsTerminal(terminal) /\ terminal.col = PromptLen + len - move_left_num + 1
      /\ (\A i \in Column : terminal.row[i] = Cell(cmd_buf, i))
      /\ status' # "undefined"
      /\ cmd_buf' \in Seq(Bytes) /\ Len(cmd_buf') \in Nat
      /\ \A i \in 1 .. Len(cmd_buf') : cmd_buf'[i] \notin Controls
  BY Handling, Columns
<1>2. move_left_num = 0 /\ move_left_num' = 0
  BY <1>1 DEF Handles, Handled, ScreenRecall, MoveUp, MoveDown, Recall, RecallLast, GoesWrong
<1>3. cmd_index \in 0 .. has_input_cmd_num /\ has_input_cmd_num \in Nat
  BY Here DEF Handles, Open
<1>4. CASE cmd_index' = cmd_index
  <2>1. RecallLast /\ cmd_buf = g_cmd
    BY <1>1, <1>3, <1>4 DEF Handles, Handled, ScreenRecall, MoveUp, MoveDown, Recall,
       RecallLast, GoesWrong
  <2>2. cmd_buf' = cmd_buf
    BY <2>1 DEF RecallLast
  <2> QED BY <1>2, <1>4, <2>2 DEF ScreenRecall, Handles, ShownThen
<1>5. CASE cmd_index' # cmd_index
  <2>1. g_cmd' = cmd_buf'
    BY <1>5 DEF ScreenRecall, MoveUp, MoveDown, Recall, RecallLast, GoesWrong
  <2> DEFINE cleared == ClearLeft(terminal)
             empty == Return(cleared)
             s == Prompt \o cmd_buf'
  <2>2. terminal' = Show(empty, s)
    BY <1>5, <2>1 DEF ScreenRecall
  <2>3. /\ IsTerminal(cleared)
        /\ \A i \in Column : cleared.row[i] = Blank
    <3>1. /\ IsTerminal(cleared) /\ cleared.col = terminal.col
          /\ \A i \in Column : cleared.row[i] = IF i > terminal.col THEN terminal.row[i] ELSE Blank
      BY <1>1, ClearLeftCells
    <3> HIDE DEF cleared
    <3>2. ASSUME NEW i \in Column, i > terminal.col PROVE terminal.row[i] = Blank
      <4>1. i \in Nat /\ ~(i <= PromptLen) /\ ~(i <= PromptLen + Len(cmd_buf))
        BY <1>1, <1>2, <3>2, Columns
      <4> QED BY <1>1, <4>1 DEF Cell
    <3> QED BY <3>1, <3>2
  <2> HIDE DEF cleared
  <2>4. IsTerminal(empty) /\ empty.col = 1 /\ \A i \in Column : empty.row[i] = Blank
    BY <2>3, ReturnCells
  <2> HIDE DEF empty
  <2>5. /\ s \in Seq(Bytes \cup {"#"}) /\ Len(s) = PromptLen + Len(cmd_buf')
        /\ \A i \in 1 .. PromptLen + Len(cmd_buf') : s[i] = Cell(cmd_buf', i)
    BY <1>1, PromptAndLine
  <2> HIDE DEF s
  <2>6. \A i \in 1 .. Len(s) : s[i] \notin Controls
    <3> TAKE i \in 1 .. Len(s)
    <3>1. CASE i <= PromptLen
      BY <1>1, <2>5, <3>1, NoControls DEF Cell
    <3>2. CASE ~(i <= PromptLen)
      <4>1. i - PromptLen \in 1 .. Len(cmd_buf') /\ i <= PromptLen + Len(cmd_buf')
        BY <1>1, <2>5, <3>2
      <4> QED BY <1>1, <2>5, <3>2, <4>1 DEF Cell
    <3> QED BY <3>1, <3>2
  <2>7. /\ IsTerminal(terminal') /\ terminal'.col = 1 + Len(s)
        /\ \A i \in Column : terminal'.row[i] = IF i \in 1 .. 1 + Len(s) - 1
                                                THEN s[i - 1 + 1] ELSE empty.row[i]
    <3> DEFINE B == Bytes \cup {"#"}
    <3>1. s \in Seq(B)
      BY <2>5
    <3> HIDE DEF B
    <3>2. /\ IsTerminal(Show(empty, s)) /\ Show(empty, s).col = empty.col + Len(s)
          /\ \A i \in Column :
               Show(empty, s).row[i] = IF i \in empty.col .. empty.col + Len(s) - 1
                                       THEN s[i - empty.col + 1] ELSE empty.row[i]
      BY <2>4, <2>6, <3>1, ShowCells
    <3> QED BY <2>2, <2>4, <3>2
  <2>8. ASSUME NEW i \in Column PROVE terminal'.row[i] = Cell(cmd_buf', i)
    <3>1. i \in Nat \ {0}
      BY Columns
    <3>2. CASE i <= PromptLen + Len(cmd_buf')
      <4>1. i \in 1 .. 1 + Len(s) - 1 /\ i \in 1 .. PromptLen + Len(cmd_buf') /\ i - 1 + 1 = i
        BY <1>1, <2>5, <3>1, <3>2
      <4> QED BY <2>5, <2>7, <4>1
    <3>3. CASE ~(i <= PromptLen + Len(cmd_buf'))
      <4>1. i \notin 1 .. 1 + Len(s) - 1 /\ ~(i <= PromptLen)
        BY <1>1, <2>5, <3>1, <3>3
      <4> QED BY <2>4, <2>7, <3>3, <4>1 DEF Cell
    <3> QED BY <3>2, <3>3
  <2>9. move_left_num' <= Len(cmd_buf')
        /\ terminal'.col = PromptLen + Len(cmd_buf') - move_left_num' + 1
    BY <1>1, <1>2, <2>5, <2>7
  <2> QED BY <2>7, <2>8, <2>9 DEF ShownThen, ShowsLine
<1> QED BY <1>4, <1>5

\* No key but Enter begins with a carriage return, and none but Ctrl-L with a
\* form feed.
LEMMA HeadsOfKeys ==
  ASSUME NEW l, ScreenDispatch(l)
  PROVE  /\ Byte(l, 1) = CR => ScreenEnter(l)
         /\ Byte(l, 1) = FF => ScreenAbandon(l)
<1>1. l = <<ETX>> => Byte(l, 1) = ETX
  BY DEF Byte
<1> QED BY <1>1 DEF ScreenDispatch, ScreenIgnored, Ignored, ScreenAbandon, Abandon,
     ScreenMoveLeft, MoveLeft, ScreenMoveRight, MoveRight, ScreenBackspace, Backspace,
     ScreenInsert, InsertChar, ScreenAppend, AppendChunk, ScreenRecall, MoveUp, MoveDown,
     ScreenEnter, Enter,
     IsArrow, IsBackspace, IsText, CR, ETX, FF, ESC, BS, DEL, TAB, HELP, IAC, DO

LEMMA TurnShown ==
  ASSUME IInv, IInv', status = "open", status' = "open",
         NEW l \in CmdLines, ScreenDispatch(l), Handled(l), Plain(cmd_buf'),
         Faithful \/ (Byte(l, 1) \in {CR, FF} /\ terminal # Lost)
  PROVE  Faithful'
<1>1. Faithful => terminal # Lost
  BY FaithfulShowsLine, NotGone DEF ShowsLine
<1>2. CASE ScreenEnter(l)
  <2>1. terminal # Lost
    BY <1>1
  <2> QED BY <1>2, <2>1, EnterShown, FaithfulShowsLineThen DEF ShownThen
<1>3. CASE ScreenAbandon(l)
  <2>1. terminal # Lost
    BY <1>1
  <2> QED BY <1>3, <2>1, AbandonShown, FaithfulShowsLineThen DEF ShownThen
<1>4. CASE ~ScreenEnter(l) /\ ~ScreenAbandon(l)
  <2>1. Faithful
    BY <1>4, HeadsOfKeys
  <2>2. Handles(l)
    BY <2>1, FaithfulShowsLine DEF Handles, Open
  <2>3. ShownThen
    BY <1>4, <2>2, IgnoredShown, MovesShown, BackspaceShown, InsertShown, AppendShown,
       RecallShown DEF ScreenDispatch
  <2> QED BY <2>3, FaithfulShowsLineThen DEF ShownThen
<1> QED BY <1>2, <1>3, <1>4

\* The editor with its screen is the editor.
LEMMA ScreenInvariance == ScreenSpec => []IInv
<1>1. ScreenInit => IInv
  BY InitIInv DEF ScreenInit
<1>2. IInv /\ [ScreenNext]_svars => IInv'
  <2>1. [ScreenNext]_svars => [Next]_evars
    <3> SUFFICES ASSUME [ScreenNext]_svars PROVE [Next]_evars
      OBVIOUS
    <3>1. CASE UNCHANGED svars
      BY <3>1 DEF svars, evars
    <3>2. CASE (status = "open" /\ Overread) \/ Hangup \/ ReadEof
      BY <3>2 DEF Next
    <3>3. ASSUME NEW l \in CmdLines, status = "open", ScreenDispatch(l) PROVE Next
      BY <3>3 DEF Next, Dispatch, ScreenDispatch, ScreenIgnored, ScreenAbandon, ScreenMoveLeft,
         ScreenMoveRight, ScreenBackspace, ScreenInsert, ScreenAppend, ScreenRecall, ScreenEnter
    <3> QED BY <3>1, <3>2, <3>3 DEF ScreenNext
  <2> QED BY <2>1, NextIInv
<1> QED BY <1>1, <1>2, PTL DEF ScreenSpec

\* What each turn of telnet_server.c:355-535 sends turns a row that shows the
\* prompt, the line and its cursor into one that shows the new line and its
\* cursor, for lines and prompts of any length and reads of any bytes; but for
\* the turns that Handled names, and those that leave a control byte in the
\* line, as Home, End, Delete, a function key and a lone Esc do.  And Enter, or
\* Ctrl-L at the end of the line, makes the row right again, unless an Esc or a
\* shift of the character set has been echoed before.
THEOREM RowIsKept == ScreenSpec => RowKeptByTurns
<1>1. IInv /\ IInv' /\ [ScreenNext]_svars =>
        [/\ status = "open" /\ status' = "open"
         /\ Handled(cmd_line') /\ Plain(cmd_buf')
         /\ Faithful \/ (Byte(cmd_line', 1) \in {CR, FF} /\ terminal # Lost)
         => Faithful']_svars
  <2> SUFFICES ASSUME IInv, IInv', ScreenNext, status = "open", status' = "open",
                      Handled(cmd_line'), Plain(cmd_buf'),
                      Faithful \/ (Byte(cmd_line', 1) \in {CR, FF} /\ terminal # Lost)
               PROVE  Faithful'
    OBVIOUS
  <2>1. ~Overread /\ ~Hangup /\ ~ReadEof
    BY DEF Overread, GoesWrong, Hangup, ReadEof
  <2>2. PICK l \in CmdLines : ScreenDispatch(l) /\ cmd_line' = l
    BY <2>1 DEF ScreenNext
  <2> QED BY <2>2, TurnShown
<1> QED BY <1>1, ScreenInvariance, PTL DEF ScreenSpec, RowKeptByTurns

=============================================================================
