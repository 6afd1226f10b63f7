---------------------------- MODULE TelLogProofs ----------------------------
(***************************************************************************)
(* Proofs about TelLog, for any number of writers and levels, any          *)
(* registered size and any lengths of the entries.                         *)
(***************************************************************************)
EXTENDS TelLog, TLAPS

-----------------------------------------------------------------------------
(* The inductive invariant *)

\* Writers that take turns: at most one is in tel_write_log.
Alone == \A v, w \in Writer : pc[v] # "idle" /\ pc[w] # "idle" => v = w

\* Where its FILE and the place of the log are while one is.
Placed(w) ==
  /\ pc[w] \in {"seeked", "sized", "stamping"} => Cur(w) = pos[w]
  /\ pc[w] \in {"sized", "stamping", "stamped", "texting", "written"} =>
       pos[w] <= MaxLogSize
  /\ pc[w] = "stamping" => loaded[w] = pos[w]
  /\ pc[w] \in {"stamped", "texting"} => Cur(w) = pos[w] + stamp[w]
  /\ pc[w] = "texting" => loaded[w] = pos[w] + stamp[w]
  /\ pc[w] = "written" => Cur(w) = pos[w] + stamp[w] + text[w]

\* An entry under way is no longer than the longest.
Entries == \A w \in Writer : stamp[w] + text[w] <= LongestEntry

\* A file removed from under its writer is one that has been removed.
Orphans == \A w \in Writer : orphan[w] => pc[w] # "idle" /\ sink[w] \in removed

\* The place is ahead of the file only while the entry between is in a buffer.
Advanced(k) == \E w \in Writer : sink[w] = k /\ pc[w] \in {"stamped", "texting", "written"}
Covered     == \A k \in Sink \ removed : ~Advanced(k) => cur_size[k] <= file_size[k]

InTurn == /\ Alone /\ Orphans /\ Covered
          /\ \A w \in Writer : Placed(w)
          /\ SizeLimited(1)

IInv == TypeOK /\ Entries /\ (~overlapped => InTurn)

-----------------------------------------------------------------------------
(* The constants *)

\* An entry is no longer than the longest.
LEMMA LongestEntryBound ==
  /\ LongestEntry \in Nat
  /\ \A s \in StampSizes, t \in TextSizes : s + t <= LongestEntry
<1> DEFINE Sizes == {s + t : s \in StampSizes, t \in TextSizes}
           IsLongest(n) == \A s \in StampSizes, t \in TextSizes : s + t <= n
<1>1. \E n \in Sizes : IsLongest(n)
  <2>1. PICK s \in StampSizes, t \in TextSizes :
               \A u \in StampSizes, v \in TextSizes : u + v <= s + t
    BY TelLogAssumption
  <2>2. s + t \in Sizes /\ IsLongest(s + t)
    BY <2>1
  <2> QED BY <2>2
<1>2. LongestEntry \in Sizes /\ IsLongest(LongestEntry)
  <2> HIDE DEF Sizes, IsLongest
  <2>1. (CHOOSE n \in Sizes : IsLongest(n)) \in Sizes
        /\ IsLongest(CHOOSE n \in Sizes : IsLongest(n))
    BY <1>1
  <2> QED BY <2>1 DEF LongestEntry, Sizes, IsLongest
<1>3. Sizes \subseteq Nat
  BY TelLogAssumption
<1> QED BY <1>2, <1>3

\* What is written to is a sink.
LEMMA SinkOfLevel == \A l \in Level : SinkOf(l) \in Sink
BY TelLogAssumption DEF Sink, SinkOf

-----------------------------------------------------------------------------
(* Type correctness *)

LEMMA InitTypeOK == Init => TypeOK
<1> SUFFICES ASSUME Init PROVE TypeOK
  OBVIOUS
<1> USE DEF Init
<1>1. cur_size \in [Sink -> Nat] /\ file_size \in [Sink -> Nat]
  OBVIOUS
<1>2. pc \in [Writer -> PC] /\ sink \in [Writer -> Sink]
  BY DEF PC
<1>3. /\ pos \in [Writer -> Nat] /\ stamp \in [Writer -> Nat]
      /\ text \in [Writer -> Nat] /\ loaded \in [Writer -> Nat]
  OBVIOUS
<1>4. orphan \in [Writer -> BOOLEAN]
  OBVIOUS
<1>5. /\ present \subseteq Sink /\ removed \subseteq Sink
      /\ status \in {"running", "crashed"} /\ overlapped \in BOOLEAN
  OBVIOUS
<1> QED BY <1>1, <1>2, <1>3, <1>4, <1>5 DEF TypeOK

LEMMA ReturnType ==
  ASSUME TypeOK, NEW w \in Writer, Return(w)
  PROVE  /\ pc' \in [Writer -> PC] /\ sink' \in [Writer -> Sink]
         /\ pos' \in [Writer -> Nat] /\ stamp' \in [Writer -> Nat]
         /\ text' \in [Writer -> Nat] /\ loaded' \in [Writer -> Nat]
         /\ orphan' \in [Writer -> BOOLEAN]
BY DEF TypeOK, Return, PC

LEMMA StepType ==
  ASSUME TypeOK, NEW w \in Writer, NEW from, NEW to \in PC, Step(w, from, to)
  PROVE  pc' \in [Writer -> PC]
BY DEF TypeOK, Step

LEMMA SetCurType ==
  ASSUME TypeOK, NEW w \in Writer, NEW n \in Nat, SetCur(w, n)
  PROVE  cur_size' \in [Sink -> Nat]
BY DEF TypeOK, SetCur

LEMMA CurType ==
  ASSUME TypeOK, NEW w \in Writer
  PROVE  sink[w] \in Sink /\ Cur(w) \in Nat
BY DEF TypeOK, Cur

LEMMA NextTypeOK == TypeOK /\ [Next]_lvars => TypeOK'
<1> SUFFICES ASSUME TypeOK, [Next]_lvars PROVE TypeOK'
  OBVIOUS
<1> USE DEF TypeOK, files
<1>1. ASSUME NEW w \in Writer, Open(w) PROVE TypeOK'
  <2>1. pc' \in [Writer -> PC]
    BY <1>1, StepType DEF Open, PC
  <2>2. sink' \in [Writer -> Sink] /\ present' \subseteq Sink
    BY <1>1, SinkOfLevel DEF Open
  <2>3. stamp' \in [Writer -> Nat] /\ text' \in [Writer -> Nat]
    BY <1>1, TelLogAssumption DEF Open
  <2>4. overlapped' \in BOOLEAN
    BY <1>1 DEF Open
  <2> QED BY <1>1, <2>1, <2>2, <2>3, <2>4 DEF Open
<1>2. ASSUME NEW w \in Writer, Access(w) PROVE TypeOK'
  BY <1>2, StepType DEF Access, PC
<1>3. ASSUME NEW w \in Writer, GiveUp(w) PROVE TypeOK'
  BY <1>3, ReturnType DEF GiveUp
<1>4. ASSUME NEW w \in Writer, StatFails(w) PROVE TypeOK'
  BY <1>4 DEF StatFails
<1>5. ASSUME NEW w \in Writer, Seek(w) PROVE TypeOK'
  BY <1>5, StepType, CurType DEF Seek, PC
<1>6. ASSUME NEW w \in Writer, Compare(w) PROVE TypeOK'
  BY <1>6, StepType DEF Compare, PC
<1>7. ASSUME NEW w \in Writer, Wrap(w) PROVE TypeOK'
  BY <1>7, StepType, SetCurType DEF Wrap, PC
<1>8. ASSUME NEW w \in Writer, NoTime(w) PROVE TypeOK'
  BY <1>8, ReturnType DEF NoTime
<1>9. ASSUME NEW w \in Writer, LoadForStamp(w) PROVE TypeOK'
  BY <1>9, StepType, CurType DEF LoadForStamp, PC
<1>10. ASSUME NEW w \in Writer, AddStamp(w) PROVE TypeOK'
  <2>1. loaded[w] + stamp[w] \in Nat
    OBVIOUS
  <2> QED BY <1>10, <2>1, StepType, SetCurType DEF AddStamp, PC
<1>11. ASSUME NEW w \in Writer, LoadForText(w) PROVE TypeOK'
  BY <1>11, StepType, CurType DEF LoadForText, PC
<1>12. ASSUME NEW w \in Writer, AddText(w) PROVE TypeOK'
  <2>1. loaded[w] + text[w] \in Nat
    OBVIOUS
  <2> QED BY <1>12, <2>1, StepType, SetCurType DEF AddText, PC
<1>13. ASSUME NEW w \in Writer, Close(w) PROVE TypeOK'
  <2>1. file_size' \in [Sink -> Nat]
    BY <1>13 DEF Close
  <2> QED BY <1>13, <2>1, ReturnType DEF Close
<1>14. ASSUME NEW k \in Sink, Remove(k) PROVE TypeOK'
  BY <1>14 DEF Remove
<1>15. CASE Restart
  BY <1>15 DEF Restart, PC
<1>16. CASE UNCHANGED lvars
  BY <1>16 DEF lvars
<1> QED BY <1>1, <1>2, <1>3, <1>4, <1>5, <1>6, <1>7, <1>8, <1>9, <1>10, <1>11,
           <1>12, <1>13, <1>14, <1>15, <1>16 DEF Next, Write

\* Every reachable state has the declared types (tel_write_log, log.c:262-446).
THEOREM TypeCorrect == Spec => []TypeOK
BY InitTypeOK, NextTypeOK, PTL DEF Spec

-----------------------------------------------------------------------------
(* Entries *)

LEMMA NextEntries == TypeOK /\ Entries /\ [Next]_lvars => Entries'
<1> SUFFICES ASSUME TypeOK, Entries, [Next]_lvars PROVE Entries'
  OBVIOUS
<1> USE LongestEntryBound DEF TypeOK, Entries
<1>1. ASSUME NEW w \in Writer, Open(w) PROVE Entries'
  BY <1>1, TelLogAssumption DEF Open
<1>2. ASSUME NEW w \in Writer, Return(w) PROVE Entries'
  BY <1>2 DEF Return
<1>3. CASE UNCHANGED <<stamp, text>>
  BY <1>3
<1>4. CASE Restart
  BY <1>4 DEF Restart
<1> QED BY <1>1, <1>2, <1>3, <1>4 DEF Next, Write, GiveUp, NoTime, Close, Access,
           StatFails, Seek, Compare, Wrap, LoadForStamp, AddStamp, LoadForText,
           AddText, Remove, lvars

-----------------------------------------------------------------------------
(* Writers that take turns *)

\* The others are idle while one is in tel_write_log.
LEMMA OthersIdle ==
  ASSUME TypeOK, Alone, NEW w \in Writer, pc[w] # "idle"
  PROVE  \A v \in Writer : v # w => pc[v] = "idle"
BY DEF Alone

LEMMA OpenInTurn ==
  ASSUME IInv, NEW w \in Writer, Open(w), ~overlapped'
  PROVE  InTurn'
<1> USE TelLogAssumption DEF IInv, TypeOK, files, Step, SetCur, Cur
<1>1. ~overlapped /\ InTurn /\ \A v \in Writer : v # w => pc[v] = "idle"
  BY DEF Open, InTurn
<1>2. Alone'
  BY <1>1 DEF Open, InTurn, Alone, Return
<1>3. Orphans'
  BY <1>1 DEF Open, InTurn, Orphans, Return
<1>4. Covered'
  BY <1>1 DEF Open, InTurn, Covered, Advanced, Placed, Orphans, Return
<1>5. \A v \in Writer : Placed(v)'
  BY <1>1 DEF Open, InTurn, Placed, Return
<1>6. SizeLimited(1)'
  BY <1>1, LongestEntryBound DEF Open, InTurn, SizeLimited, Placed, Entries, Return
<1> QED BY <1>2, <1>3, <1>4, <1>5, <1>6 DEF InTurn

LEMMA AccessInTurn ==
  ASSUME IInv, NEW w \in Writer, Access(w), ~overlapped'
  PROVE  InTurn'
<1> USE TelLogAssumption DEF IInv, TypeOK, files, Step, SetCur, Cur
<1>1. ~overlapped /\ InTurn /\ \A v \in Writer : v # w => pc[v] = "idle"
  BY OthersIdle DEF Access, InTurn
<1>2. Alone'
  BY <1>1 DEF Access, InTurn, Alone, Return
<1>3. Orphans'
  BY <1>1 DEF Access, InTurn, Orphans, Return
<1>4. Covered'
  BY <1>1 DEF Access, InTurn, Covered, Advanced, Placed, Orphans, Return
<1>5. \A v \in Writer : Placed(v)'
  BY <1>1 DEF Access, InTurn, Placed, Return
<1>6. SizeLimited(1)'
  BY <1>1, LongestEntryBound DEF Access, InTurn, SizeLimited, Placed, Entries, Return
<1> QED BY <1>2, <1>3, <1>4, <1>5, <1>6 DEF InTurn

LEMMA GiveUpInTurn ==
  ASSUME IInv, NEW w \in Writer, GiveUp(w), ~overlapped'
  PROVE  InTurn'
<1> USE TelLogAssumption DEF IInv, TypeOK, files, Step, SetCur, Cur
<1>1. ~overlapped /\ InTurn /\ \A v \in Writer : v # w => pc[v] = "idle"
  BY OthersIdle DEF GiveUp, InTurn
<1>2. Alone'
  BY <1>1 DEF GiveUp, InTurn, Alone, Return
<1>3. Orphans'
  BY <1>1 DEF GiveUp, InTurn, Orphans, Return
<1>4. Covered'
  BY <1>1 DEF GiveUp, InTurn, Covered, Advanced, Placed, Orphans, Return
<1>5. \A v \in Writer : Placed(v)'
  BY <1>1 DEF GiveUp, InTurn, Placed, Return
<1>6. SizeLimited(1)'
  BY <1>1, LongestEntryBound DEF GiveUp, InTurn, SizeLimited, Placed, Entries, Return
<1> QED BY <1>2, <1>3, <1>4, <1>5, <1>6 DEF InTurn

LEMMA StatFailsInTurn ==
  ASSUME IInv, NEW w \in Writer, StatFails(w), ~overlapped'
  PROVE  InTurn'
<1> USE TelLogAssumption DEF IInv, TypeOK, files, Step, SetCur, Cur
<1>1. ~overlapped /\ InTurn /\ \A v \in Writer : v # w => pc[v] = "idle"
  BY OthersIdle DEF StatFails, InTurn
<1>2. Alone'
  BY <1>1 DEF StatFails, InTurn, Alone, Return
<1>3. Orphans'
  BY <1>1 DEF StatFails, InTurn, Orphans, Return
<1>4. Covered'
  BY <1>1 DEF StatFails, InTurn, Covered, Advanced, Placed, Orphans, Return
<1>5. \A v \in Writer : Placed(v)'
  BY <1>1 DEF StatFails, InTurn, Placed, Return
<1>6. SizeLimited(1)'
  BY <1>1, LongestEntryBound DEF StatFails, InTurn, SizeLimited, Placed, Entries, Return
<1> QED BY <1>2, <1>3, <1>4, <1>5, <1>6 DEF InTurn

LEMMA SeekInTurn ==
  ASSUME IInv, NEW w \in Writer, Seek(w), ~overlapped'
  PROVE  InTurn'
<1> USE TelLogAssumption DEF IInv, TypeOK, files, Step, SetCur, Cur
<1>1. ~overlapped /\ InTurn /\ \A v \in Writer : v # w => pc[v] = "idle"
  BY OthersIdle DEF Seek, InTurn
<1>2. Alone'
  BY <1>1 DEF Seek, InTurn, Alone, Return
<1>3. Orphans'
  BY <1>1 DEF Seek, InTurn, Orphans, Return
<1>4. Covered'
  BY <1>1 DEF Seek, InTurn, Covered, Advanced, Placed, Orphans, Return
<1>5. \A v \in Writer : Placed(v)'
  BY <1>1 DEF Seek, InTurn, Placed, Return
<1>6. SizeLimited(1)'
  BY <1>1, LongestEntryBound DEF Seek, InTurn, SizeLimited, Placed, Entries, Return
<1> QED BY <1>2, <1>3, <1>4, <1>5, <1>6 DEF InTurn

LEMMA CompareInTurn ==
  ASSUME IInv, NEW w \in Writer, Compare(w), ~overlapped'
  PROVE  InTurn'
<1> USE TelLogAssumption DEF IInv, TypeOK, files, Step, SetCur, Cur
<1>1. ~overlapped /\ InTurn /\ \A v \in Writer : v # w => pc[v] = "idle"
  BY OthersIdle DEF Compare, InTurn
<1>2. Alone'
  BY <1>1 DEF Compare, InTurn, Alone, Return
<1>3. Orphans'
  BY <1>1 DEF Compare, InTurn, Orphans, Return
<1>4. Covered'
  BY <1>1 DEF Compare, InTurn, Covered, Advanced, Placed, Orphans, Return
<1>5. \A v \in Writer : Placed(v)'
  BY <1>1 DEF Compare, InTurn, Placed, Return
<1>6. SizeLimited(1)'
  BY <1>1, LongestEntryBound DEF Compare, InTurn, SizeLimited, Placed, Entries, Return
<1> QED BY <1>2, <1>3, <1>4, <1>5, <1>6 DEF InTurn

LEMMA WrapInTurn ==
  ASSUME IInv, NEW w \in Writer, Wrap(w), ~overlapped'
  PROVE  InTurn'
<1> USE TelLogAssumption DEF IInv, TypeOK, files, Step, SetCur, Cur
<1>1. ~overlapped /\ InTurn /\ \A v \in Writer : v # w => pc[v] = "idle"
  BY OthersIdle DEF Wrap, InTurn
<1>2. Alone'
  BY <1>1 DEF Wrap, InTurn, Alone, Return
<1>3. Orphans'
  BY <1>1 DEF Wrap, InTurn, Orphans, Return
<1>4. Covered'
  BY <1>1 DEF Wrap, InTurn, Covered, Advanced, Placed, Orphans, Return
<1>5. \A v \in Writer : Placed(v)'
  BY <1>1 DEF Wrap, InTurn, Placed, Return
<1>6. SizeLimited(1)'
  BY <1>1, LongestEntryBound DEF Wrap, InTurn, SizeLimited, Placed, Entries, Return
<1> QED BY <1>2, <1>3, <1>4, <1>5, <1>6 DEF InTurn

LEMMA NoTimeInTurn ==
  ASSUME IInv, NEW w \in Writer, NoTime(w), ~overlapped'
  PROVE  InTurn'
<1> USE TelLogAssumption DEF IInv, TypeOK, files, Step, SetCur, Cur
<1>1. ~overlapped /\ InTurn /\ \A v \in Writer : v # w => pc[v] = "idle"
  BY OthersIdle DEF NoTime, InTurn
<1>2. Alone'
  BY <1>1 DEF NoTime, InTurn, Alone, Return
<1>3. Orphans'
  BY <1>1 DEF NoTime, InTurn, Orphans, Return
<1>4. Covered'
  BY <1>1 DEF NoTime, InTurn, Covered, Advanced, Placed, Orphans, Return
<1>5. \A v \in Writer : Placed(v)'
  BY <1>1 DEF NoTime, InTurn, Placed, Return
<1>6. SizeLimited(1)'
  BY <1>1, LongestEntryBound DEF NoTime, InTurn, SizeLimited, Placed, Entries, Return
<1> QED BY <1>2, <1>3, <1>4, <1>5, <1>6 DEF InTurn

LEMMA LoadForStampInTurn ==
  ASSUME IInv, NEW w \in Writer, LoadForStamp(w), ~overlapped'
  PROVE  InTurn'
<1> USE TelLogAssumption DEF IInv, TypeOK, files, Step, SetCur, Cur
<1>1. ~overlapped /\ InTurn /\ \A v \in Writer : v # w => pc[v] = "idle"
  BY OthersIdle DEF LoadForStamp, InTurn
<1>2. Alone'
  BY <1>1 DEF LoadForStamp, InTurn, Alone, Return
<1>3. Orphans'
  BY <1>1 DEF LoadForStamp, InTurn, Orphans, Return
<1>4. Covered'
  BY <1>1 DEF LoadForStamp, InTurn, Covered, Advanced, Placed, Orphans, Return
<1>5. \A v \in Writer : Placed(v)'
  BY <1>1 DEF LoadForStamp, InTurn, Placed, Return
<1>6. SizeLimited(1)'
  BY <1>1, LongestEntryBound DEF LoadForStamp, InTurn, SizeLimited, Placed, Entries, Return
<1> QED BY <1>2, <1>3, <1>4, <1>5, <1>6 DEF InTurn

LEMMA AddStampInTurn ==
  ASSUME IInv, NEW w \in Writer, AddStamp(w), ~overlapped'
  PROVE  InTurn'
<1> USE TelLogAssumption DEF IInv, TypeOK, files, Step, SetCur, Cur
<1>1. ~overlapped /\ InTurn /\ \A v \in Writer : v # w => pc[v] = "idle"
  BY OthersIdle DEF AddStamp, InTurn
<1>2. Alone'
  BY <1>1 DEF AddStamp, InTurn, Alone, Return
<1>3. Orphans'
  BY <1>1 DEF AddStamp, InTurn, Orphans, Return
<1>4. Covered'
  BY <1>1 DEF AddStamp, InTurn, Covered, Advanced, Placed, Orphans, Return
<1>5. \A v \in Writer : Placed(v)'
  BY <1>1 DEF AddStamp, InTurn, Placed, Return
<1>6. SizeLimited(1)'
  BY <1>1, LongestEntryBound DEF AddStamp, InTurn, SizeLimited, Placed, Entries, Return
<1> QED BY <1>2, <1>3, <1>4, <1>5, <1>6 DEF InTurn

LEMMA LoadForTextInTurn ==
  ASSUME IInv, NEW w \in Writer, LoadForText(w), ~overlapped'
  PROVE  InTurn'
<1> USE TelLogAssumption DEF IInv, TypeOK, files, Step, SetCur, Cur
<1>1. ~overlapped /\ InTurn /\ \A v \in Writer : v # w => pc[v] = "idle"
  BY OthersIdle DEF LoadForText, InTurn
<1>2. Alone'
  BY <1>1 DEF LoadForText, InTurn, Alone, Return
<1>3. Orphans'
  BY <1>1 DEF LoadForText, InTurn, Orphans, Return
<1>4. Covered'
  BY <1>1 DEF LoadForText, InTurn, Covered, Advanced, Placed, Orphans, Return
<1>5. \A v \in Writer : Placed(v)'
  BY <1>1 DEF LoadForText, InTurn, Placed, Return
<1>6. SizeLimited(1)'
  BY <1>1, LongestEntryBound DEF LoadForText, InTurn, SizeLimited, Placed, Entries, Return
<1> QED BY <1>2, <1>3, <1>4, <1>5, <1>6 DEF InTurn

LEMMA AddTextInTurn ==
  ASSUME IInv, NEW w \in Writer, AddText(w), ~overlapped'
  PROVE  InTurn'
<1> USE TelLogAssumption DEF IInv, TypeOK, files, Step, SetCur, Cur
<1>1. ~overlapped /\ InTurn /\ \A v \in Writer : v # w => pc[v] = "idle"
  BY OthersIdle DEF AddText, InTurn
<1>2. Alone'
  BY <1>1 DEF AddText, InTurn, Alone, Return
<1>3. Orphans'
  BY <1>1 DEF AddText, InTurn, Orphans, Return
<1>4. Covered'
  BY <1>1 DEF AddText, InTurn, Covered, Advanced, Placed, Orphans, Return
<1>5. \A v \in Writer : Placed(v)'
  BY <1>1 DEF AddText, InTurn, Placed, Return
<1>6. SizeLimited(1)'
  BY <1>1, LongestEntryBound DEF AddText, InTurn, SizeLimited, Placed, Entries, Return
<1> QED BY <1>2, <1>3, <1>4, <1>5, <1>6 DEF InTurn

LEMMA CloseInTurn ==
  ASSUME IInv, NEW w \in Writer, Close(w), ~overlapped'
  PROVE  InTurn'
<1> USE TelLogAssumption DEF IInv, TypeOK, files, Step, SetCur, Cur
<1>1. ~overlapped /\ InTurn /\ \A v \in Writer : v # w => pc[v] = "idle"
  BY OthersIdle DEF Close, InTurn
<1>2. Alone'
  BY <1>1 DEF Close, InTurn, Alone, Return
<1>3. Orphans'
  BY <1>1 DEF Close, InTurn, Orphans, Return
<1>4. Covered'
  BY <1>1 DEF Close, InTurn, Covered, Advanced, Placed, Orphans, Return
<1>5. \A v \in Writer : Placed(v)'
  BY <1>1 DEF Close, InTurn, Placed, Return
<1>6. SizeLimited(1)'
  BY <1>1, LongestEntryBound DEF Close, InTurn, SizeLimited, Placed, Entries, Return
<1> QED BY <1>2, <1>3, <1>4, <1>5, <1>6 DEF InTurn

LEMMA RemoveInTurn ==
  ASSUME IInv, NEW k \in Sink, Remove(k), ~overlapped'
  PROVE  InTurn'
<1> USE DEF IInv, TypeOK, Cur, Remove
<1>1. ~overlapped /\ InTurn
  OBVIOUS
<1>2. Alone'
  BY <1>1 DEF InTurn, Alone
<1>3. Orphans'
  BY <1>1 DEF InTurn, Orphans
<1>4. Covered'
  BY <1>1 DEF InTurn, Covered, Advanced
<1>5. \A v \in Writer : Placed(v)'
  BY <1>1 DEF InTurn, Placed
<1>6. SizeLimited(1)'
  BY <1>1, TelLogAssumption, LongestEntryBound DEF InTurn, SizeLimited
<1> QED BY <1>2, <1>3, <1>4, <1>5, <1>6 DEF InTurn

\* A restart forgets everything but the files.
LEMMA RestartInTurn ==
  ASSUME IInv, Restart, ~overlapped'
  PROVE  InTurn'
<1> USE DEF IInv, TypeOK, Restart
<1>1. Alone' /\ Orphans' /\ \A v \in Writer : Placed(v)'
  BY DEF Alone, Orphans, Placed
<1>2. Covered'
  BY DEF Covered, Advanced
<1>3. SizeLimited(1)'
  BY DEF InTurn, SizeLimited
<1> QED BY <1>1, <1>2, <1>3 DEF InTurn

LEMMA InitIInv == Init => IInv
<1> SUFFICES ASSUME Init PROVE IInv
  OBVIOUS
<1>1. TypeOK
  BY InitTypeOK
<1>2. Entries
  <2> SUFFICES ASSUME NEW w \in Writer PROVE stamp[w] + text[w] <= LongestEntry
    BY DEF Entries
  <2>1. stamp[w] = 0 /\ text[w] = 0
    BY DEF Init
  <2>2. stamp[w] + text[w] = 0
    BY <2>1
  <2> QED BY <2>2, LongestEntryBound
<1>3. Alone /\ Orphans /\ \A w \in Writer : Placed(w)
  BY DEF Init, Alone, Orphans, Placed
<1>4. Covered /\ SizeLimited(1)
  BY TelLogAssumption, LongestEntryBound DEF Init, Covered, SizeLimited
<1> QED BY <1>1, <1>2, <1>3, <1>4 DEF IInv, InTurn

LEMMA NextIInv == IInv /\ [Next]_lvars => IInv'
<1> SUFFICES ASSUME IInv, [Next]_lvars PROVE IInv'
  OBVIOUS
<1>1. TypeOK' /\ Entries'
  BY NextTypeOK, NextEntries DEF IInv
<1>2. ASSUME ~overlapped' PROVE InTurn'
  <2>1. ASSUME NEW w \in Writer, Write(w) PROVE InTurn'
    BY <1>2, <2>1, OpenInTurn, AccessInTurn, GiveUpInTurn, StatFailsInTurn,
       SeekInTurn, CompareInTurn, WrapInTurn, NoTimeInTurn, LoadForStampInTurn,
       AddStampInTurn, LoadForTextInTurn, AddTextInTurn, CloseInTurn DEF Write
  <2>2. CASE UNCHANGED lvars
    BY <1>2, <2>2 DEF IInv, InTurn, Alone, Orphans, Covered, Advanced, Placed,
       Cur, SizeLimited, lvars, files
  <2> QED BY <1>2, <2>1, <2>2, RemoveInTurn, RestartInTurn DEF Next
<1> QED BY <1>1, <1>2 DEF IInv

LEMMA Invariance == Spec => []IInv
BY InitIInv, NextIInv, PTL DEF Spec

-----------------------------------------------------------------------------
(* The size of the files *)

\* Writers that take turns never let a file grow beyond its registered size by
\* more than the end of one entry (tel_log_size_set, log.c:250-257), whatever
\* is restarted and removed in between.
THEOREM SizeIsLimited == Spec => []LimitedInTurn
<1>1. IInv => LimitedInTurn
  BY DEF IInv, InTurn, LimitedInTurn
<1> QED BY <1>1, Invariance, PTL

\* Between the entries of writers that take turns the place of the log is
\* inside its file (log.c:251, 432-436), unless that has been removed since the
\* place last was at the start.
THEOREM NoHoles == Spec => []NoHoleInTurn
<1>1. IInv => NoHoleInTurn
  BY DEF IInv, InTurn, Covered, Advanced, NoHoleInTurn
<1> QED BY <1>1, Invariance, PTL

=============================================================================
