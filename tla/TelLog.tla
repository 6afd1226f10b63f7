------------------------------- MODULE TelLog -------------------------------
(***************************************************************************)
(* Threads of the process writing to the log of one registered module      *)
(* (tel_write_log, log.c).  Every call opens the file, seeks to where the  *)
(* log has got to, starts again from the beginning when that is as far as  *)
(* the registered size, advances that place by what it is about to write,  *)
(* and writes when it closes the file.  The place is a field of the node   *)
(* all threads share; no lock is taken, and += is a load and a store.      *)
(*                                                                         *)
(* A file is its size; what the bytes are is left out.  Somebody may       *)
(* remove it at any moment, which the code looks out for at three places.  *)
(***************************************************************************)
EXTENDS Integers

CONSTANTS
  Writer,      \* threads that log for the module
  Level,       \* log_level, as numbers
  RegLevel,    \* reg_info.level: lower levels are not written
  MultiFile,   \* reg_info.mulitifile: a file per level
  MaxLogSize,  \* reg_info.max_log_size
  StampSizes,  \* strlen(time_buf)
  TextSizes    \* buf_len: length of the formatted message

LongestEntry == CHOOSE n \in {s + t : s \in StampSizes, t \in TextSizes} :
                  \A s \in StampSizes, t \in TextSizes : s + t <= n

ASSUME TelLogAssumption ==
  /\ Level \subseteq Nat \ {0} /\ RegLevel \in Nat
  /\ \E l \in Level : l >= RegLevel
  /\ MultiFile \in BOOLEAN
  /\ MaxLogSize \in Nat
  /\ StampSizes \subseteq Nat /\ TextSizes \subseteq Nat
  /\ \E s \in StampSizes, t \in TextSizes :
       \A u \in StampSizes, v \in TextSizes : u + v <= s + t

\* cur_log_size and its file (0), or one of the cur_*_log_size and its file.
Sink == IF MultiFile THEN Level ELSE {0}

\* A mutant: mulitifile is not looked at.
SinkOfOne(level) == 0

SinkOf(level) == IF MultiFile THEN level ELSE 0

VARIABLES
  cur_size,    \* reg_info.cur_size: where the log has got to, by sink
  file_size,   \* size of the file on disk, by sink
  present,     \* the sinks whose file is there (access, stat)
  pc,          \* where each thread is in tel_write_log
  sink,        \* what it writes to
  pos,         \* offset of its FILE
  stamp,       \* strlen(time_buf)
  text,        \* buf_len
  loaded,      \* the value its += has loaded
  orphan,      \* the file it has open has been removed
  status,      \* "running", or "crashed" (a FILE closed twice)
  overlapped,  \* history: two threads have been in tel_write_log at once
  removed      \* history: sinks whose file was removed since their last start

files == <<file_size, present, orphan, removed>>
lvars == <<cur_size, files, pc, sink, pos, stamp, text, loaded, status, overlapped>>

PC == {"idle", "opened", "checked", "seeked", "wrap", "sized", "stamping", "stamped",
       "texting", "written"}

TypeOK ==
  /\ cur_size \in [Sink -> Nat]
  /\ file_size \in [Sink -> Nat]
  /\ present \subseteq Sink /\ removed \subseteq Sink
  /\ pc \in [Writer -> PC]
  /\ sink \in [Writer -> Sink]
  /\ pos \in [Writer -> Nat]
  /\ stamp \in [Writer -> Nat]
  /\ text \in [Writer -> Nat]
  /\ loaded \in [Writer -> Nat]
  /\ orphan \in [Writer -> BOOLEAN]
  /\ status \in {"running", "crashed"}
  /\ overlapped \in BOOLEAN

\* The place is 0 because telnet_reg_log clears its reg_info.
Init ==
  /\ cur_size = [k \in Sink |-> 0]
  /\ file_size = [k \in Sink |-> 0]
  /\ pc = [w \in Writer |-> "idle"]
  /\ pos = [w \in Writer |-> 0]
  /\ stamp = [w \in Writer |-> 0]
  /\ text = [w \in Writer |-> 0]
  /\ loaded = [w \in Writer |-> 0]
  /\ sink \in [Writer -> Sink]
  /\ present = {} /\ removed = {}
  /\ orphan = [w \in Writer |-> FALSE]
  /\ status = "running"
  /\ overlapped = FALSE

Step(w, from, to) == pc[w] = from /\ pc' = [pc EXCEPT ![w] = to]
Cur(w)            == cur_size[sink[w]]
SetCur(w, n)      == cur_size' = [cur_size EXCEPT ![sink[w]] = n]

\* tel_write_log returns.
Return(w) ==
  /\ pc' = [pc EXCEPT ![w] = "idle"]
  /\ pos' = [pos EXCEPT ![w] = 0]
  /\ stamp' = [stamp EXCEPT ![w] = 0]
  /\ text' = [text EXCEPT ![w] = 0]
  /\ loaded' = [loaded EXCEPT ![w] = 0]
  /\ orphan' = [orphan EXCEPT ![w] = FALSE]
  /\ UNCHANGED sink

-----------------------------------------------------------------------------
\* tel_log_file_open, for a level that is registered: the file is created if
\* it is not there, and opened without truncating it.  (For any other level,
\* and when the file cannot be opened, tel_write_log returns.)
Open(w) ==
  /\ Step(w, "idle", "opened")
  /\ \E l \in Level :
       /\ l >= RegLevel
       /\ sink' = [sink EXCEPT ![w] = SinkOf(l)]
       /\ present' = present \cup {SinkOf(l)}
  /\ pos' = [pos EXCEPT ![w] = 0]
  /\ \E s \in StampSizes : stamp' = [stamp EXCEPT ![w] = s]
  /\ \E n \in TextSizes : text' = [text EXCEPT ![w] = n]
  /\ overlapped' = (overlapped \/ \E v \in Writer \ {w} : pc[v] # "idle")
  /\ UNCHANGED <<cur_size, file_size, loaded, orphan, removed, status>>

\* tel_log_size_set: access, and nothing is logged if the file has gone ...
Access(w) ==
  /\ sink[w] \in present
  /\ Step(w, "opened", "checked")
  /\ UNCHANGED <<cur_size, files, sink, pos, stamp, text, loaded, status, overlapped>>

GiveUp(w) ==
  /\ pc[w] = "opened" /\ sink[w] \notin present
  /\ Return(w)
  /\ UNCHANGED <<cur_size, file_size, present, removed, status, overlapped>>

\* ... stat, whose failure closes the file, which tel_write_log closes again ...
StatFails(w) ==
  /\ pc[w] = "checked" /\ sink[w] \notin present
  /\ status' = "crashed"
  /\ UNCHANGED <<cur_size, files, pc, sink, pos, stamp, text, loaded, overlapped>>

\* ... fseek to the place ...
Seek(w) ==
  /\ sink[w] \in present
  /\ Step(w, "checked", "seeked")
  /\ pos' = [pos EXCEPT ![w] = Cur(w)]
  /\ UNCHANGED <<cur_size, files, sink, stamp, text, loaded, status, overlapped>>

\* ... compare the place, read again, with the registered size ...
Compare(w) ==
  /\ Step(w, "seeked", IF MaxLogSize <= Cur(w) THEN "wrap" ELSE "sized")
  /\ UNCHANGED <<cur_size, files, sink, pos, stamp, text, loaded, status, overlapped>>

\* A mutant: without rewind.
WrapWithoutRewind(w) ==
  /\ Step(w, "wrap", "sized")
  /\ SetCur(w, 0)
  /\ UNCHANGED <<files, sink, pos, stamp, text, loaded, status, overlapped>>

\* ... and if it is as far, rewind and start again from 0.
Wrap(w) ==
  /\ Step(w, "wrap", "sized")
  /\ pos' = [pos EXCEPT ![w] = 0]
  /\ SetCur(w, 0)
  /\ removed' = IF orphan[w] THEN removed ELSE removed \ {sink[w]}
  /\ UNCHANGED <<file_size, present, orphan, sink, stamp, text, loaded, status,
                 overlapped>>

\* localtime fails: tel_write_log returns, with the file open and empty-handed.
NoTime(w) ==
  /\ pc[w] = "sized"
  /\ Return(w)
  /\ UNCHANGED <<cur_size, file_size, present, removed, status, overlapped>>

\* cur += strlen(time_buf): the load and the store.
LoadForStamp(w) ==
  /\ Step(w, "sized", "stamping")
  /\ loaded' = [loaded EXCEPT ![w] = Cur(w)]
  /\ UNCHANGED <<cur_size, files, sink, pos, stamp, text, status, overlapped>>

AddStamp(w) ==
  /\ Step(w, "stamping", "stamped")
  /\ SetCur(w, loaded[w] + stamp[w])
  /\ UNCHANGED <<files, sink, pos, stamp, text, loaded, status, overlapped>>

\* cur += buf_len
LoadForText(w) ==
  /\ Step(w, "stamped", "texting")
  /\ loaded' = [loaded EXCEPT ![w] = Cur(w)]
  /\ UNCHANGED <<cur_size, files, sink, pos, stamp, text, status, overlapped>>

\* A mutant: the stamp is added again.
AddTextAndStamp(w) ==
  /\ Step(w, "texting", "written")
  /\ SetCur(w, loaded[w] + stamp[w] + text[w])
  /\ UNCHANGED <<files, sink, pos, stamp, text, loaded, status, overlapped>>

AddText(w) ==
  /\ Step(w, "texting", "written")
  /\ SetCur(w, loaded[w] + text[w])
  /\ UNCHANGED <<files, sink, pos, stamp, text, loaded, status, overlapped>>

\* fclose: both fwrites have only filled the FILE's buffer, which goes out now.
Close(w) ==
  /\ pc[w] = "written"
  /\ LET end == pos[w] + stamp[w] + text[w]
     IN  file_size' = [file_size EXCEPT ![sink[w]] =
                         IF orphan[w] \/ end <= @ THEN @ ELSE end]
  /\ Return(w)
  /\ UNCHANGED <<cur_size, present, removed, status, overlapped>>

\* Somebody removes the file, from under those who have it open.
Remove(k) ==
  /\ k \in present
  /\ present' = present \ {k}
  /\ removed' = removed \cup {k}
  /\ file_size' = [file_size EXCEPT ![k] = 0]
  /\ orphan' = [w \in Writer |-> orphan[w] \/ (pc[w] # "idle" /\ sink[w] = k)]
  /\ UNCHANGED <<cur_size, pc, sink, pos, stamp, text, loaded, status, overlapped>>

\* The process ends, with what was in the buffers, and is started again: the
\* files are still there, and the module is registered anew.
Restart ==
  /\ cur_size' = [k \in Sink |-> 0]
  /\ pc' = [w \in Writer |-> "idle"]
  /\ pos' = [w \in Writer |-> 0]
  /\ stamp' = [w \in Writer |-> 0]
  /\ text' = [w \in Writer |-> 0]
  /\ loaded' = [w \in Writer |-> 0]
  /\ orphan' = [w \in Writer |-> FALSE]
  /\ removed' = {}
  /\ status' = "running"
  /\ UNCHANGED <<file_size, present, sink, overlapped>>

-----------------------------------------------------------------------------
Write(w) ==
  \/ Open(w) \/ Access(w) \/ GiveUp(w) \/ StatFails(w) \/ Seek(w)
  \/ Compare(w) \/ Wrap(w) \/ NoTime(w)
  \/ LoadForStamp(w) \/ AddStamp(w) \/ LoadForText(w) \/ AddText(w)
  \/ Close(w)

Next ==
  \/ /\ status = "running"
     /\ (\E w \in Writer : Write(w)) \/ (\E k \in Sink : Remove(k))
  \/ Restart

Spec == Init /\ [][Next]_lvars

-----------------------------------------------------------------------------
(* Properties *)

\* README.md:38: the log limits the size of its files.  An entry that begins
\* below the limit may end above it: that much is granted, for every writer.
SizeLimited(slack) ==
  \A k \in Sink : file_size[k] <= MaxLogSize + slack * LongestEntry

\* As long as the writers take turns, no file outgrows its limit by more than
\* the end of one entry, across any number of wraps, restarts and removals.
LimitedInTurn == ~overlapped => SizeLimited(1)

\* As long as the writers take turns, between entries the place the log has
\* got to is inside its file, so that no entry leaves a hole before it.  The
\* place outlives a file that is removed, but only until it next starts again.
NoHoleInTurn ==
  ~overlapped =>
    \A k \in Sink \ removed : (\A w \in Writer : pc[w] = "idle") =>
      cur_size[k] <= file_size[k]

\* The limit for writers that do not take turns, one entry above it granted to
\* each of two.  (Does not hold: the place is sought, then read again to be
\* compared, and in between another writer may set it to 0.)
LimitedAlways == SizeLimited(2)

=============================================================================
