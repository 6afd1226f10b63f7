----------------------------- MODULE ReliableIO -----------------------------
(***************************************************************************)
(* write_reliable and write_certain_bytes of telnet_server.c, for one       *)
(* connection.  Their results are unsigned: no failed write is ever seen,   *)
(* and its -1 is added to what has been written.                            *)
(***************************************************************************)
EXTENDS SequencesExt, Integers

CONSTANTS
  Word,          \* values of an unsigned int
  MaxInterrupts  \* bound of the exploration: interruptions of one call

ASSUME WriteAssumption == Word \in Nat /\ Word > 1 /\ MaxInterrupts \in Nat

VARIABLES
  count,      \* how many bytes the call is to write
  finished,   \* write_certain_bytes
  left,       \* write_certain_bytes
  sent,       \* history: the bytes the connection has taken, by their number
  interrupts  \* history: the writes of this call that were interrupted

wvars == <<count, finished, left, sent, interrupts>>

WriteInit(n) ==
  /\ count = n /\ left = n
  /\ finished = 0 /\ sent = <<>> /\ interrupts = 0

StartWrite(n) ==
  /\ count' = n
  /\ left' = n
  /\ finished' = 0
  /\ sent' = <<>>
  /\ interrupts' = 0

\* buf + finished is an address in the buffer.
InBuffer == finished + left <= count

\* A mutant: what has been written is forgotten.
CountsNothing(ret) == finished' = finished /\ left' = (left + Word - ret) % Word

\* finished += ret; left -= ret
Counts(ret) ==
  /\ finished' = (finished + ret) % Word
  /\ left' = (left + Word - ret) % Word

\* The connection takes some of the bytes.
WriteTakes ==
  /\ left > 0 /\ InBuffer
  /\ \E ret \in 1 .. left :
       /\ Counts(ret)
       /\ sent' = sent \o [i \in 1 .. ret |-> finished + i]
  /\ UNCHANGED <<count, interrupts>>

\* A signal interrupts the write before it has taken a byte.
WriteInterrupted ==
  /\ left > 0 /\ InBuffer
  /\ interrupts < MaxInterrupts
  /\ interrupts' = interrupts + 1
  /\ Counts(Word - 1)
  /\ UNCHANGED <<count, sent>>

\* A mutant: a refused write is tried again.
WriteRefusedAgain == left > 0 /\ UNCHANGED wvars

\* The descriptor is -1, as it is after a failed accept.
WriteRefused ==
  /\ left > 0
  /\ Counts(Word - 1)
  /\ UNCHANGED <<count, sent, interrupts>>

WriteDone == left = 0

\* The first write was interrupted, and the next begins 4294967295 bytes
\* behind the start of the buffer.
WriteWild == left > 0 /\ ~InBuffer

=============================================================================
