---------------------------- MODULE CommandProofs ----------------------------
(***************************************************************************)
(* What holds of Command for integers of any width, writes of any length   *)
(* interrupted any number of times, processes of any libraries and lines   *)
(* of any text.                                                            *)
(***************************************************************************)
EXTENDS Command, DataLemmas

-----------------------------------------------------------------------------
(* The writes *)

WriteType ==
  /\ count \in 1 .. Word - 2
  /\ finished \in 0 .. Word - 1 /\ left \in 0 .. Word - 1
  /\ interrupts \in Nat
  /\ sent \in Seq(Nat)

\* The first k bytes have been sent, none of them before the one in front of
\* it, and the next to send is one of them or follows them.
Sent(k) ==
  /\ \A i \in 1 .. Len(sent) : sent[i] \in 1 .. k
  /\ \A b \in 1 .. k : \E i \in 1 .. Len(sent) : sent[i] = b
  /\ \A i \in 1 .. Len(sent) - 1 : sent[i + 1] <= sent[i] + 1
  /\ sent # <<>> => finished <= sent[Len(sent)]

\* The address is in the buffer: an interruption has cost one byte so far.
OnTrack ==
  /\ finished <= count /\ left = count - finished
  /\ Len(sent) = finished + interrupts
  /\ \E k \in finished .. count : Sent(k)

\* An interruption has made the address wrap.
Wild == finished = Word - 1 /\ left = count + 1

Connected == OnTrack \/ Wild

WriteInv ==
  /\ WriteType
  /\ fd_conn = "up" => Connected
  /\ fd_conn = "bad" => sent = <<>>

LEMMA ModSmall ==
  ASSUME NEW a \in Nat, a < Word
  PROVE  a % Word = a
BY WriteAssumption

LEMMA ModBig ==
  ASSUME NEW a \in Nat, a >= Word, a < Word + Word
  PROVE  a % Word = a - Word
BY WriteAssumption

LEMMA Lengths == Word \in Nat /\ IacBytes \in 1 .. Word - 2 /\ PromptBytes \in 1 .. Word - 2
BY WriteAssumption, CommandAssumption DEF IacBytes

\* A write begins with nothing sent.
LEMMA WriteStarts ==
  ASSUME NEW n \in 1 .. Word - 2
  PROVE  /\ WriteInit(n) => WriteInv
         /\ StartWrite(n) /\ UNCHANGED fd_conn => WriteInv'
<1>1. n \in Nat /\ n > 0 /\ n <= Word - 1 /\ Word \in Nat
  BY Lengths
<1>2. WriteInit(n) => WriteType /\ OnTrack /\ sent = <<>>
  <2> SUFFICES ASSUME WriteInit(n) PROVE WriteType /\ OnTrack /\ sent = <<>>
    OBVIOUS
  <2>1. Sent(0)
    BY DEF WriteInit, Sent
  <2> QED BY <1>1, <2>1 DEF WriteInit, WriteType, OnTrack
<1>3. StartWrite(n) => WriteType' /\ OnTrack' /\ sent' = <<>>
  <2> SUFFICES ASSUME StartWrite(n) PROVE WriteType' /\ OnTrack' /\ sent' = <<>>
    OBVIOUS
  <2>1. Sent(0)'
    BY DEF StartWrite, Sent
  <2> QED BY <1>1, <2>1 DEF StartWrite, WriteType, OnTrack
<1> QED BY <1>2, <1>3 DEF WriteInv, Connected

LEMMA TakeKeeps ==
  ASSUME WriteType, OnTrack, WriteTakes
  PROVE  WriteType' /\ OnTrack'
<1>1. PICK ret \in 1 .. left :
         /\ Counts(ret)
         /\ sent' = sent \o [i \in 1 .. ret |-> finished + i]
  BY DEF WriteTakes
<1>2. count' = count /\ interrupts' = interrupts
  BY DEF WriteTakes
<1>3. /\ Word \in Nat /\ count \in 1 .. Word - 2 /\ finished \in 0 .. count
      /\ left = count - finished /\ ret \in Nat \ {0} /\ ret <= left /\ left \in Nat
      /\ interrupts \in Nat /\ sent \in Seq(Nat) /\ Len(sent) \in Nat
      /\ Len(sent) = finished + interrupts
  BY <1>1, Lengths, LenProperties DEF WriteType, OnTrack
<1>4. finished' = finished + ret /\ left' = left - ret
  <2>1. finished + ret \in Nat /\ finished + ret < Word
    BY <1>3
  <2>2. left + Word - ret \in Nat /\ left + Word - ret >= Word
        /\ left + Word - ret < Word + Word
    BY <1>3
  <2>3. finished' = finished + ret
    BY <1>1, <2>1, ModSmall DEF Counts
  <2>4. left' = (left + Word - ret) - Word
    BY <1>1, <2>2, ModBig DEF Counts
  <2> QED BY <1>3, <2>3, <2>4
<1> DEFINE t == [i \in 1 .. ret |-> finished + i]
           m == Len(sent)
<1>5. t \in Seq(Nat) /\ Len(t) = ret /\ \A i \in 1 .. ret : t[i] = finished + i
  BY <1>3
<1> HIDE DEF t
<1>6. /\ sent' \in Seq(Nat) /\ Len(sent') = m + ret
      /\ \A i \in 1 .. m : sent'[i] = sent[i]
      /\ \A i \in 1 .. ret : sent'[m + i] = finished + i
  <2>1. /\ sent \o t \in Seq(Nat) /\ Len(sent \o t) = Len(sent) + Len(t)
        /\ \A i \in 1 .. Len(sent) + Len(t) :
             (sent \o t)[i] = IF i <= Len(sent) THEN sent[i] ELSE t[i - Len(sent)]
    BY <1>3, <1>5, ConcatProperties
  <2>2. sent' = sent \o t
    BY <1>1 DEF t
  <2>3. ASSUME NEW i \in 1 .. ret PROVE sent'[m + i] = finished + i
    <3>1. m + i \in 1 .. m + ret /\ ~(m + i <= m) /\ (m + i) - m = i
      BY <1>3
    <3> QED BY <1>5, <2>1, <2>2, <3>1
  <2>4. sent' \in Seq(Nat) /\ Len(sent') = m + ret
    BY <1>5, <2>1, <2>2
  <2>5. ASSUME NEW i \in 1 .. m PROVE sent'[i] = sent[i]
    <3>1. i \in 1 .. m + ret /\ i <= m
      BY <1>3
    <3> QED BY <1>5, <2>1, <2>2, <3>1
  <2> QED BY <2>3, <2>4, <2>5
<1>7. PICK k \in finished .. count : Sent(k)
  BY DEF OnTrack
<1>8. PICK n \in finished + ret .. count :
        /\ 1 .. k \subseteq 1 .. n
        /\ \A i \in 1 .. ret : finished + i \in 1 .. n
        /\ \A b \in 1 .. n : b \in 1 .. k \/ b - finished \in 1 .. ret
  <2>1. /\ k \in Nat /\ finished + ret \in Nat /\ finished + ret <= count
        /\ finished <= k /\ k <= count
    BY <1>3, <1>7
  <2>2. CASE finished + ret > k
    <3> DEFINE n == finished + ret
    <3>1. n \in finished + ret .. count /\ k < n
      BY <1>3, <2>1, <2>2
    <3>2. /\ 1 .. k \subseteq 1 .. n
          /\ \A i \in 1 .. ret : finished + i \in 1 .. n
          /\ \A b \in 1 .. n : b \in 1 .. k \/ b - finished \in 1 .. ret
      BY <1>3, <2>1, <2>2
    <3> HIDE DEF n
    <3> QED BY <3>1, <3>2
  <2>3. CASE ~(finished + ret > k)
    <3>1. k \in finished + ret .. count /\ \A i \in 1 .. ret : finished + i \in 1 .. k
      BY <1>3, <2>1, <2>3
    <3> QED BY <3>1
  <2> QED BY <2>2, <2>3
<1>9. \A i \in 1 .. m + ret : i \in 1 .. m \/ (i - m \in 1 .. ret /\ i = m + (i - m))
  BY <1>3
<1>10. Sent(n)'
  <2>1. ASSUME NEW i \in 1 .. m + ret PROVE sent'[i] \in 1 .. n
    <3>1. CASE i \in 1 .. m
      <4>1. sent'[i] = sent[i] /\ sent[i] \in 1 .. k
        BY <1>6, <1>7, <3>1 DEF Sent
      <4> QED BY <1>8, <4>1
    <3>2. CASE i - m \in 1 .. ret /\ i = m + (i - m)
      <4>1. sent'[i] = finished + (i - m)
        BY <1>6, <3>2
      <4> QED BY <1>8, <3>2, <4>1
    <3> QED BY <1>9, <3>1, <3>2
  <2>2. ASSUME NEW b \in 1 .. n PROVE \E i \in 1 .. m + ret : sent'[i] = b
    <3>1. CASE b \in 1 .. k
      <4>1. PICK i \in 1 .. m : sent[i] = b
        BY <1>7, <3>1 DEF Sent
      <4> QED BY <1>3, <1>6, <4>1
    <3>2. CASE b \notin 1 .. k
      <4>1. b - finished \in 1 .. ret /\ finished + (b - finished) = b
        BY <1>3, <1>8, <3>2
      <4>2. m + (b - finished) \in 1 .. m + ret
        BY <1>3, <4>1
      <4> QED BY <1>6, <4>1, <4>2
    <3> QED BY <3>1, <3>2
  <2>3. ASSUME NEW i \in 1 .. m + ret - 1 PROVE sent'[i + 1] <= sent'[i] + 1
    <3>1. CASE i \in 1 .. m - 1
      BY <1>3, <1>6, <1>7, <3>1 DEF Sent
    <3>2. CASE i = m
      <4>1. m \in 1 .. m /\ 1 \in 1 .. ret
        BY <1>3, <3>2
      <4>2. sent'[m] = sent[m] /\ sent'[m + 1] = finished + 1
        BY <1>6, <4>1
      <4>3. finished <= sent[m] /\ sent[m] \in Nat
        BY <1>3, <1>7, <4>1, ElementOfSeq, EmptySeq DEF Sent
      <4> QED BY <1>3, <3>2, <4>2, <4>3
    <3>3. CASE i - m \in 1 .. ret - 1
      <4>1. i - m \in 1 .. ret /\ (i - m) + 1 \in 1 .. ret
            /\ i = m + (i - m) /\ i + 1 = m + ((i - m) + 1)
        BY <1>3, <3>3
      <4>2. sent'[i] = finished + (i - m) /\ sent'[i + 1] = finished + ((i - m) + 1)
        BY <1>6, <4>1
      <4> QED BY <1>3, <3>3, <4>2
    <3> QED BY <1>3, <3>1, <3>2, <3>3
  <2>4. finished' <= sent'[Len(sent')]
    <3>1. ret \in 1 .. ret
      BY <1>3
    <3>2. sent'[m + ret] = finished + ret
      BY <1>6, <3>1
    <3> QED BY <1>3, <1>4, <1>6, <3>2
  <2>5. Len(sent') = m + ret /\ m \in Nat /\ ret \in Nat
    BY <1>3, <1>6
  <2> HIDE DEF m
  <2>6. \A i \in 1 .. Len(sent') : sent'[i] \in 1 .. n
    BY <2>1, <2>5
  <2>7. \A b \in 1 .. n : \E i \in 1 .. Len(sent') : sent'[i] = b
    BY <2>2, <2>5
  <2>8. \A i \in 1 .. Len(sent') - 1 : sent'[i + 1] <= sent'[i] + 1
    <3>1. Len(sent') - 1 = m + ret - 1
      BY <2>5
    <3> QED BY ONLY <2>3, <3>1
  <2> QED BY <2>4, <2>6, <2>7, <2>8 DEF Sent
<1>11. OnTrack'
  <2>1. Len(sent') = finished' + interrupts' /\ finished' <= count'
        /\ left' = count' - finished' /\ n \in finished' .. count'
    <3>1. Len(sent') = m + ret /\ m + ret = (finished + ret) + interrupts
          /\ finished + ret <= count /\ left - ret = count - (finished + ret)
      BY <1>3, <1>6
    <3> QED BY <1>2, <1>4, <3>1
  <2> QED BY <1>10, <2>1 DEF OnTrack
<1> QED BY <1>2, <1>3, <1>4, <1>6, <1>11 DEF WriteType

LEMMA InterruptKeeps ==
  ASSUME WriteType, OnTrack, WriteInterrupted
  PROVE  WriteType' /\ Connected'
<1>1. /\ count' = count /\ sent' = sent /\ interrupts' = interrupts + 1
      /\ Counts(Word - 1)
  BY DEF WriteInterrupted
<1>2. /\ Word \in Nat /\ count \in 1 .. Word - 2 /\ finished \in 0 .. count
      /\ left = count - finished /\ left \in Nat
      /\ interrupts \in Nat /\ sent \in Seq(Nat) /\ Len(sent) \in Nat
      /\ Len(sent) = finished + interrupts
  BY Lengths, LenProperties DEF WriteType, OnTrack
<1>3. left' = left + 1
  <2>1. left + Word - (Word - 1) = left + 1 /\ left + 1 \in Nat /\ left + 1 < Word
    BY <1>2
  <2> QED BY <1>1, <2>1, ModSmall DEF Counts
<1>4. CASE finished = 0
  <2>1. finished' = Word - 1
    <3>1. finished + (Word - 1) = Word - 1 /\ Word - 1 \in Nat /\ Word - 1 < Word
      BY <1>2, <1>4
    <3> QED BY <1>1, <3>1, ModSmall DEF Counts
  <2> QED BY <1>1, <1>2, <1>3, <1>4, <2>1 DEF WriteType, Connected, Wild
<1>5. CASE finished > 0
  <2>1. finished' = finished - 1
    <3>1. finished + (Word - 1) \in Nat /\ finished + (Word - 1) >= Word
          /\ finished + (Word - 1) < Word + Word
          /\ finished + (Word - 1) - Word = finished - 1
      BY <1>2, <1>5
    <3>2. finished' = (finished + (Word - 1)) - Word
      BY <1>1, <3>1, ModBig DEF Counts
    <3> QED BY <1>2, <3>2
  <2>2. PICK k \in finished .. count : Sent(k)
    BY DEF OnTrack
  <2>3. Sent(k)'
    <3>1. sent # <<>> => finished' <= sent[Len(sent)]
      <4> SUFFICES ASSUME sent # <<>> PROVE finished' <= sent[Len(sent)]
        OBVIOUS
      <4>1. finished <= sent[Len(sent)] /\ sent[Len(sent)] \in Nat
        BY <1>2, <2>2, ElementOfSeq, EmptySeq DEF Sent
      <4> QED BY <1>2, <2>1, <4>1
    <3> QED BY <1>1, <2>2, <3>1 DEF Sent
  <2>4. k \in finished' .. count' /\ Len(sent') = finished' + interrupts'
        /\ finished' <= count' /\ left' = count' - finished'
    BY <1>1, <1>2, <1>3, <2>1, <2>2
  <2>5. OnTrack'
    BY <2>3, <2>4 DEF OnTrack
  <2> QED BY <1>1, <1>2, <1>3, <1>5, <2>1, <2>5 DEF WriteType, Connected
<1> QED BY <1>2, <1>4, <1>5

LEMMA RefuseKeeps ==
  ASSUME WriteType, WriteRefused
  PROVE  WriteType' /\ sent' = sent
BY Lengths DEF WriteType, WriteRefused, Counts

LEMMA WriteKeeps ==
  ASSUME WriteInv, Take \/ Interrupt \/ Refuse, UNCHANGED fd_conn
  PROVE  WriteInv'
<1>1. CASE Refuse
  BY <1>1, RefuseKeeps DEF WriteInv, Refuse
<1>2. CASE Take \/ Interrupt
  <2>1. fd_conn = "up" /\ InBuffer
    BY <1>2 DEF Take, Interrupt, WriteTakes, WriteInterrupted
  <2>2. OnTrack
    BY <2>1, Lengths DEF WriteInv, WriteType, Connected, Wild, InBuffer
  <2> QED BY <1>2, <2>1, <2>2, TakeKeeps, InterruptKeeps
          DEF WriteInv, Take, Interrupt, Connected
<1> QED BY <1>1, <1>2

Connection == fd_conn \in {"up", "bad"} /\ WriteInv

LEMMA InitConnection == Init => Connection
BY WriteStarts, Lengths DEF Init, Connection

LEMMA NextConnection == Connection /\ [Next]_vars => Connection'
<1> SUFFICES ASSUME Connection, [Next]_vars PROVE Connection'
  OBVIOUS
<1>1. fd_conn' = fd_conn
  BY DEF Next, Thread, Write, Negotiated, Prompted, LosesItself, Walk, Unknown, Found,
         Parse, Call, GiveUp, Finish, Enter, Process, vars
<1>2. CASE UNCHANGED wvars
  BY <1>1, <1>2 DEF Connection, wvars, WriteInv, WriteType, Connected, OnTrack, Wild, Sent
<1>3. CASE Write
  BY <1>1, <1>3, WriteKeeps DEF Write, Connection
<1>4. CASE StartWrite(IacBytes) \/ StartWrite(PromptBytes)
  BY <1>1, <1>4, WriteStarts, Lengths DEF Connection
<1> QED BY <1>2, <1>3, <1>4
        DEF Next, Thread, Negotiated, Prompted, LosesItself, Walk, Unknown, Found, Parse,
            Call, GiveUp, Finish, Enter, Process, vars

LEMMA ConnectionInvariance == Spec => []Connection
BY InitConnection, NextConnection, PTL DEF Spec

\* Whatever the width of the integers and the length of the write: when
\* write_certain_bytes returns, no byte has been left out, though its results
\* are unsigned and an interruption is counted as a byte taken back.
THEOREM WritesAreWhole == Spec => []NothingLost
<1>1. Connection => NothingLost
  <2> SUFFICES ASSUME Connection, left = 0, fd_conn = "up"
               PROVE  /\ Len(sent) = count + interrupts
                      /\ Range(sent) = 1 .. count
                      /\ \A i \in 1 .. Len(sent) - 1 : sent[i + 1] <= sent[i] + 1
    BY DEF Connection, WriteInv, NothingLost, WriteDone
  <2>1. /\ WriteType /\ count \in Nat /\ sent \in Seq(Nat) /\ DOMAIN sent = 1 .. Len(sent)
    BY Lengths, LenProperties DEF Connection, WriteInv, WriteType
  <2>2. OnTrack
    BY <2>1 DEF Connection, WriteInv, Connected, Wild
  <2>3. finished = count
    BY <2>1, <2>2 DEF OnTrack, WriteType
  <2>4. Sent(count)
    <3>1. PICK k \in finished .. count : Sent(k)
      BY <2>2 DEF OnTrack
    <3>2. k = count
      BY <2>1, <2>3, <3>1
    <3> QED BY <3>1, <3>2
  <2>5. Range(sent) = 1 .. count
    BY <2>1, <2>4 DEF Sent, Range
  <2> QED BY <2>2, <2>3, <2>4, <2>5 DEF OnTrack, Sent
<1> QED BY <1>1, ConnectionInvariance, PTL

-----------------------------------------------------------------------------
(* The lines of the map *)

AllLines == Range(Elsewhere) \cup UNION {Range(Layout[p]) : p \in Path}

LEMMA LinesFacts ==
  ASSUME mapped \subseteq Path
  PROVE  /\ IsFiniteSet(Lines) /\ Lines \subseteq Line /\ Lines \subseteq AllLines
         /\ \A l, m \in Lines : l.start = m.start => l = m
         /\ \A l \in Lines : l.path \notin Other =>
              l.path \in mapped /\ l \in Range(Layout[l.path])
<1>1. Range(Elsewhere) \subseteq Line /\ IsFiniteSet(Range(Elsewhere))
  BY MapAssumption, RangeIsFinite
<1>2. \A p \in Path : Range(Layout[p]) \subseteq Line /\ IsFiniteSet(Range(Layout[p]))
  BY MapAssumption, RangeIsFinite
<1>3. IsFiniteSet(mapped)
  BY MapAssumption, FS_Subset
<1> DEFINE parts == {Range(Layout[p]) : p \in mapped}
           part  == [p \in mapped |-> Range(Layout[p])]
<1>4. IsFiniteSet(parts)
  <2>1. part \in [mapped -> parts] /\ \A s \in parts : \E p \in mapped : part[p] = s
    OBVIOUS
  <2> HIDE DEF part, parts
  <2>2. part \in Surjection(mapped, parts)
    BY <2>1, Fun_IsSurj
  <2> QED BY <1>3, <2>2, FS_Surjection
<1>5. \A s \in parts : IsFiniteSet(s)
  BY <1>2
<1>6. IsFiniteSet(Lines)
  <2>1. Lines = Range(Elsewhere) \cup UNION parts
    BY DEF Lines
  <2> HIDE DEF parts
  <2>2. IsFiniteSet(UNION parts)
    BY <1>4, <1>5, FS_UNION
  <2> QED BY <1>1, <2>1, <2>2, FS_Union
<1>7. Lines \subseteq Line /\ Lines \subseteq AllLines
  BY <1>1, <1>2 DEF Lines, AllLines
<1>8. \A l, m \in AllLines : l.start = m.start => l = m
  BY MapAssumption DEF AllLines
<1>9. ASSUME NEW l \in Lines, l.path \notin Other
      PROVE  l.path \in mapped /\ l \in Range(Layout[l.path])
  <2>1. l \notin Range(Elsewhere)
    BY <1>9, MapAssumption
  <2>2. PICK p \in mapped : l \in Range(Layout[p])
    BY <2>1 DEF Lines
  <2>3. l.path = p
    BY <1>9, <2>2, MapAssumption
  <2> QED BY <2>2, <2>3
<1> QED BY <1>6, <1>7, <1>8, <1>9

\* The file is sorted and complete.
Sorted(m) ==
  /\ m \in Seq(Line)
  /\ \A i \in 1 .. Len(m) : m[i] \in Lines
  /\ \A l \in Lines : \E i \in 1 .. Len(m) : m[i] = l
  /\ \A i, j \in 1 .. Len(m) : i < j => m[i].start < m[j].start

LEMMA MapsSorted ==
  ASSUME mapped \subseteq Path
  PROVE  Sorted(Maps)
<1> DEFINE n == Cardinality(Lines)
           key == [l \in Lines |-> l.start]
           At(l) == Cardinality({m \in Lines : m.start <= l.start})
<1>1. IsFiniteSet(Lines) /\ Lines \subseteq Line
  BY LinesFacts
<1>2. key \in [Lines -> Nat] /\ \A a, b \in Lines : key[a] = key[b] => a = b
  BY <1>1, LinesFacts DEF Line
<1>3. \A l \in Lines : At(l) = Rank(Lines, key, l)
  <2> TAKE l \in Lines
  <2>1. {m \in Lines : m.start <= l.start} = {m \in Lines : key[m] <= key[l]}
    OBVIOUS
  <2> QED BY <2>1 DEF Rank
<1> HIDE DEF key
<1>4. /\ n \in Nat
      /\ \A a, b \in Lines : Rank(Lines, key, a) = Rank(Lines, key, b) => a = b
      /\ \A i \in 1 .. n : \E a \in Lines : Rank(Lines, key, a) = i
  BY <1>1, <1>2, RankOnto
<1>5. \A a, b \in Lines : Rank(Lines, key, a) \in 1 .. n /\
                          (key[a] < key[b] => Rank(Lines, key, a) < Rank(Lines, key, b))
  BY <1>1, <1>2, RankOrders
<1>6. Maps = [i \in 1 .. n |-> CHOOSE l \in Lines : At(l) = i]
  BY DEF Maps
<1> HIDE DEF n, At
<1>7. \A i \in 1 .. n : Maps[i] \in Lines /\ At(Maps[i]) = i
  BY <1>3, <1>4, <1>6
<1>8. Maps \in [1 .. n -> Line]
  BY <1>1, <1>6, <1>7
<1>9. Maps \in Seq(Line) /\ Len(Maps) = n
  BY <1>4, <1>8
<1>10. ASSUME NEW l \in Lines PROVE \E i \in 1 .. n : Maps[i] = l
  <2>1. At(l) \in 1 .. n
    BY <1>3, <1>5
  <2>2. Maps[At(l)] \in Lines /\ At(Maps[At(l)]) = At(l)
    BY <1>7, <2>1
  <2> QED BY <1>3, <1>4, <2>1, <2>2
<1>11. ASSUME NEW i \in 1 .. n, NEW j \in 1 .. n, i < j
       PROVE  Maps[i].start < Maps[j].start
  <2>1. Maps[i] \in Lines /\ Maps[j] \in Lines /\ Maps[i].start \in Nat /\ Maps[j].start \in Nat
        /\ Rank(Lines, key, Maps[i]) = i /\ Rank(Lines, key, Maps[j]) = j
    BY <1>1, <1>3, <1>7 DEF Line
  <2>2. key[Maps[i]] = Maps[i].start /\ key[Maps[j]] = Maps[j].start
    BY <2>1 DEF key
  <2>3. ~(Maps[j].start < Maps[i].start)
    BY <1>4, <1>5, <1>11, <2>1, <2>2
  <2>4. Maps[i].start # Maps[j].start
    BY <1>2, <1>11, <2>1, <2>2
  <2> QED BY <2>1, <2>3, <2>4
<1> QED BY <1>7, <1>9, <1>10, <1>11 DEF Sorted

-----------------------------------------------------------------------------
(* The list made of them *)

SoNode == [start : Nat, end : Nat, path : Path]

LEMMA AddLineType ==
  ASSUME NEW list \in Seq(SoNode), NEW line \in Line
  PROVE  AddLine(list, line) \in Seq(SoNode)
<1>1. line.path \in Other \/ line \in SoNode
  BY DEF Line, SoNode
<1>2. CASE list # <<>> /\ Last(list).path = line.path
  <2>1. Front(list) \in Seq(SoNode) /\ Last(list) \in SoNode
    BY <1>2, FrontProperties
  <2>2. Join(Last(list), line) \in SoNode
    BY <2>1 DEF Join, SoNode, Line
  <2> QED BY <1>1, <1>2, <2>1, <2>2 DEF AddLine
<1>3. CASE ~(list # <<>> /\ Last(list).path = line.path)
  BY <1>1, <1>3 DEF AddLine
<1> QED BY <1>2, <1>3

\* The loop of get_maps_so_list has a list after every line.
Loop(m, list) ==
  /\ list[0] = <<>>
  /\ \A k \in 0 .. Len(m) - 1 : list[k + 1] = AddLine(list[k], m[k + 1])

LEMMA LoopRuns ==
  ASSUME Maps \in Seq(Line)
  PROVE  \E list : Loop(Maps, list) /\ GetMapsSoList = list[Len(Maps)]
<1> DEFINE m == Maps
           n == Len(m)
           V == (0 .. n) \X Seq(SoNode)
           g == [v \in V |-> IF v[1] < n THEN <<v[1] + 1, AddLine(v[2], m[v[1] + 1])>>
                                         ELSE v]
           b == <<0, <<>>>>
<1>1. n \in Nat /\ \A i \in 1 .. n : m[i] \in Line
  BY LenProperties, ElementOfSeq
<1>2. g \in [V -> V]
  <2> SUFFICES ASSUME NEW v \in V, v[1] < n
               PROVE  <<v[1] + 1, AddLine(v[2], m[v[1] + 1])>> \in V
    OBVIOUS
  <2>1. v[1] + 1 \in 0 .. n /\ v[1] + 1 \in 1 .. n /\ v[2] \in Seq(SoNode)
    BY <1>1
  <2>2. AddLine(v[2], m[v[1] + 1]) \in Seq(SoNode)
    BY <1>1, <2>1, AddLineType
  <2> HIDE DEF m, n
  <2> QED BY <2>1, <2>2
<1>3. b \in V
  <2>1. <<>> \in Seq(SoNode) /\ 0 \in 0 .. n
    BY <1>1
  <2> HIDE DEF n
  <2> QED BY <2>1
<1>4. PICK f \in [Nat -> V] : Iterates(f, b, g)
  <2> HIDE DEF V, g, b
  <2> QED BY <1>2, <1>3, Iteration
<1>5. \A k \in Nat : f[k] \in V
  OBVIOUS
<1>6. \A k \in Nat : k <= n => f[k][1] = k
  <2> DEFINE S == {k \in Nat : k <= n => f[k][1] = k}
  <2>1. 0 \in S
    BY <1>4 DEF Iterates
  <2>2. ASSUME NEW k \in Nat, k \in S PROVE k + 1 \in S
    <3>1. ASSUME k + 1 <= n PROVE f[k + 1][1] = k + 1
      <4>1. f[k][1] = k /\ k < n
        <5> HIDE DEF n, V, g, b
        <5> QED BY <1>1, <2>2, <3>1
      <4>2. f[k + 1] = <<k + 1, AddLine(f[k][2], m[k + 1])>>
        BY <1>4, <1>5, <4>1 DEF Iterates
      <4> QED BY <4>2
    <3> HIDE DEF n
    <3> QED BY <3>1
  <2> HIDE DEF S
  <2>3. Nat \subseteq S
    BY <2>1, <2>2, NatSetInduction
  <2> QED BY <2>3 DEF S
<1>7. \A k \in 0 .. n - 1 : f[k + 1][2] = AddLine(f[k][2], m[k + 1])
  <2> TAKE k \in 0 .. n - 1
  <2>1. k \in Nat /\ k < n /\ f[k][1] = k
    <3> HIDE DEF n, V, g, b
    <3> QED BY <1>1, <1>6
  <2>2. f[k + 1] = <<k + 1, AddLine(f[k][2], m[k + 1])>>
    BY <1>4, <1>5, <2>1 DEF Iterates
  <2> QED BY <2>2
<1>8. f[0][2] = <<>>
  BY <1>4 DEF Iterates
<1> DEFINE Turns(h) == h = [i \in 0 .. n |-> IF i = 0 THEN <<>>
                                            ELSE AddLine(h[i - 1], m[i])]
           list == [i \in 0 .. n |-> f[i][2]]
           run == CHOOSE h : Turns(h)
<1> HIDE DEF V, g, b, m, n
<1>9. Turns(list)
  <2>1. ASSUME NEW i \in 0 .. n
        PROVE  list[i] = IF i = 0 THEN <<>> ELSE AddLine(list[i - 1], m[i])
    <3>1. CASE i = 0
      BY <1>8, <3>1
    <3>2. CASE i # 0
      <4>1. i - 1 \in 0 .. n - 1 /\ i - 1 \in 0 .. n /\ (i - 1) + 1 = i
        BY <1>1, <3>2
      <4>2. f[i][2] = AddLine(f[i - 1][2], m[i])
        BY <1>7, <4>1
      <4> QED BY <3>2, <4>1, <4>2
    <3> QED BY <3>1, <3>2
  <2>2. list = [i \in 0 .. n |-> IF i = 0 THEN <<>> ELSE AddLine(list[i - 1], m[i])]
    BY <2>1
  <2> QED BY <2>2
<1>10. Turns(run)
  <2> HIDE DEF Turns, list
  <2> QED BY <1>9
<1>11. GetMapsSoList = run[n]
  BY DEF GetMapsSoList, m, n
<1> HIDE DEF run
<1>12. Loop(m, run)
  <2>1. run[0] = <<>>
    BY <1>1, <1>10
  <2>2. ASSUME NEW k \in 0 .. n - 1 PROVE run[k + 1] = AddLine(run[k], m[k + 1])
    <3>1. k + 1 \in 0 .. n /\ k + 1 # 0 /\ (k + 1) - 1 = k
      BY <1>1
    <3> QED BY <1>10, <3>1
  <2> QED BY <2>1, <2>2 DEF Loop, n
<1> QED BY <1>11, <1>12 DEF m, n

\* A node of the list spans the lines of its file among the first k.
Spans(m, k, node_) ==
  /\ \E j \in 1 .. k : m[j].path = node_.path /\ m[j].start = node_.start
  /\ \E j \in 1 .. k : m[j].path = node_.path /\ m[j].end = node_.end
  /\ \A j \in 1 .. k :
       m[j].path = node_.path => node_.start <= m[j].start /\ m[j].end <= node_.end

IsListed(list, p) == \E i \in 1 .. Len(list) : list[i].path = p

\* After k lines there is one node for each of the files so far, and the last
\* node is that of the file seen last.
SeenLast(m, k, p) ==
  \E j \in 1 .. k : m[j].path = p /\ \A h \in j + 1 .. k : m[h].path \in Other

JoinedUpTo(m, k, list) ==
  /\ list \in Seq(SoNode)
  /\ \A i \in 1 .. Len(list) : Spans(m, k, list[i])
  /\ \A i, j \in 1 .. Len(list) : list[i].path = list[j].path => i = j
  /\ \A j \in 1 .. k : m[j].path \in Other \/ IsListed(list, m[j].path)
  /\ list # <<>> => SeenLast(m, k, list[Len(list)].path)

\* A line of no file, and a line of a file that is not the node's.
LEMMA SpansOthers ==
  ASSUME NEW m \in Seq(Line), NEW k \in Nat, k < Len(m), NEW node_ \in SoNode,
         Spans(m, k, node_), m[k + 1].path # node_.path
  PROVE  Spans(m, k + 1, node_)
<1>1. \A j \in 1 .. k + 1 : j \in 1 .. k \/ j = k + 1
  OBVIOUS
<1>2. \A j \in 1 .. k : j \in 1 .. k + 1
  OBVIOUS
<1> QED BY <1>1, <1>2 DEF Spans

\* A line of the node's file.
LEMMA SpansJoined ==
  ASSUME NEW m \in Seq(Line), NEW k \in Nat, k < Len(m), NEW node_ \in SoNode,
         Spans(m, k, node_), m[k + 1].path = node_.path
  PROVE  /\ Join(node_, m[k + 1]) \in SoNode
         /\ Join(node_, m[k + 1]).path = node_.path
         /\ Spans(m, k + 1, Join(node_, m[k + 1]))
<1> DEFINE line == m[k + 1]
           new  == Join(node_, line)
<1>1. \A j \in 1 .. k + 1 : m[j] \in Line /\ (j \in 1 .. k \/ j = k + 1)
  BY LenProperties, ElementOfSeq
<1>2. \A j \in 1 .. k : j \in 1 .. k + 1
  OBVIOUS
<1>3. line \in Line /\ k + 1 \in 1 .. k + 1
  BY <1>1
<1> HIDE DEF line
<1>4. /\ new \in SoNode /\ new.path = node_.path
      /\ new.start = IF line.start < node_.start THEN line.start ELSE node_.start
      /\ new.end = IF line.end > node_.end THEN line.end ELSE node_.end
  BY <1>3 DEF Join, SoNode, Line
<1> HIDE DEF new
<1>5. /\ node_.start \in Nat /\ node_.end \in Nat /\ line.start \in Nat /\ line.end \in Nat
      /\ \A j \in 1 .. k + 1 : m[j].start \in Nat /\ m[j].end \in Nat
  BY <1>1, <1>3 DEF SoNode, Line
<1>6. \E j \in 1 .. k + 1 : m[j].path = new.path /\ m[j].start = new.start
  BY <1>2, <1>3, <1>4 DEF Spans, line
<1>7. \E j \in 1 .. k + 1 : m[j].path = new.path /\ m[j].end = new.end
  BY <1>2, <1>3, <1>4 DEF Spans, line
<1>8. ASSUME NEW j \in 1 .. k + 1, m[j].path = new.path
      PROVE  new.start <= m[j].start /\ m[j].end <= new.end
  <2>1. CASE j = k + 1
    BY <1>4, <1>5, <2>1 DEF line
  <2>2. CASE j \in 1 .. k
    <3>1. node_.start <= m[j].start /\ m[j].end <= node_.end
      BY <1>4, <1>8, <2>2 DEF Spans
    <3> QED BY <1>4, <1>5, <3>1
  <2> QED BY <1>1, <2>1, <2>2
<1> QED BY <1>4, <1>6, <1>7, <1>8 DEF Spans, new, line

\* The first line of a file.
LEMMA SpansFirst ==
  ASSUME NEW m \in Seq(Line), NEW k \in Nat, k < Len(m),
         \A j \in 1 .. k : m[j].path # m[k + 1].path
  PROVE  Spans(m, k + 1, m[k + 1])
<1>1. \A j \in 1 .. k + 1 : j \in 1 .. k \/ j = k + 1
  OBVIOUS
<1>2. m[k + 1].start \in Nat /\ m[k + 1].end \in Nat /\ k + 1 \in 1 .. k + 1
  <2>1. m[k + 1] \in Line
    BY LenProperties, ElementOfSeq
  <2> QED BY <2>1 DEF Line
<1> QED BY <1>1, <1>2 DEF Spans

\* A file that is not the one seen last has been left for good: the loader
\* puts no file between two lines of another one.
LEMMA LeftForGood ==
  ASSUME mapped \subseteq Path, NEW m, Sorted(m), NEW k \in Nat, k < Len(m),
         NEW q \in Path, SeenLast(m, k, q),
         m[k + 1].path \notin Other, m[k + 1].path # q
  PROVE  \A j \in 1 .. k : m[j].path # m[k + 1].path
<1> SUFFICES ASSUME NEW j \in 1 .. k, m[j].path = m[k + 1].path PROVE FALSE
  OBVIOUS
<1>1. PICK h \in 1 .. k : m[h].path = q /\ \A i \in h + 1 .. k : m[i].path \in Other
  BY DEF SeenLast
<1>2. j < h
  <2>1. j # h /\ ~(j \in h + 1 .. k)
    BY <1>1
  <2> QED BY <2>1
<1>3. m \in Seq(Line) /\ Len(m) \in Nat /\ h \in 1 .. Len(m) /\ j \in 1 .. Len(m)
      /\ k + 1 \in 1 .. Len(m) /\ h < k + 1
  BY LenProperties DEF Sorted
<1> DEFINE p == m[k + 1].path
<1>4. m[j] \in Lines /\ m[h] \in Lines /\ m[k + 1] \in Lines
  BY <1>3 DEF Sorted
<1>5. m[j].start < m[h].start /\ m[h].start < m[k + 1].start
  BY <1>2, <1>3 DEF Sorted
<1>6. m[j].start \in Nat /\ m[h].start \in Nat /\ m[k + 1].start \in Nat
  BY <1>4, LinesFacts DEF Line
<1>7. q \notin Other
  BY MapAssumption
<1>8. p \in Path /\ m[j] \in Range(Layout[p]) /\ m[k + 1] \in Range(Layout[p])
  BY <1>4, LinesFacts
<1>9. m[h] \in Range(Layout[q])
  BY <1>1, <1>4, <1>7, LinesFacts
<1> HIDE DEF p
<1>10. p # q
  BY DEF p
<1>11. \/ \A l \in Range(Layout[p]), n \in Range(Layout[q]) : l.start < n.start
       \/ \A l \in Range(Layout[p]), n \in Range(Layout[q]) : l.start > n.start
  BY <1>8, <1>10, MapAssumption
<1>12. CASE \A l \in Range(Layout[p]), n \in Range(Layout[q]) : l.start < n.start
  <2>1. m[k + 1].start < m[h].start
    BY <1>8, <1>9, <1>12
  <2> QED BY <1>5, <1>6, <2>1
<1>13. CASE \A l \in Range(Layout[p]), n \in Range(Layout[q]) : l.start > n.start
  <2>1. m[j].start > m[h].start
    BY <1>8, <1>9, <1>13
  <2> QED BY <1>5, <1>6, <2>1
<1> QED BY <1>11, <1>12, <1>13

LEMMA JoinStep ==
  ASSUME mapped \subseteq Path, NEW m, Sorted(m), NEW k \in Nat, k < Len(m),
         NEW list, JoinedUpTo(m, k, list)
  PROVE  JoinedUpTo(m, k + 1, AddLine(list, m[k + 1]))
<1> DEFINE line == m[k + 1]
           new  == AddLine(list, line)
           n    == Len(list)
<1>1. m \in Seq(Line) /\ Len(m) \in Nat /\ k + 1 \in 1 .. Len(m) /\ line \in Lines
      /\ line \in Line
  <2>1. m \in Seq(Line) /\ Len(m) \in Nat /\ k + 1 \in 1 .. Len(m)
    BY LenProperties DEF Sorted
  <2> QED BY <2>1, ElementOfSeq DEF Sorted
<1>2. list \in Seq(SoNode) /\ n \in Nat /\ \A i \in 1 .. n : list[i] \in SoNode
  BY LenProperties, ElementOfSeq DEF JoinedUpTo
<1>3. new \in Seq(SoNode)
  BY <1>1, <1>2, AddLineType
<1>4. \A j \in 1 .. k + 1 : j \in 1 .. k \/ j = k + 1
  OBVIOUS
<1>5. line.path \in Path \/ line.path \in Other
  BY <1>1 DEF Line
<1>6. \A i \in 1 .. n : /\ list[i].path \in Path /\ list[i].path \notin Other
                        /\ Spans(m, k, list[i])
  BY <1>2, MapAssumption DEF JoinedUpTo, SoNode
<1>7. CASE line.path \in Other
  <2>1. new = list
    BY <1>7 DEF AddLine
  <2>2. \A i \in 1 .. n : Spans(m, k + 1, list[i])
    <3> TAKE i \in 1 .. n
    <3>1. line.path # list[i].path
      BY <1>6, <1>7
    <3> HIDE DEF n
    <3> QED BY <1>1, <1>2, <1>6, <3>1, SpansOthers
  <2>3. \A j \in 1 .. k + 1 : m[j].path \in Other \/ IsListed(list, m[j].path)
    BY <1>4, <1>7 DEF JoinedUpTo
  <2>4. ASSUME list # <<>> PROVE SeenLast(m, k + 1, list[n].path)
    <3>1. PICK j \in 1 .. k : /\ m[j].path = list[n].path
                              /\ \A h \in j + 1 .. k : m[h].path \in Other
      BY <2>4 DEF JoinedUpTo, SeenLast
    <3>2. \A h \in j + 1 .. k + 1 : h \in j + 1 .. k \/ h = k + 1
      OBVIOUS
    <3>3. \A h \in j + 1 .. k + 1 : m[h].path \in Other
      BY <1>7, <3>1, <3>2
    <3>4. j \in 1 .. k + 1
      OBVIOUS
    <3> HIDE DEF n
    <3> QED BY <3>1, <3>3, <3>4 DEF SeenLast
  <2>5. JoinedUpTo(m, k + 1, list)
    BY <1>2, <2>2, <2>3, <2>4 DEF JoinedUpTo
  <2> HIDE DEF new
  <2> QED BY <2>1, <2>5 DEF new, line
<1>8. ASSUME line.path \notin Other PROVE SeenLast(m, k + 1, line.path)
  <2>1. k + 1 \in 1 .. k + 1 /\ (k + 1) + 1 .. k + 1 = {}
    OBVIOUS
  <2> QED BY <2>1 DEF SeenLast
<1>9. CASE line.path \notin Other /\ list # <<>> /\ Last(list).path = line.path
  <2>1. /\ Front(list) \in Seq(SoNode) /\ Len(Front(list)) = n - 1 /\ n > 0
        /\ \A i \in 1 .. n - 1 : Front(list)[i] = list[i]
        /\ Last(list) = list[n]
    <3>1. n > 0
      BY <1>2, <1>9, EmptySeq
    <3> QED BY <1>2, <1>9, <3>1, FrontProperties
  <2> DEFINE joined == Join(list[n], line)
  <2>2. list[n] \in SoNode /\ Spans(m, k, list[n]) /\ line.path = list[n].path
    BY <1>2, <1>6, <1>9, <2>1
  <2>3. joined \in SoNode /\ joined.path = line.path /\ Spans(m, k + 1, joined)
    <3> HIDE DEF n
    <3> QED BY <1>1, <2>2, SpansJoined
  <2>4. new = Append(Front(list), joined)
    BY <1>9, <2>1 DEF AddLine
  <2> HIDE DEF joined, new
  <2>5. Len(new) = n /\ new[n] = joined /\ \A i \in 1 .. n - 1 : new[i] = list[i]
    BY <1>2, <2>1, <2>3, <2>4
  <2>6. \A i \in 1 .. n : i \in 1 .. n - 1 \/ i = n
    BY <1>2
  <2>7. \A i \in 1 .. n - 1 : i \in 1 .. n /\ i # n
    BY <1>2
  <2>8. \A i \in 1 .. n : new[i].path = list[i].path
    BY <2>2, <2>3, <2>5, <2>6
  <2>9. \A i, j \in 1 .. n : new[i].path = new[j].path => i = j
    BY <2>8 DEF JoinedUpTo
  <2>10. \A i \in 1 .. n : Spans(m, k + 1, new[i])
    <3>1. ASSUME NEW i \in 1 .. n - 1 PROVE Spans(m, k + 1, list[i])
      <4>1. i \in 1 .. n /\ n \in 1 .. n /\ i # n
        BY <2>1, <2>7
      <4>2. list[i].path # line.path
        BY <2>2, <4>1 DEF JoinedUpTo
      <4> HIDE DEF n
      <4> QED BY <1>1, <1>2, <1>6, <4>1, <4>2, SpansOthers
    <3> HIDE DEF n, line
    <3> QED BY <2>3, <2>5, <2>6, <3>1
  <2>11. \A p : IsListed(list, p) => IsListed(new, p)
    BY <2>5, <2>8 DEF IsListed
  <2>12. IsListed(new, line.path)
    BY <2>1, <2>3, <2>5 DEF IsListed
  <2>13. \A j \in 1 .. k + 1 : m[j].path \in Other \/ IsListed(new, m[j].path)
    BY <1>4, <2>11, <2>12 DEF JoinedUpTo
  <2>14. SeenLast(m, k + 1, new[Len(new)].path)
    BY <1>8, <1>9, <2>3, <2>5
  <2>15. JoinedUpTo(m, k + 1, new)
    <3> HIDE DEF n
    <3> QED BY <1>3, <2>5, <2>9, <2>10, <2>13, <2>14 DEF JoinedUpTo
  <2> QED BY <2>15 DEF new, line
<1>10. CASE line.path \notin Other /\ ~(list # <<>> /\ Last(list).path = line.path)
  <2>1. new = Append(list, line) /\ line \in SoNode
    BY <1>1, <1>5, <1>10 DEF AddLine, Line, SoNode
  <2>2. \A j \in 1 .. k : m[j].path # line.path
    <3>1. CASE list = <<>>
      <4>1. \A p : ~IsListed(list, p)
        BY <3>1 DEF IsListed
      <4> QED BY <1>10, <4>1 DEF JoinedUpTo
    <3>2. CASE list # <<>>
      <4>1. n > 0 /\ Last(list) = list[n]
        <5>1. n > 0
          BY <1>2, <3>2, EmptySeq
        <5> QED BY <5>1 DEF Last
      <4>2. list[n].path \in Path /\ SeenLast(m, k, list[n].path) /\ list[n].path # line.path
        BY <1>2, <1>6, <1>10, <3>2, <4>1 DEF JoinedUpTo
      <4> QED BY <1>10, <4>2, LeftForGood
    <3> QED BY <3>1, <3>2
  <2>3. Spans(m, k + 1, line)
    BY <1>1, <2>2, SpansFirst
  <2>4. \A i \in 1 .. n : list[i].path # line.path
    BY <1>6, <2>2 DEF Spans
  <2> HIDE DEF new
  <2>5. Len(new) = n + 1 /\ new[n + 1] = line /\ \A i \in 1 .. n : new[i] = list[i]
    BY <1>2, <2>1
  <2>6. \A i \in 1 .. n + 1 : i \in 1 .. n \/ i = n + 1
    BY <1>2
  <2>7. \A i, j \in 1 .. n + 1 : new[i].path = new[j].path => i = j
    <3>1. \A i, j \in 1 .. n : list[i].path = list[j].path => i = j
      BY DEF JoinedUpTo
    <3> HIDE DEF n, line
    <3> QED BY <2>4, <2>5, <2>6, <3>1
  <2>8. \A i \in 1 .. n + 1 : Spans(m, k + 1, new[i])
    <3>1. ASSUME NEW i \in 1 .. n PROVE Spans(m, k + 1, list[i])
      <4> HIDE DEF n
      <4> QED BY <1>1, <1>2, <1>6, <2>4, SpansOthers
    <3> HIDE DEF n, line
    <3> QED BY <2>3, <2>5, <2>6, <3>1
  <2>9. \A p : IsListed(list, p) => IsListed(new, p)
    <3>1. \A i \in 1 .. n : i \in 1 .. n + 1
      BY <1>2
    <3> QED BY <2>5, <3>1 DEF IsListed
  <2>10. IsListed(new, line.path)
    BY <1>2, <2>5 DEF IsListed
  <2>11. \A j \in 1 .. k + 1 : m[j].path \in Other \/ IsListed(new, m[j].path)
    BY <1>4, <2>9, <2>10 DEF JoinedUpTo
  <2>12. SeenLast(m, k + 1, new[Len(new)].path)
    BY <1>8, <1>10, <2>5
  <2>13. JoinedUpTo(m, k + 1, new)
    <3> HIDE DEF n
    <3> QED BY <1>3, <2>5, <2>7, <2>8, <2>11, <2>12 DEF JoinedUpTo
  <2> QED BY <2>13 DEF new, line
<1> QED BY <1>7, <1>9, <1>10

\* What get_maps_so_list returns: one node for every file that is mapped, from
\* where the loader has put it to the end of its last line.
ListRight ==
  /\ so_list \in Seq(SoNode)
  /\ \A i \in 1 .. Len(so_list) :
       /\ so_list[i].path \in AtStart
       /\ so_list[i].start = Base(so_list[i].path)
       /\ so_list[i].end = End(so_list[i].path)
  /\ \A p \in AtStart : IsListed(so_list, p)

LEMMA NodeRight ==
  ASSUME mapped \subseteq Path, NEW m, Sorted(m), NEW node_ \in SoNode,
         Spans(m, Len(m), node_)
  PROVE  /\ node_.path \in mapped
         /\ node_.start = Base(node_.path)
         /\ node_.end = End(node_.path)
<1> DEFINE n == Len(m)
           p == node_.path
           first == Layout[p][1]
           mine == {l \in Range(Layout[p]) : l.path = p}
<1>1. m \in Seq(Line) /\ n \in Nat /\ \A i \in 1 .. n : m[i] \in Lines
  BY LenProperties DEF Sorted
<1>2. p \in Path /\ p \notin Other /\ node_.start \in Nat /\ node_.end \in Nat
  BY MapAssumption DEF SoNode
<1>3. \A i \in 1 .. n : m[i].path = p => p \in mapped /\ m[i] \in mine
  BY <1>1, <1>2, LinesFacts
<1>4. p \in mapped
  BY <1>3 DEF Spans
<1>5. \A l \in mine : l \in Lines /\ l \in Line /\ l.path = p
  <2>1. \A l \in Range(Layout[p]) : l \in Lines
    BY <1>4 DEF Lines
  <2> QED BY <2>1, LinesFacts
<1>6. \A l \in mine : \E i \in 1 .. n : m[i] = l
  BY <1>5 DEF Sorted
<1>7. \A l \in mine : node_.start <= l.start /\ l.end <= node_.end
  <2> HIDE DEF mine
  <2> QED BY <1>5, <1>6 DEF Spans
<1>8. first \in mine /\ \A l \in mine : l.start >= first.start
  <2>1. Layout[p] \in Seq(Line) /\ Layout[p] # <<>> /\ first.path = p
        /\ \A l \in Range(Layout[p]) : l.start >= first.start
    BY <1>2, MapAssumption
  <2>2. 1 \in 1 .. Len(Layout[p]) /\ DOMAIN Layout[p] = 1 .. Len(Layout[p])
    BY <2>1, LenProperties, EmptySeq
  <2> QED BY <2>1, <2>2 DEF Range
<1>9. /\ \E l \in mine : l.start = node_.start
      /\ \E l \in mine : l.end = node_.end
  <2> HIDE DEF mine
  <2> QED BY <1>3 DEF Spans
<1>10. node_.start = first.start
  <2>1. first.start \in Nat
    BY <1>5, <1>8 DEF Line
  <2> HIDE DEF mine, first
  <2> QED BY <1>2, <1>7, <1>8, <1>9, <2>1
<1>11. node_.end = Max({l.end : l \in mine})
  <2> DEFINE ends == {l.end : l \in mine}
  <2>1. node_.end \in ends /\ \A e \in ends : e \in Nat /\ e <= node_.end
    BY <1>5, <1>7, <1>9 DEF Line
  <2> HIDE DEF ends
  <2>2. \A x \in ends : (\A y \in ends : x >= y) => x = node_.end
    BY <1>2, <2>1
  <2>3. \A y \in ends : node_.end >= y
    BY <1>2, <2>1
  <2>4. Max(ends) = CHOOSE x \in ends : \A y \in ends : x >= y
    BY DEF Max
  <2>5. Max(ends) = node_.end
    BY <2>1, <2>2, <2>3, <2>4
  <2> QED BY <2>5 DEF ends
<1> QED BY <1>4, <1>10, <1>11 DEF Base, End

LEMMA InitList == MapInit => ListRight
<1> SUFFICES ASSUME MapInit PROVE ListRight
  OBVIOUS
<1> DEFINE n == Len(Maps)
<1>1. mapped = AtStart /\ mapped \subseteq Path /\ so_list = GetMapsSoList
  BY MapAssumption DEF MapInit
<1>2. Sorted(Maps)
  BY <1>1, MapsSorted
<1>3. Maps \in Seq(Line) /\ n \in Nat
  BY <1>2, LenProperties DEF Sorted
<1>4. PICK list : Loop(Maps, list) /\ GetMapsSoList = list[n]
  BY <1>3, LoopRuns
<1>5. \A k \in Nat : k <= n => JoinedUpTo(Maps, k, list[k])
  <2> DEFINE S == {k \in Nat : k <= n => JoinedUpTo(Maps, k, list[k])}
  <2>1. 0 \in S
    <3>1. list[0] = <<>> /\ <<>> \in Seq(SoNode) /\ Len(<<>>) = 0
      BY <1>4 DEF Loop
    <3>2. JoinedUpTo(Maps, 0, <<>>)
      BY <3>1 DEF JoinedUpTo
    <3> QED BY <3>1, <3>2
  <2>2. ASSUME NEW k \in Nat, k \in S PROVE k + 1 \in S
    <3>1. ASSUME k + 1 <= n PROVE JoinedUpTo(Maps, k + 1, list[k + 1])
      <4>1. k < n /\ k \in 0 .. n - 1
        BY <1>3, <3>1
      <4>2. JoinedUpTo(Maps, k, list[k])
        BY <1>3, <2>2, <4>1
      <4>3. list[k + 1] = AddLine(list[k], Maps[k + 1])
        BY <1>4, <4>1 DEF Loop
      <4> QED BY <1>1, <1>2, <4>1, <4>2, <4>3, JoinStep
    <3> QED BY <3>1
  <2> HIDE DEF S
  <2>3. Nat \subseteq S
    BY <2>1, <2>2, NatSetInduction
  <2> QED BY <2>3 DEF S
<1>6. JoinedUpTo(Maps, n, so_list)
  BY <1>1, <1>3, <1>4, <1>5
<1>7. so_list \in Seq(SoNode) /\ \A i \in 1 .. Len(so_list) : so_list[i] \in SoNode
  BY <1>6, ElementOfSeq, LenProperties DEF JoinedUpTo
<1>8. ASSUME NEW i \in 1 .. Len(so_list)
      PROVE  /\ so_list[i].path \in AtStart
             /\ so_list[i].start = Base(so_list[i].path)
             /\ so_list[i].end = End(so_list[i].path)
  <2>1. Spans(Maps, Len(Maps), so_list[i]) /\ so_list[i] \in SoNode
    BY <1>6, <1>7 DEF JoinedUpTo
  <2> HIDE DEF n
  <2> QED BY <1>1, <1>2, <2>1, NodeRight
<1>9. ASSUME NEW p \in AtStart PROVE IsListed(so_list, p)
  <2>1. /\ Layout[p] \in Seq(Line) /\ Layout[p] # <<>> /\ Layout[p][1].path = p
        /\ p \in Path /\ p \notin Other
    BY MapAssumption
  <2>2. 1 \in DOMAIN Layout[p]
    BY <2>1, LenProperties, EmptySeq
  <2>3. Layout[p][1] \in Lines
    BY <1>1, <2>2 DEF Lines, Range
  <2>4. PICK i \in 1 .. n : Maps[i] = Layout[p][1]
    BY <1>2, <2>3 DEF Sorted
  <2> QED BY <1>6, <2>1, <2>4 DEF JoinedUpTo
<1> QED BY <1>7, <1>8, <1>9 DEF ListRight

-----------------------------------------------------------------------------
(* The answers *)

\* A file that has not been touched since the start is on the disk as it is in
\* the process, and is mapped if it was.
Untouched ==
  \A p \in Path \ altered :
    /\ disk[p] = image[p] /\ IsImage(image[p])
    /\ p \in mapped <=> p \in AtStart

\* What Find returns in a file where the name is plain.
RightIn(p) == \E v \in Defines(image[p], sym_name) : answer = AddressOf(p, v)

AnswerRight ==
  /\ node \in 1 .. Len(so_list) /\ answer # NotFound
  /\ Here.path \notin altered /\ PlainIn(image[Here.path], Here.path, sym_name)
  => RightIn(Here.path)

MapInv ==
  /\ ListRight
  /\ mapped \subseteq Path /\ altered \subseteq Path
  /\ DOMAIN disk = Path /\ DOMAIN image = Path
  /\ Untouched
  /\ node \in 0 .. Len(so_list) + 1
  /\ sym_name # Garbled
  /\ AnswerRight

LEMMA ListFacts ==
  ASSUME ListRight
  PROVE  /\ Len(so_list) \in Nat /\ DOMAIN so_list = 1 .. Len(so_list)
         /\ \A i \in 1 .. Len(so_list) : so_list[i] \in SoNode /\ so_list[i].path \in Path
BY LenProperties, ElementOfSeq, MapAssumption DEF ListRight

\* What get_sym_addr chooses from.
Hits(f, name) == {s \in LoadSymbols(f) : s.name = name}

\* The symbol get_sym_addr finds is a definition in the file, unless the file
\* imports the name: those of other tables are read as other names.
LEMMA SymbolIsDefinition ==
  ASSUME NEW f, IsImage(f), NEW name, name # Garbled, ~Imports(f, name),
         Hits(f, name) # {}
  PROVE  GetSymAddr(f, name) \in Defines(f, name) /\ GetSymAddr(f, name) \in Nat
<1> DEFINE hits == {s \in LoadSymbols(f) : s.name = name}
<1>1. ASSUME NEW s \in hits
      PROVE  s.at \in Nat /\ s.address \in Defines(f, name) /\ s.address \in Nat
  <2>1. PICK l \in LastLoad(f) : s \in Named(f.sections[l[1]], l[2])
    BY DEF LoadSymbols
  <2> DEFINE table == f.sections[l[1]]
  <2>2. /\ l[1] \in DOMAIN f.sections /\ f.elf /\ table.type = "table"
    BY DEF LastLoad, Loads
  <2>3. table \in Range(f.sections)
    BY <2>2 DEF Range
  <2>4. table.entries \in Seq([name : STRING, value : Nat])
    BY <2>2, <2>3 DEF IsImage
  <2> HIDE DEF table
  <2>5. PICK i \in 2 .. Len(table.entries) :
           s = [at      |-> i,
                name    |-> IF table.link = l[2] THEN table.entries[i].name ELSE Garbled,
                address |-> table.entries[i].value]
    BY <2>1 DEF Named, table
  <2>6. s.name = name
    OBVIOUS
  <2>7. i \in 1 .. Len(table.entries) /\ table.entries[i] \in [name : STRING, value : Nat]
        /\ table.entries[i] \in Range(table.entries)
    <3> DEFINE e == table.entries
    <3>1. e \in Seq([name : STRING, value : Nat])
      BY <2>4
    <3>2. i \in 2 .. Len(e)
      OBVIOUS
    <3> HIDE DEF e
    <3>3. Len(e) \in Nat /\ DOMAIN e = 1 .. Len(e)
      BY <3>1, LenProperties
    <3>4. i \in 1 .. Len(e)
      BY <3>2, <3>3
    <3>5. e[i] \in [name : STRING, value : Nat] /\ e[i] \in Range(e)
      BY <3>1, <3>3, <3>4, ElementOfSeq DEF Range
    <3> QED BY <3>4, <3>5 DEF e
  <2>8. table.entries[i].name = name /\ s.address = table.entries[i].value /\ s.at = i
    BY <2>5, <2>6
  <2>9. table.entries[i] \in Entries(table, name) /\ table \in Tables(f)
    BY <2>2, <2>3, <2>7, <2>8 DEF Entries, Tables, table
  <2>10. table.entries[i].value # 0
    BY <2>9 DEF Imports
  <2> QED BY <2>7, <2>8, <2>9, <2>10 DEF Defines
<1> DEFINE hit == CHOOSE s \in hits : \A t \in hits : s.at <= t.at
<1>2. hits # {} /\ GetSymAddr(f, name) = hit.address
  BY DEF GetSymAddr, Hits
<1> HIDE DEF hits
<1>3. hit \in hits
  <2> DEFINE places == {s.at : s \in hits}
  <2>1. places \in SUBSET Nat /\ places # {}
    BY <1>1, <1>2
  <2> HIDE DEF places
  <2>2. PICK m \in places : \A n \in places : m <= n
    BY <2>1, LeastOf
  <2>3. PICK s \in hits : m = s.at
    BY DEF places
  <2>4. \A t \in hits : s.at <= t.at
    BY <2>2, <2>3 DEF places
  <2> QED BY <2>4
<1> QED BY <1>1, <1>2, <1>3

\* A name that the table loaded last has all there is to say of is found.
LEMMA KnownIsHit ==
  ASSUME NEW f, IsImage(f), NEW name, name # Garbled,
         Defines(f, name) # {}, KnownToLast(f, name)
  PROVE  Hits(f, name) # {}
<1> DEFINE c == f.sections
           n == Len(c)
<1>1. /\ n \in Nat /\ DOMAIN c = 1 .. n
      /\ \A x \in 1 .. n :
           c[x].type = "table" => c[x].entries \in Seq([name : STRING, value : Nat])
  <2>1. c \in Seq(Range(c))
    BY DEF IsImage
  <2>2. n \in Nat /\ DOMAIN c = 1 .. n
    BY <2>1, LenProperties
  <2>3. \A x \in DOMAIN c : c[x] \in Range(c)
    BY DEF Range
  <2> QED BY <2>2, <2>3 DEF IsImage
<1>2. f.elf
  BY DEF Defines, Tables
<1>3. PICK v : v \in Defines(f, name)
  OBVIOUS
<1>4. PICK i \in DOMAIN c, j \in DOMAIN c :
        /\ c[i].type = "table" /\ c[j].type = "strtab" /\ c[i].link = j /\ i < j
        /\ \A k \in DOMAIN c : c[k].type = "table" => k <= i
        /\ \A k \in DOMAIN c : c[k].type = "strtab" /\ k > i => j <= k
        /\ [name |-> name, value |-> v] \in Range(Tail(c[i].entries))
  BY <1>3 DEF KnownToLast
<1> DEFINE e == c[i].entries
<1>5. e \in Seq([name : STRING, value : Nat])
  BY <1>1, <1>4
<1>6. PICK x \in 2 .. Len(e) : e[x] = [name |-> name, value |-> v]
  <2>1. [name |-> name, value |-> v] \in Range(Tail(e))
    BY <1>4
  <2> HIDE DEF e
  <2>2. Len(e) \in Nat
    BY <1>5, LenProperties
  <2>3. e # <<>> => /\ Tail(e) \in Seq([name : STRING, value : Nat])
                    /\ Len(Tail(e)) = Len(e) - 1
                    /\ \A y \in 1 .. Len(e) - 1 : Tail(e)[y] = e[y + 1]
    BY <1>5
  <2>4. e # <<>>
    BY <2>1 DEF Range
  <2>5. PICK y \in DOMAIN Tail(e) : Tail(e)[y] = [name |-> name, value |-> v]
    BY <2>1 DEF Range
  <2>6. y \in 1 .. Len(e) - 1
    BY <2>3, <2>4, <2>5, LenProperties
  <2>7. y + 1 \in 2 .. Len(e)
    BY <2>2, <2>6
  <2> QED BY <2>3, <2>4, <2>5, <2>6, <2>7
<1> HIDE DEF e
<1>7. <<i, j>> \in LastLoad(f)
  <2> DEFINE At == DOMAIN f.sections
             loads == {l \in At \X At : Loads(f, l[1], l[2])}
  <2>1. LastLoad(f) = {l \in loads : \A m \in loads : m[2] <= l[2]}
    BY Zenon DEF LastLoad
  <2>2. \A a, b : <<a, b>>[1] = a /\ <<a, b>>[2] = b
    OBVIOUS
  <2>3. ASSUME NEW k \in i + 1 .. j - 1 PROVE f.sections[k].type \notin {"table", "strtab"}
    <3> HIDE DEF n
    <3>1. k \in DOMAIN c /\ ~(k <= i) /\ k > i /\ ~(j <= k)
      BY <1>1, <1>4
    <3> QED BY <1>4, <3>1
  <2>4. Loads(f, i, j)
    BY <1>2, <1>4, <2>3 DEF Loads
  <2>5. <<i, j>> \in loads
    <3>1. <<i, j>> \in At \X At
      BY <1>4
    <3> HIDE DEF At
    <3> QED BY <2>2, <2>4, <3>1
  <2>6. ASSUME NEW m \in loads PROVE m[2] <= j
    <3>1. /\ m[1] \in DOMAIN c /\ m[2] \in DOMAIN c /\ m[1] < m[2]
          /\ c[m[1]].type = "table"
          /\ \A k \in m[1] + 1 .. m[2] - 1 : c[k].type \notin {"table", "strtab"}
      <4>1. m \in At \X At /\ Loads(f, m[1], m[2])
        OBVIOUS
      <4>2. m[1] \in At /\ m[2] \in At
        BY <4>1
      <4> HIDE DEF loads
      <4> QED BY <4>1, <4>2 DEF Loads
    <3> DEFINE a == m[1]
               b == m[2]
    <3>2. a <= i /\ a \in 1 .. n /\ b \in 1 .. n /\ i \in 1 .. n /\ j \in 1 .. n /\ i < j
      BY <1>1, <1>4, <3>1
    <3>3. \A k \in a + 1 .. b - 1 : c[k].type # "strtab"
      BY <3>1
    <3> HIDE DEF n, a, b
    <3>4. ~(j \in a + 1 .. b - 1)
      BY <1>4, <3>3
    <3>5. b <= j
      BY <1>1, <3>2, <3>4
    <3> QED BY <3>5 DEF b
  <2> HIDE DEF loads
  <2> QED BY <2>1, <2>2, <2>5, <2>6
<1> DEFINE s == [at |-> x, name |-> name, address |-> v]
<1>8. s \in LoadSymbols(f)
  <2>1. s \in Named(c[i], j)
    <3>1. c[i].link = j /\ c[i].entries = e /\ e[x].name = name /\ e[x].value = v
      BY <1>4, <1>6 DEF e
    <3> QED BY <3>1 DEF Named
  <2>2. <<i, j>>[1] = i /\ <<i, j>>[2] = j
    OBVIOUS
  <2> HIDE DEF s
  <2> QED BY <1>7, <2>1, <2>2 DEF LoadSymbols
<1> QED BY <1>8 DEF Hits

LEMMA InitMap == MapInit => MapInv
<1> SUFFICES ASSUME MapInit PROVE MapInv
  OBVIOUS
<1>1. ListRight
  BY InitList
<1>2. mapped \subseteq Path /\ altered = {} /\ DOMAIN disk = Path /\ image = disk
      /\ \A p \in Path : IsImage(image[p])
  BY MapAssumption DEF MapInit
<1>3. node = 0 /\ sym_name = NULL /\ NULL # Garbled
  BY DEF MapInit, Idle, NULL, Garbled
<1>4. Untouched
  BY <1>2 DEF Untouched, MapInit
<1>5. AnswerRight
  BY <1>3 DEF AnswerRight
<1> QED BY <1>1, <1>2, <1>3, <1>4, <1>5, ListFacts DEF MapInv

\* The process goes on, while the list and the search stay what they are.
LEMMA ProcessKeepsMap ==
  ASSUME MapInv, NEW p \in Path, Dlopen(p) \/ Dlclose(p) \/ Replace(p), UNCHANGED lookup
  PROVE  MapInv'
<1>1. so_list' = so_list /\ sym_name' = sym_name /\ node' = node /\ answer' = answer
      /\ altered' = altered \cup {p}
  BY DEF Dlopen, Dlclose, Replace, Alter, lookup
<1>2. /\ DOMAIN image' = Path /\ DOMAIN disk' = Path /\ mapped' \subseteq Path
      /\ \A q \in Path \ {p} : /\ disk'[q] = disk[q] /\ image'[q] = image[q]
                               /\ q \in mapped' <=> q \in mapped
  <2>1. CASE Dlopen(p)
    BY <2>1 DEF Dlopen, MapInv
  <2>2. CASE Dlclose(p)
    BY <2>2 DEF Dlclose, MapInv
  <2>3. CASE Replace(p)
    BY <2>3 DEF Replace, MapInv
  <2> QED BY <2>1, <2>2, <2>3
<1>3. ListRight'
  BY <1>1 DEF MapInv, ListRight, IsListed
<1>4. Untouched'
  BY <1>1, <1>2 DEF Untouched, MapInv
<1>5. AnswerRight'
  <2> SUFFICES ASSUME node \in 1 .. Len(so_list), answer # NotFound,
                      Here.path \notin altered', 
                      PlainIn(image'[Here.path], Here.path, sym_name)
               PROVE  RightIn(Here.path)'
    BY <1>1 DEF AnswerRight, Here
  <2>1. Here.path \in Path \ {p} /\ Here.path \notin altered
    BY <1>1, ListFacts DEF MapInv, Here
  <2>2. image'[Here.path] = image[Here.path]
    BY <1>2, <2>1
  <2>3. RightIn(Here.path)
    BY <2>1, <2>2 DEF MapInv, AnswerRight
  <2> QED BY <1>1, <2>2, <2>3 DEF RightIn, AddressOf, Here
<1> QED BY <1>1, <1>2, <1>3, <1>4, <1>5 DEF MapInv

\* In a file that is as it was, a plain name that is found is a definition, and
\* its address is never taken for none.
LEMMA FindIsPlain ==
  ASSUME MapInv, Find, Here.path \notin altered,
         PlainIn(image[Here.path], Here.path, sym_name)
  PROVE  /\ answer' # NotFound
         /\ \E v \in Defines(image[Here.path], sym_name) : answer' = AddressOf(Here.path, v)
<1>1. /\ node \in 1 .. Len(so_list) /\ so_list[node] \in SoNode /\ Here.path \in Path
      /\ Here.start = Base(Here.path) /\ Here.end = End(Here.path)
  BY ListFacts DEF Find, MapInv, ListRight, Here
<1> DEFINE p == Here.path
           f == image[p]
<1>3. disk[p] = f /\ IsImage(f) /\ sym_name # Garbled
  BY <1>1 DEF MapInv, Untouched
<1> DEFINE v == GetSymAddr(f, sym_name)
<1>4. v # NotFound /\ answer' = InMapping(v)
  BY <1>3 DEF Find
<1>5. v \in Defines(f, sym_name) /\ v \in Nat
  <2>1. Hits(f, sym_name) # {}
    BY <1>4 DEF GetSymAddr, Hits
  <2> QED BY <1>3, <2>1, SymbolIsDefinition DEF PlainIn
<1>6. IF f.absolute THEN v > Base(p) ELSE v <= Base(p) /\ Base(p) + v < End(p)
  BY <1>5 DEF PlainIn
<1>7. Base(p) \in Nat
  BY <1>1 DEF SoNode, Here
<1> HIDE DEF v
<1>8. InMapping(v) = AddressOf(p, v)
  <2>1. CASE f.absolute
    BY <1>1, <1>6, <2>1 DEF InMapping, AddressOf
  <2>2. CASE ~f.absolute
    <3>1. ~(v > Base(p))
      BY <1>5, <1>6, <1>7, <2>2
    <3> QED BY <1>1, <1>6, <2>2, <3>1 DEF InMapping, AddressOf
  <2> QED BY <2>1, <2>2
<1>9. AddressOf(p, v) # NotFound
  <2>1. AddressOf(p, v) \in Nat
    BY <1>5, <1>7 DEF AddressOf
  <2> QED BY <2>1 DEF NotFound
<1> QED BY <1>4, <1>5, <1>8, <1>9

LEMMA FindIsRight ==
  ASSUME MapInv, Find
  PROVE  AnswerRight'
<1>1. /\ so_list' = so_list /\ sym_name' = sym_name /\ node' = node
      /\ image' = image /\ altered' = altered
  BY DEF Find, process
<1> QED BY <1>1, FindIsPlain DEF AnswerRight, RightIn, Here, AddressOf

-----------------------------------------------------------------------------
(* The arguments *)

\* What the buffer holds.
Char == STRING \cup {END}

LEMMA StrchrProperties ==
  ASSUME NEW s \in Seq(Char), NEW i \in Nat, i > 0, NEW c
  PROVE  \/ Strchr(s, i, c) = 0 /\ \A j \in i .. Len(s) : s[j] # c
         \/ /\ Strchr(s, i, c) \in i .. Len(s) /\ Strchr(s, i, c) # 0
            /\ s[Strchr(s, i, c)] = c
            /\ \A j \in i .. Strchr(s, i, c) - 1 : s[j] # c
<1> DEFINE places == {j \in i .. Len(s) : s[j] = c}
           k == Min(places)
<1>1. Len(s) \in Nat
  BY LenProperties
<1>2. CASE places = {}
  BY <1>2 DEF Strchr
<1>3. CASE places # {}
  <2>1. places \in SUBSET Nat
    BY <1>1
  <2> HIDE DEF places
  <2>2. k \in places /\ \A j \in places : k <= j
    BY <1>3, <2>1, MinOf
  <2> HIDE DEF k
  <2>3. k \in i .. Len(s) /\ s[k] = c /\ k # 0
    BY <2>2 DEF places
  <2>4. ASSUME NEW j \in i .. k - 1 PROVE s[j] # c
    <3>1. j \in i .. Len(s) /\ ~(k <= j)
      BY <1>1, <2>3
    <3> QED BY <2>2, <3>1 DEF places
  <2>5. Strchr(s, i, c) = k
    BY <1>3 DEF Strchr, k, places
  <2> QED BY <2>3, <2>4, <2>5
<1> QED BY <1>2, <1>3

\* A number ends before the first character that is none of it.
LEMMA NumberProperties ==
  ASSUME NEW s \in Seq(Char), NEW i \in 1 .. Len(s)
  PROVE  \E e \in i - 1 .. Len(s) :
           /\ Number(s, i) = SubSeq(s, i, e) /\ Number(s, i) \in Seq(Char)
           /\ \A j \in i .. e : s[j] \in Digit \/ (j = i /\ s[j] = MINUS)
           /\ e < Len(s) => s[e + 1] \notin Digit /\ ~(e + 1 = i /\ s[e + 1] = MINUS)
<1> DEFINE stops == {j \in i .. Len(s) : s[j] \notin Digit /\ ~(j = i /\ s[j] = MINUS)}
           e == IF stops = {} THEN Len(s) ELSE Min(stops) - 1
<1>1. Len(s) \in Nat /\ i \in Nat /\ i > 0 /\ \A j \in 1 .. Len(s) : s[j] \in Char
  BY LenProperties, ElementOfSeq
<1>2. /\ e \in i - 1 .. Len(s)
      /\ \A j \in i .. e : s[j] \in Digit \/ (j = i /\ s[j] = MINUS)
      /\ e < Len(s) => s[e + 1] \notin Digit /\ ~(e + 1 = i /\ s[e + 1] = MINUS)
  <2>1. CASE stops = {}
    BY <1>1, <2>1
  <2>2. CASE stops # {}
    <3> DEFINE k == Min(stops)
    <3>1. stops \in SUBSET Nat
      BY <1>1
    <3>2. k \in stops /\ \A j \in stops : k <= j
      <4> HIDE DEF stops
      <4> QED BY <2>2, <3>1, MinOf
    <3>3. e = k - 1
      BY <2>2
    <3> HIDE DEF k, e
    <3>4. k \in i .. Len(s) /\ s[k] \notin Digit /\ ~(k = i /\ s[k] = MINUS)
      BY <3>2
    <3>5. ASSUME NEW j \in i .. e PROVE s[j] \in Digit \/ (j = i /\ s[j] = MINUS)
      <4>1. j \in i .. Len(s) /\ ~(k <= j)
        BY <1>1, <3>3, <3>4
      <4> QED BY <3>2, <4>1
    <3>6. e + 1 = k /\ e \in i - 1 .. Len(s)
      BY <1>1, <3>3, <3>4
    <3> QED BY <3>4, <3>5, <3>6
  <2> QED BY <2>1, <2>2
<1>3. Number(s, i) = SubSeq(s, i, e)
  BY DEF Number
<1> HIDE DEF e
<1>4. SubSeq(s, i, e) \in Seq(Char)
  <2>1. \A j \in i .. e : s[j] \in Char
    BY <1>1, <1>2
  <2> QED BY <1>1, <1>2, <2>1, SubSeqProperties
<1> QED BY <1>2, <1>3, <1>4

\* The text of a call that is closed: what is between the parentheses.
LEMMA InsideProperties ==
  ASSUME NEW text \in Seq(Char), text # <<>>, Closed(text)
  PROVE  \E k \in 2 .. Len(text) :
           /\ text[k] = CLOSE /\ \A j \in k + 1 .. Len(text) : text[j] # CLOSE
           /\ Inside(text) = SubSeq(text, 2, k - 1)
           /\ Inside(text) \in Seq(Char) /\ Len(Inside(text)) = k - 2
           /\ \A j \in 1 .. k - 2 : Inside(text)[j] = text[j + 1]
<1> DEFINE places == {j \in 1 .. Len(text) : text[j] = CLOSE}
           k == Max(places)
<1>1. Len(text) \in Nat /\ Len(text) > 0 /\ \A j \in 1 .. Len(text) : text[j] \in Char
  BY LenProperties, ElementOfSeq, EmptySeq
<1>2. \E j \in 2 .. Len(text) : j \in places
  <2>1. /\ Tail(text) \in Seq(Char) /\ Len(Tail(text)) = Len(text) - 1
        /\ \A j \in 1 .. Len(Tail(text)) : Tail(text)[j] = text[j + 1]
    BY HeadTailProperties
  <2>2. DOMAIN Tail(text) = 1 .. Len(text) - 1
    BY <2>1, LenProperties
  <2>3. PICK j \in 1 .. Len(text) - 1 : Tail(text)[j] = CLOSE
    BY <2>2 DEF Closed, Range
  <2>4. text[j + 1] = CLOSE /\ j + 1 \in 2 .. Len(text) /\ j + 1 \in 1 .. Len(text)
    BY <1>1, <2>1, <2>3
  <2> QED BY <2>4
<1>3. places \in SUBSET Nat /\ places # {} /\ \A j \in places : j <= Len(text)
  BY <1>1, <1>2
<1>4. k \in places /\ \A j \in places : j <= k
  <2> HIDE DEF places
  <2> QED BY <1>1, <1>3, MaxOf
<1>5. SelectLastInSeq(text, LAMBDA c : c = CLOSE) = k
  BY <1>3 DEF SelectLastInSeq
<1>6. Inside(text) = SubSeq(text, 2, k - 1)
  BY <1>5 DEF Inside
<1> HIDE DEF k
<1>7. k \in 2 .. Len(text) /\ text[k] = CLOSE
  BY <1>1, <1>2, <1>4
<1>8. ASSUME NEW j \in k + 1 .. Len(text) PROVE text[j] # CLOSE
  <2>1. j \in 1 .. Len(text) /\ ~(j <= k)
    BY <1>1, <1>7
  <2> QED BY <1>4, <2>1
<1>9. /\ SubSeq(text, 2, k - 1) \in Seq(Char) /\ Len(SubSeq(text, 2, k - 1)) = k - 2
      /\ \A j \in 1 .. k - 2 : SubSeq(text, 2, k - 1)[j] = text[j + 1]
  <2> DEFINE n == k - 1
             t == SubSeq(text, 2, n)
  <2>1. n \in Int /\ n \in 1 .. Len(text) /\ \A j \in 2 .. n : text[j] \in Char
    BY <1>1, <1>7
  <2> HIDE DEF n
  <2>2. /\ t \in Seq(Char)
        /\ Len(t) = IF 2 <= n THEN n - 2 + 1 ELSE 0
        /\ \A j \in 1 .. n - 2 + 1 : t[j] = text[2 + j - 1]
    BY <2>1, SubSeqProperties
  <2> HIDE DEF t
  <2>3. Len(t) = k - 2 /\ n - 2 + 1 = k - 2
    BY <1>1, <1>7, <2>1, <2>2 DEF n
  <2>4. \A j \in 1 .. k - 2 : t[j] = text[j + 1]
    BY <2>2, <2>3
  <2> QED BY <2>2, <2>3, <2>4 DEF n, t
<1> QED BY <1>6, <1>7, <1>8, <1>9

\* An argument of a call whose text has length n.
Arg(n) == [number : Seq(Char)] \cup [string : 1 .. n]

ArgsInv ==
  /\ buf \in Seq(Char) /\ cur_arg \in 1 .. Len(buf) + 1
  /\ args \in Seq(Arg(Len(buf)))
  /\ Len(args) <= MaxArg
  /\ pc = "parsing" => Len(args) < MaxArg

LEMMA StoreArgKeeps ==
  ASSUME buf \in Seq(Char), cur_arg \in 1 .. Len(buf) + 1, args \in Seq(Arg(Len(buf))),
         StoreArg
  PROVE  /\ buf' \in Seq(Char) /\ Len(buf') = Len(buf)
         /\ args' \in Seq(Arg(Len(buf))) /\ Len(args') = Len(args) + 1
<1>1. Len(buf) \in Nat /\ cur_arg \in Nat /\ cur_arg > 0 /\ cur_arg \in 1 .. Len(buf)
  BY LenProperties DEF StoreArg, Malformed, AtEnd
<1> DEFINE n == Len(buf)
<1>2. CASE IsNumber /\ buf' = buf /\ args' = Append(args, [number |-> Number(buf, cur_arg)])
  <2>1. Number(buf, cur_arg) \in Seq(Char)
    BY <1>1, NumberProperties
  <2>2. [number |-> Number(buf, cur_arg)] \in Arg(n)
    BY <2>1 DEF Arg
  <2> HIDE DEF n
  <2>3. args' \in Seq(Arg(n)) /\ Len(args') = Len(args) + 1
    BY <1>2, <2>2, AppendProperties DEF n
  <2> QED BY <1>2, <2>3 DEF n
<1>3. CASE /\ IsString /\ args' = Append(args, [string |-> cur_arg + 1])
           /\ buf' = [buf EXCEPT ![ClosedBy] = END]
  <2>1. ClosedBy # 0
    BY <1>3 DEF StoreArg, Malformed
  <2>2. ClosedBy \in cur_arg + 1 .. n
    BY <1>1, <2>1, StrchrProperties DEF ClosedBy
  <2>3. cur_arg + 1 \in 1 .. n /\ ClosedBy \in 1 .. n
    BY <1>1, <2>2
  <2>4. [string |-> cur_arg + 1] \in Arg(n)
    BY <2>3 DEF Arg
  <2>5. buf' \in Seq(Char) /\ Len(buf') = n
    <3>1. END \in Char
      BY DEF Char
    <3> HIDE DEF ClosedBy
    <3> QED BY <1>3, <2>3, <3>1, ExceptSeq
  <2> HIDE DEF n
  <2>6. args' \in Seq(Arg(n)) /\ Len(args') = Len(args) + 1
    BY <1>3, <2>4, AppendProperties DEF n
  <2> QED BY <2>5, <2>6 DEF n
<1> QED BY <1>2, <1>3 DEF StoreArg

LEMMA CommaAfterBounds ==
  ASSUME buf \in Seq(Char), cur_arg \in 1 .. Len(buf) + 1, ~Malformed
  PROVE  CommaAfter = 0 \/ CommaAfter \in cur_arg .. Len(buf)
<1>1. Len(buf) \in Nat /\ cur_arg \in Nat /\ cur_arg > 0
  BY LenProperties
<1>2. CASE IsString
  <2>1. ClosedBy \in cur_arg + 1 .. Len(buf)
    BY <1>1, <1>2, StrchrProperties DEF Malformed, ClosedBy
  <2>2. ClosedBy + 1 \in Nat /\ ClosedBy + 1 > 0 /\ ClosedBy + 1 > cur_arg
    BY <1>1, <2>1
  <2>3. CommaAfter = Strchr(buf, ClosedBy + 1, COMMA)
    BY <1>2 DEF CommaAfter
  <2> HIDE DEF ClosedBy
  <2>4. CommaAfter = 0 \/ CommaAfter \in ClosedBy + 1 .. Len(buf)
    BY <2>2, <2>3, StrchrProperties
  <2> QED BY <1>1, <2>1, <2>2, <2>4
<1>3. CASE ~IsString
  <2>1. CommaAfter = Strchr(buf, cur_arg, COMMA)
    BY <1>3 DEF CommaAfter
  <2> QED BY <1>1, <2>1, StrchrProperties
<1> QED BY <1>2, <1>3

-----------------------------------------------------------------------------
(* The session *)

PcType == pc \in {"negotiating", "prompt", "reading", "looking", "parsing",
                  "calling", "refused", "lost"}

SessionInv ==
  /\ PcType
  /\ iacs \in 0 .. Options - 1
  /\ cmd \in Commands \cup {NoCommand}
  /\ pc \in {"looking", "parsing", "calling", "refused"} => cmd \in Commands
  /\ pc \in {"looking", "parsing", "calling", "refused"} => sym_name = cmd.name
  /\ pc = "looking" => answer = NotFound
  /\ MapInv /\ ArgsInv

LEMMA CommandFacts ==
  ASSUME NEW c \in Commands \cup {NoCommand}
  PROVE  /\ c.name # Garbled /\ c.text \in Seq(Char)
         /\ c.text = <<>> \/ Head(c.text) = OPEN
<1>1. CASE c \in Commands
  BY <1>1, CommandAssumption DEF Char
<1>2. CASE c = NoCommand
  <2>1. <<>> \in Seq(Char)
    OBVIOUS
  <2> QED BY <1>2, <2>1 DEF NoCommand, NULL, Garbled
<1> QED BY <1>1, <1>2

LEMMA ArgsIdle == buf = <<>> /\ cur_arg = 1 /\ args = <<>> => ArgsInv
<1>1. Len(<<>>) = 0 /\ <<>> \in Seq(Char) /\ \A S : <<>> \in Seq(S)
  OBVIOUS
<1> QED BY <1>1, ArgsAssumption DEF ArgsInv

LEMMA InitSession == Init => SessionInv
<1> SUFFICES ASSUME Init PROVE SessionInv
  OBVIOUS
<1>1. MapInv
  BY InitMap DEF Init
<1>2. ArgsInv
  BY ArgsIdle DEF Init, ArgsInit
<1> QED BY <1>1, <1>2, CommandAssumption DEF Init, SessionInv, PcType

\* The steps that leave the map and the search alone.
LEMMA MapStays == MapInv /\ UNCHANGED mvars => MapInv'
<1> SUFFICES ASSUME MapInv, UNCHANGED mvars PROVE MapInv'
  OBVIOUS
<1> QED BY DEF mvars, MapInv, ListRight, IsListed, Untouched, AnswerRight, RightIn, Here,
               AddressOf

\* The search moves to a place where it has not found the name.
LEMMA MapSearches ==
  ASSUME MapInv, UNCHANGED process, so_list' = so_list, answer' = NotFound \/ node' = 0,
         node' \in 0 .. Len(so_list) + 1, sym_name' # Garbled
  PROVE  MapInv'
<1>1. ListRight' /\ Untouched'
  BY DEF process, MapInv, ListRight, IsListed, Untouched
<1>2. AnswerRight'
  BY DEF AnswerRight
<1> QED BY <1>1, <1>2 DEF process, MapInv

LEMMA ArgsStay ==
  ArgsInv /\ UNCHANGED avars /\ (pc' = "parsing" => pc = "parsing") => ArgsInv'
BY DEF avars, ArgsInv

LEMMA FinishKeeps == SessionInv /\ Finish => SessionInv'
<1> SUFFICES ASSUME SessionInv, Finish PROVE SessionInv'
  OBVIOUS
<1>1. MapInv'
  <2>1. answer' = NotFound /\ node' = 0 /\ sym_name' # Garbled /\ Len(so_list) \in Nat
    BY ListFacts DEF Finish, NULL, Garbled, SessionInv, MapInv
  <2> QED BY <2>1, MapSearches DEF Finish, SessionInv
<1>2. ArgsInv'
  <2>1. (buf = <<>> /\ cur_arg = 1 /\ args = <<>> => ArgsInv)'
    BY ArgsIdle, PTL
  <2> QED BY <2>1 DEF Finish
<1> QED BY <1>1, <1>2 DEF Finish, SessionInv, PcType

LEMMA SearchKeeps == SessionInv /\ (Enter \/ Walk \/ Unknown) => SessionInv'
<1> SUFFICES ASSUME SessionInv, Enter \/ Walk \/ Unknown PROVE SessionInv'
  OBVIOUS
<1>1. Len(so_list) \in Nat /\ DOMAIN so_list = 1 .. Len(so_list)
  BY ListFacts DEF SessionInv, MapInv
<1>2. CASE Enter
  <2>1. PICK c \in Commands : cmd' = c /\ LookUp(c.name)
    BY <1>2 DEF Enter
  <2>2. MapInv'
    <3>1. /\ UNCHANGED process /\ so_list' = so_list /\ answer' = NotFound
          /\ node' \in 0 .. Len(so_list) + 1 /\ sym_name' # Garbled
      BY <1>1, <2>1, CommandFacts DEF LookUp
    <3> QED BY <3>1, MapSearches DEF SessionInv
  <2>3. ArgsInv'
    BY <1>2, ArgsStay DEF Enter, SessionInv
  <2> QED BY <1>2, <2>1, <2>2, <2>3 DEF Enter, SessionInv, PcType, LookUp
<1>3. CASE Walk
  <2>1. /\ UNCHANGED process /\ so_list' = so_list /\ answer' = answer
        /\ node' = node + 1 /\ sym_name' = sym_name /\ node \in 1 .. Len(so_list)
    BY <1>1, <1>3 DEF Walk, Pass
  <2>2. MapInv'
    BY <1>1, <1>3, <2>1, MapSearches DEF Walk, SessionInv, MapInv
  <2>3. ArgsInv'
    BY <1>3, ArgsStay DEF Walk, SessionInv
  <2> QED BY <1>3, <2>1, <2>2, <2>3 DEF Walk, SessionInv, PcType
<1>4. CASE Unknown
  <2>1. MapInv' /\ ArgsInv'
    BY <1>4, MapStays, ArgsStay DEF Unknown, SessionInv
  <2> QED BY <1>4, <2>1 DEF Unknown, SessionInv, PcType, mvars
<1> QED BY <1>2, <1>3, <1>4

LEMMA FoundKeeps == SessionInv /\ Found => SessionInv'
<1> SUFFICES ASSUME SessionInv, Found PROVE SessionInv'
  OBVIOUS
<1>1. MapInv'
  <2>1. /\ UNCHANGED process /\ so_list' = so_list /\ node' = node /\ sym_name' = sym_name
    BY DEF Found, Find
  <2>2. AnswerRight'
    BY FindIsRight DEF SessionInv, Found
  <2> QED BY <2>1, <2>2 DEF process, SessionInv, MapInv, ListRight, IsListed, Untouched
<1>2. cmd' = cmd /\ sym_name' = sym_name /\ iacs' = iacs /\ cmd \in Commands
      /\ pc' \in {"refused", "calling", "parsing"} /\ sym_name = cmd.name
  BY DEF Found, Find, SessionInv
<1>3. ArgsInv'
  <2>1. CASE UNCHANGED avars /\ pc' # "parsing"
    BY <2>1, ArgsStay DEF SessionInv
  <2>2. CASE /\ cmd.text # <<>> /\ Closed(cmd.text)
             /\ buf' = Inside(cmd.text) /\ cur_arg' = 1 /\ args' = <<>>
    <3>1. cmd.text \in Seq(Char)
      BY <1>2, CommandFacts
    <3>2. Inside(cmd.text) \in Seq(Char)
      BY <2>2, <3>1, InsideProperties
    <3>3. Len(Inside(cmd.text)) \in Nat
      BY <3>2, LenProperties
    <3>4. Len(<<>>) = 0 /\ \A S : <<>> \in Seq(S)
      OBVIOUS
    <3> HIDE DEF ArgsInv
    <3> QED BY <2>2, <3>2, <3>3, <3>4, ArgsAssumption DEF ArgsInv
  <2> QED BY <2>1, <2>2 DEF Found
<1> QED BY <1>1, <1>2, <1>3 DEF SessionInv, PcType

LEMMA ParseKeeps == SessionInv /\ Parse => SessionInv'
<1> SUFFICES ASSUME SessionInv, Parse PROVE SessionInv'
  OBVIOUS
<1>1. MapInv'
  BY MapStays DEF Parse, SessionInv
<1>2. /\ buf \in Seq(Char) /\ cur_arg \in 1 .. Len(buf) + 1 /\ args \in Seq(Arg(Len(buf)))
      /\ Len(args) < MaxArg /\ Len(buf) \in Nat /\ Len(args) \in Nat
  BY LenProperties DEF Parse, SessionInv, ArgsInv
<1>3. ArgsInv'
  <2>1. CASE NextArg
    <3>1. /\ buf' \in Seq(Char) /\ Len(buf') = Len(buf)
          /\ args' \in Seq(Arg(Len(buf))) /\ Len(args') = Len(args) + 1
      BY <1>2, <2>1, StoreArgKeeps DEF NextArg
    <3>2. CommaAfter \in cur_arg .. Len(buf)
      BY <1>2, <2>1, CommaAfterBounds DEF NextArg, StoreArg, MoreArgs
    <3>3. cur_arg' \in 1 .. Len(buf) + 1
      BY <1>2, <2>1, <3>2 DEF NextArg
    <3>4. Len(args) + 1 < MaxArg
      BY <2>1 DEF NextArg, MoreArgs
    <3> QED BY <1>2, <3>1, <3>3, <3>4, ArgsAssumption DEF ArgsInv
  <2>2. CASE LastArg /\ pc' = "calling"
    <3>1. /\ buf' \in Seq(Char) /\ Len(buf') = Len(buf)
          /\ args' \in Seq(Arg(Len(buf))) /\ Len(args') = Len(args) + 1
      BY <1>2, <2>2, StoreArgKeeps DEF LastArg
    <3>2. Len(args) + 1 <= MaxArg
      BY <1>2, ArgsAssumption
    <3> QED BY <1>2, <2>2, <3>1, <3>2 DEF ArgsInv, LastArg
  <2>3. CASE UNCHANGED avars /\ pc' = "refused"
    BY <2>3, ArgsStay DEF SessionInv
  <2> QED BY <2>1, <2>2, <2>3 DEF Parse
<1> QED BY <1>1, <1>3 DEF Parse, mvars, SessionInv, PcType

LEMMA NextSession == SessionInv /\ [Next]_vars => SessionInv'
<1> SUFFICES ASSUME SessionInv, [Next]_vars PROVE SessionInv'
  OBVIOUS
<1>1. CASE UNCHANGED <<mvars, avars, iacs, cmd>> /\
           pc' \in {pc, "prompt", "reading", "lost"}
  <2>1. MapInv' /\ ArgsInv'
    BY <1>1, MapStays, ArgsStay DEF SessionInv
  <2> QED BY <1>1, <2>1 DEF SessionInv, PcType, mvars
<1>2. CASE Write \/ Prompted \/ LosesItself \/ UNCHANGED vars
  BY <1>1, <1>2 DEF Write, Prompted, LosesItself, vars
<1>3. CASE Negotiated
  <2>1. MapInv' /\ ArgsInv'
    BY <1>3, MapStays, ArgsStay DEF SessionInv, Negotiated
  <2>2. iacs' \in 0 .. Options - 1
    BY <1>3, CommandAssumption DEF SessionInv, Negotiated
  <2> QED BY <1>3, <2>1, <2>2 DEF SessionInv, PcType, mvars, Negotiated
<1>4. CASE Walk \/ Unknown \/ Enter
  BY <1>4, SearchKeeps
<1>5. CASE Found
  BY <1>5, FoundKeeps
<1>6. CASE Parse
  BY <1>6, ParseKeeps
<1>7. CASE Call \/ GiveUp
  BY <1>1, <1>7, FinishKeeps DEF Call, GiveUp
<1>8. CASE Process
  <2>1. MapInv'
    BY <1>8, ProcessKeepsMap DEF Process, SessionInv
  <2>2. ArgsInv'
    BY <1>8, ArgsStay DEF Process, SessionInv
  <2> QED BY <1>8, <2>1, <2>2 DEF Process, SessionInv, PcType, lookup
<1> QED BY <1>2, <1>3, <1>4, <1>5, <1>6, <1>7, <1>8 DEF Next, Thread

LEMMA SessionInvariance == Spec => []SessionInv
BY InitSession, NextSession, PTL DEF Spec

\* A session is always in a state of its type: no argument is kept beyond the
\* array, every string argument begins inside the buffer, the parser stays in
\* it, and the search in the list.
THEOREM TypeCorrect == Spec => []TypeOK
<1>1. SessionInv /\ Connection => TypeOK
  <2> SUFFICES ASSUME SessionInv, Connection PROVE TypeOK
    OBVIOUS
  <2>1. Listed \subseteq Path
    BY ListFacts DEF SessionInv, MapInv, Listed
  <2>2. cmd.text = <<>> \/ Head(cmd.text) = OPEN
    BY CommandFacts DEF SessionInv
  <2>3. /\ Len(args) <= MaxArg /\ cur_arg \in 1 .. Len(buf) + 1
        /\ \A i \in DOMAIN args :
             "string" \in DOMAIN args[i] => args[i].string \in DOMAIN buf
    <3>1. DOMAIN buf = 1 .. Len(buf) /\ \A i \in DOMAIN args : args[i] \in Arg(Len(buf))
      BY LenProperties, ElementOfSeq DEF SessionInv, ArgsInv
    <3>2. ASSUME NEW a \in Arg(Len(buf)), "string" \in DOMAIN a
          PROVE  a.string \in 1 .. Len(buf)
      BY <3>2 DEF Arg
    <3> QED BY <3>1, <3>2 DEF SessionInv, ArgsInv
  <2> QED BY <2>1, <2>2, <2>3
          DEF TypeOK, SessionInv, PcType, MapInv, Connection, WriteInv, WriteType
<1> QED BY <1>1, SessionInvariance, ConnectionInvariance, PTL

\* Whatever files are mapped, however their lines lie in the map, and whatever
\* happens to the other files meanwhile: the address ld_find_address returns
\* for a plain name is that of a definition, if the file is as it was.
THEOREM AnswersAreRight == Spec => []AnswerIsDefinition
<1>1. SessionInv => AnswerIsDefinition
  <2> SUFFICES ASSUME SessionInv, node \in DOMAIN so_list, answer # NotFound,
                      Here.path \notin altered, Plain(sym_name)
               PROVE  answer \in Definitions(sym_name)
    BY DEF AnswerIsDefinition
  <2>1. node \in 1 .. Len(so_list) /\ Here.path \in AtStart /\ Here.path \in Path
    BY ListFacts DEF SessionInv, MapInv, ListRight, Here
  <2>2. PlainIn(image[Here.path], Here.path, sym_name)
    BY DEF Plain, Here
  <2>3. PICK v \in Defines(image[Here.path], sym_name) : answer = AddressOf(Here.path, v)
    BY <2>1, <2>2 DEF SessionInv, MapInv, AnswerRight, RightIn
  <2>4. Here.path \in mapped
    BY <2>1 DEF SessionInv, MapInv, Untouched
  <2> QED BY <2>3, <2>4 DEF Definitions
<1> QED BY <1>1, SessionInvariance, PTL

-----------------------------------------------------------------------------
(* What was typed *)

\* The number of pieces of a text.
Count(s) == Cardinality(Commas(s)) + 1

LEMMA CutProperties ==
  ASSUME NEW s \in Seq(Char)
  PROVE  /\ Count(s) \in Nat /\ Count(s) >= 1
         /\ Cut(s, 0) = 0 /\ Cut(s, Count(s)) = Len(s) + 1
         /\ \A k \in 1 .. Count(s) - 1 :
              Cut(s, k) \in 1 .. Len(s) /\ s[Cut(s, k)] = COMMA
         /\ \A k \in 1 .. Count(s) : Cut(s, k - 1) < Cut(s, k)
         /\ \A i, k \in 0 .. Count(s) : i <= k => Cut(s, i) <= Cut(s, k)
         /\ \A k \in 0 .. Count(s) : Cut(s, k) \in 0 .. Len(s) + 1
<1> DEFINE S == Commas(s)
           n == Cardinality(S)
           key == [i \in S |-> i]
           At(i) == Cardinality({j \in S : j <= i})
           C(k) == CHOOSE i \in S : At(i) = k
<1>1. Len(s) \in Nat /\ DOMAIN s = 1 .. Len(s)
  BY LenProperties
<1>2. /\ S \subseteq 1 .. Len(s) /\ \A i \in S : s[i] = COMMA
      /\ IsFiniteSet(S) /\ \A i \in S : i \in Nat
  <2>1. S \subseteq 1 .. Len(s) /\ \A i \in S : s[i] = COMMA
    BY <1>1 DEF Commas
  <2> HIDE DEF S
  <2>2. IsFiniteSet(S)
    <3>1. IsFiniteSet(1 .. Len(s))
      BY <1>1, FS_Interval
    <3> QED BY <2>1, <3>1, FS_Subset
  <2> QED BY <1>1, <2>1, <2>2
<1> HIDE DEF S
<1>3. key \in [S -> Nat] /\ \A a, b \in S : key[a] = key[b] => a = b
  BY <1>2
<1>4. \A i \in S : At(i) = Rank(S, key, i)
  <2> TAKE i \in S
  <2>1. {j \in S : j <= i} = {j \in S : key[j] <= key[i]}
    OBVIOUS
  <2> QED BY <2>1 DEF Rank
<1>5. \A i \in S : key[i] = i
  OBVIOUS
<1> HIDE DEF key
<1>6. /\ n \in Nat
      /\ \A k \in 1 .. n : \E a \in S : Rank(S, key, a) = k
  BY <1>2, <1>3, RankOnto
<1>7. \A a, b \in S : key[a] < key[b] => Rank(S, key, a) < Rank(S, key, b)
  BY <1>2, <1>3, RankOrders
<1> HIDE DEF At
<1>8. \A k \in 1 .. n : C(k) \in S /\ At(C(k)) = k
  BY <1>4, <1>6
<1>9. \A k \in 1 .. n : Cut(s, k) = C(k)
  <2> TAKE k \in 1 .. n
  <2>1. k # 0 /\ ~(k > n)
    BY <1>6
  <2> QED BY <2>1 DEF Cut, At, S, n
<1>10. Cut(s, 0) = 0 /\ Cut(s, n + 1) = Len(s) + 1 /\ Count(s) = n + 1
  <2>1. n + 1 # 0 /\ n + 1 > n
    BY <1>6
  <2> QED BY <2>1 DEF Cut, Count, S
<1> HIDE DEF n, C
<1>11. \A k \in 1 .. n : Cut(s, k) \in S /\ Cut(s, k) \in 1 .. Len(s) /\ s[Cut(s, k)] = COMMA
  BY <1>2, <1>8, <1>9
<1>12. ASSUME NEW i \in 1 .. n, NEW k \in 1 .. n, i < k
       PROVE  Cut(s, i) < Cut(s, k)
  <2>1. Cut(s, i) \in S /\ Cut(s, k) \in S /\ Rank(S, key, Cut(s, i)) = i
        /\ Rank(S, key, Cut(s, k)) = k
    BY <1>4, <1>8, <1>9
  <2>2. ~(Cut(s, k) < Cut(s, i)) /\ Cut(s, k) # Cut(s, i)
    BY <1>5, <1>7, <1>12, <2>1
  <2>3. Cut(s, i) \in Nat /\ Cut(s, k) \in Nat
    BY <1>2, <2>1
  <2> QED BY <2>2, <2>3
<1>13. \A k \in 0 .. n + 1 : k = 0 \/ k = n + 1 \/ k \in 1 .. n
  BY <1>6
<1>14. \A k \in 0 .. n + 1 : Cut(s, k) \in 0 .. Len(s) + 1
  BY <1>1, <1>10, <1>11, <1>13
<1>15. ASSUME NEW i \in 0 .. n + 1, NEW k \in 0 .. n + 1, i < k
       PROVE  Cut(s, i) < Cut(s, k)
  <2>1. i = 0 \/ i \in 1 .. n
    BY <1>6, <1>15
  <2>2. k = n + 1 \/ k \in 1 .. n
    BY <1>6, <1>15
  <2>3. \A h \in 1 .. n : Cut(s, h) \in Nat /\ Cut(s, h) > 0 /\ Cut(s, h) < Len(s) + 1
    BY <1>1, <1>11
  <2> QED BY <1>1, <1>10, <1>12, <1>15, <2>1, <2>2, <2>3
<1>16. \A k \in 1 .. n + 1 : Cut(s, k - 1) < Cut(s, k)
  <2> TAKE k \in 1 .. n + 1
  <2>1. k - 1 \in 0 .. n + 1 /\ k \in 0 .. n + 1 /\ k - 1 < k
    BY <1>6
  <2> QED BY <1>15, <2>1
<1>17. \A i, k \in 0 .. n + 1 : i <= k => Cut(s, i) <= Cut(s, k)
  <2> TAKE i, k \in 0 .. n + 1
  <2>1. i <= k => i = k \/ i < k
    BY <1>6
  <2>2. Cut(s, i) \in Nat /\ Cut(s, k) \in Nat
    BY <1>1, <1>14
  <2> QED BY <1>15, <2>1, <2>2
<1>18. Count(s) \in Nat /\ Count(s) >= 1 /\ 1 .. Count(s) - 1 = 1 .. n
  BY <1>6, <1>10
<1> QED BY <1>10, <1>11, <1>14, <1>16, <1>17, <1>18

\* A piece, by its bounds.
LEMMA PieceProperties ==
  ASSUME NEW s \in Seq(Char), NEW k \in 1 .. Count(s)
  PROVE  /\ Pieces(s)[k] \in Seq(Char)
         /\ Len(Pieces(s)[k]) = Cut(s, k) - Cut(s, k - 1) - 1
         /\ \A i \in 1 .. Cut(s, k) - Cut(s, k - 1) - 1 :
              Pieces(s)[k][i] = s[Cut(s, k - 1) + i]
         /\ Pieces(s)[k] = SubSeq(s, Cut(s, k - 1) + 1, Cut(s, k) - 1)
<1> DEFINE a == Cut(s, k - 1) + 1
           b == Cut(s, k) - 1
           t == SubSeq(s, a, b)
<1>1. Len(s) \in Nat /\ \A i \in 1 .. Len(s) : s[i] \in Char
  BY LenProperties, ElementOfSeq
<1>2. k - 1 \in 0 .. Count(s) /\ k \in 0 .. Count(s)
  BY CutProperties
<1>3. Cut(s, k - 1) < Cut(s, k) /\ Cut(s, k - 1) \in 0 .. Len(s) + 1 /\ Cut(s, k) \in 0 .. Len(s) + 1
  BY <1>2, CutProperties
<1>4. a \in 1 .. Len(s) + 1 /\ b \in 0 .. Len(s) /\ a <= b + 1
  BY <1>1, <1>3
<1>5. Pieces(s)[k] = t
  BY DEF Pieces, Count
<1>6. b - a + 1 = Cut(s, k) - Cut(s, k - 1) - 1 /\ \A i \in Int : a + i - 1 = Cut(s, k - 1) + i
  BY <1>1, <1>3
<1> HIDE DEF a, b
<1>7. a \in Int /\ b \in Int /\ \A i \in a .. b : s[i] \in Char
  BY <1>1, <1>4
<1>8. /\ t \in Seq(Char) /\ Len(t) = IF a <= b THEN b - a + 1 ELSE 0
      /\ \A i \in 1 .. b - a + 1 : t[i] = s[a + i - 1]
  BY <1>7, SubSeqProperties
<1> HIDE DEF t
<1>9. Len(t) = b - a + 1
  BY <1>1, <1>4, <1>8
<1>10. t = SubSeq(s, Cut(s, k - 1) + 1, Cut(s, k) - 1)
  BY DEF t, a, b
<1>11. \A i \in 1 .. b - a + 1 : a + i - 1 = Cut(s, k - 1) + i
  BY <1>6
<1>12. \A i \in 1 .. b - a + 1 : t[i] = s[Cut(s, k - 1) + i]
  BY <1>8, <1>11
<1> HIDE DEF t
<1> QED BY <1>5, <1>6, <1>8, <1>9, <1>10, <1>12

\* A piece is one thing or the other, with its bounds in the text.
LEMMA NumeralProperties ==
  ASSUME NEW s \in Seq(Char), NEW k \in 1 .. Count(s), IsNumeral(Pieces(s)[k])
  PROVE  /\ Cut(s, k - 1) + 1 < Cut(s, k)
         /\ s[Cut(s, k - 1) + 1] \in Digit \cup {MINUS}
         /\ \A j \in Cut(s, k - 1) + 1 .. Cut(s, k) - 1 :
              s[j] \in Digit \/ (j = Cut(s, k - 1) + 1 /\ s[j] = MINUS)
         /\ ~IsQuoted(Pieces(s)[k])
<1> DEFINE p == Pieces(s)[k]
           a == Cut(s, k - 1)
           n == Cut(s, k) - Cut(s, k - 1) - 1
<1>1. k - 1 \in 0 .. Count(s) /\ k \in 0 .. Count(s) /\ Len(s) \in Nat
  BY CutProperties, LenProperties
<1>2. a \in Nat /\ Cut(s, k) \in Nat /\ a < Cut(s, k)
  BY <1>1, CutProperties
<1>3. n \in Nat /\ Cut(s, k) = a + n + 1
  BY <1>2
<1>4. p \in Seq(Char) /\ Len(p) = n /\ \A i \in 1 .. n : p[i] = s[a + i]
  BY PieceProperties
<1> HIDE DEF p, a, n
<1>5. p # <<>> /\ Head(p) = p[1] /\ n >= 1
  <2>1. Len(<<>>) = 0
    OBVIOUS
  <2>2. ASSUME p = <<>> PROVE FALSE
    BY <2>2 DEF IsNumeral, p
  <2>3. n # 0
    BY <1>4, <2>2, EmptySeq
  <2> QED BY <1>3, <2>2, <2>3
<1>6. ASSUME NEW i \in 1 .. n PROVE p[i] \in Digit \/ (i = 1 /\ p[i] = MINUS)
  <2>1. CASE Head(p) = MINUS
    <3>1. Range(Tail(p)) \subseteq Digit
      BY <1>5, <2>1 DEF IsNumeral, p
    <3>2. /\ Tail(p) \in Seq(Char) /\ Len(Tail(p)) = n - 1
          /\ \A j \in 1 .. n - 1 : Tail(p)[j] = p[j + 1]
      BY <1>4, <1>5, HeadTailProperties
    <3>3. CASE i = 1
      BY <1>5, <2>1, <3>3
    <3>4. CASE i # 1
      <4>1. i - 1 \in 1 .. n - 1 /\ (i - 1) + 1 = i
        BY <1>3, <3>4
      <4>2. Tail(p)[i - 1] \in Range(Tail(p))
        <5>1. DOMAIN Tail(p) = 1 .. n - 1
          BY <3>2, LenProperties
        <5> QED BY <4>1, <5>1 DEF Range
      <4> QED BY <3>1, <3>2, <4>1, <4>2
    <3> QED BY <3>3, <3>4
  <2>2. CASE Head(p) # MINUS
    <3>1. Range(p) \subseteq Digit
      BY <2>2 DEF IsNumeral, p
    <3>2. p[i] \in Range(p)
      BY <1>4, LenProperties DEF Range
    <3> QED BY <3>1, <3>2
  <2> QED BY <2>1, <2>2
<1>7. ASSUME NEW j \in a + 1 .. Cut(s, k) - 1
      PROVE  s[j] \in Digit \/ (j = a + 1 /\ s[j] = MINUS)
  <2>1. j - a \in 1 .. n /\ a + (j - a) = j /\ (j - a = 1 => j = a + 1)
    BY <1>2, <1>3
  <2>2. p[j - a] = s[j]
    BY <1>4, <2>1
  <2> QED BY <1>6, <2>1, <2>2
<1>8. a + 1 < Cut(s, k) /\ a + 1 \in a + 1 .. Cut(s, k) - 1
  BY <1>2, <1>3, <1>5
<1>9. s[a + 1] \in Digit \cup {MINUS}
  BY <1>7, <1>8
<1>10. ~IsQuoted(p)
  <2>1. Head(p) = s[a + 1]
    BY <1>4, <1>5
  <2>2. QUOTE \notin Digit \cup {MINUS}
    BY ArgsAssumption DEF QUOTE, MINUS
  <2> QED BY <1>9, <2>1, <2>2 DEF IsQuoted
<1> QED BY <1>7, <1>8, <1>9, <1>10 DEF p, a

LEMMA QuotedProperties ==
  ASSUME NEW s \in Seq(Char), NEW k \in 1 .. Count(s), IsQuoted(Pieces(s)[k])
  PROVE  /\ Cut(s, k - 1) + 2 < Cut(s, k)
         /\ s[Cut(s, k - 1) + 1] = QUOTE /\ s[Cut(s, k) - 1] = QUOTE
         /\ \A j \in Cut(s, k - 1) + 2 .. Cut(s, k) - 2 : s[j] # QUOTE
<1> DEFINE p == Pieces(s)[k]
           a == Cut(s, k - 1)
           n == Cut(s, k) - Cut(s, k - 1) - 1
<1>1. k - 1 \in 0 .. Count(s) /\ k \in 0 .. Count(s) /\ Len(s) \in Nat
  BY CutProperties, LenProperties
<1>2. a \in Nat /\ Cut(s, k) \in Nat /\ a < Cut(s, k)
  BY <1>1, CutProperties
<1>3. n \in Nat /\ Cut(s, k) = a + n + 1
  BY <1>2
<1>4. p \in Seq(Char) /\ Len(p) = n /\ \A i \in 1 .. n : p[i] = s[a + i]
  BY PieceProperties
<1> HIDE DEF p, a, n
<1>5. n >= 2 /\ Head(p) = QUOTE /\ Last(p) = QUOTE /\ QUOTE \notin Range(SubSeq(p, 2, n - 1))
  BY <1>4 DEF IsQuoted, p
<1>6. p[1] = QUOTE /\ p[n] = QUOTE
  BY <1>4, <1>5 DEF Last
<1>7. s[a + 1] = QUOTE /\ s[a + n] = QUOTE
  BY <1>3, <1>4, <1>5, <1>6
<1>8. ASSUME NEW j \in a + 2 .. Cut(s, k) - 2 PROVE s[j] # QUOTE
  <2> DEFINE t == SubSeq(p, 2, n - 1)
             m == n - 1
  <2>1. j - a - 1 \in 1 .. n - 2 /\ j - a \in 1 .. n /\ a + (j - a) = j
        /\ 2 + (j - a - 1) - 1 = j - a
    BY <1>2, <1>3
  <2>2. m \in Int /\ m - 2 + 1 = n - 2 /\ \A i \in 2 .. m : p[i] \in Char
    BY <1>3, <1>4, ElementOfSeq
  <2> HIDE DEF m
  <2>3. /\ SubSeq(p, 2, m) \in Seq(Char)
        /\ Len(SubSeq(p, 2, m)) = IF 2 <= m THEN m - 2 + 1 ELSE 0
        /\ \A i \in 1 .. m - 2 + 1 : SubSeq(p, 2, m)[i] = p[2 + i - 1]
    BY <2>2, SubSeqProperties
  <2>4. t = SubSeq(p, 2, m)
    BY DEF m
  <2> HIDE DEF t
  <2>5. Len(t) = n - 2
    BY <1>3, <1>5, <2>2, <2>3, <2>4 DEF m
  <2>6. t[j - a - 1] \in Range(t)
    BY <2>1, <2>3, <2>4, <2>5, LenProperties DEF Range
  <2>7. t[j - a - 1] = p[j - a]
    <3>1. j - a - 1 \in 1 .. m - 2 + 1
      BY <2>1, <2>2
    <3> QED BY <2>1, <2>3, <2>4, <3>1
  <2>8. QUOTE \notin Range(t)
    BY <1>5 DEF t
  <2> QED BY <1>4, <2>1, <2>6, <2>7, <2>8
<1>9. a + 2 < Cut(s, k) /\ Cut(s, k) - 1 = a + n
  BY <1>2, <1>3, <1>5
<1> QED BY <1>7, <1>8, <1>9 DEF a

-----------------------------------------------------------------------------
(* What the parser makes of it *)

\* A part of a sequence is that of another one, where the two are the same.
LEMMA SameParts ==
  ASSUME NEW s \in Seq(Char), NEW t \in Seq(Char), NEW a \in Nat, NEW b \in Int, a >= 1,
         b <= Len(s), b <= Len(t), \A i \in a .. b : s[i] = t[i]
  PROVE  SubSeq(s, a, b) = SubSeq(t, a, b)
<1> DEFINE x == SubSeq(s, a, b)
           y == SubSeq(t, a, b)
           n == IF a <= b THEN b - a + 1 ELSE 0
<1>1. Len(s) \in Nat /\ Len(t) \in Nat
  BY LenProperties
<1>2. \A i \in a .. b : s[i] \in Char /\ t[i] \in Char
  BY <1>1, ElementOfSeq
<1>3. x \in Seq(Char) /\ Len(x) = n /\ \A i \in 1 .. b - a + 1 : x[i] = s[a + i - 1]
  BY <1>2, SubSeqProperties
<1>4. y \in Seq(Char) /\ Len(y) = n /\ \A i \in 1 .. b - a + 1 : y[i] = t[a + i - 1]
  BY <1>2, SubSeqProperties
<1> HIDE DEF x, y
<1>5. \A i \in 1 .. n : i \in 1 .. b - a + 1 /\ a + i - 1 \in a .. b
  OBVIOUS
<1>6. \A i \in 1 .. n : x[i] = y[i]
  BY <1>3, <1>4, <1>5
<1> HIDE DEF n
<1>7. x = y
  BY <1>3, <1>4, <1>6, SeqEqual
<1> QED BY <1>7 DEF x, y

\* How argument k of the text s is kept: a number by itself, a string by its
\* place in the buffer, where it has got an end.
ArgIs(s, k, text, a) ==
  IF IsQuoted(Pieces(s)[k])
  THEN /\ a = [string |-> Cut(s, k - 1) + 2]
       /\ \A j \in Cut(s, k - 1) + 2 .. Cut(s, k) - 2 : text[j] = s[j]
       /\ text[Cut(s, k) - 1] = END
  ELSE a = [number |-> Pieces(s)[k]]

\* The pieces of a text from the first to the last are what it should be.
Good(s) == \A k \in 1 .. Count(s) : IsNumeral(Pieces(s)[k]) \/ IsQuoted(Pieces(s)[k])

\* The parser is at the beginning of piece m + 1, and has not touched it.
AtPiece(s, m) ==
  /\ buf \in Seq(Char) /\ Len(buf) = Len(s)
  /\ cur_arg = Cut(s, m) + 1
  /\ \A j \in cur_arg .. Len(s) : buf[j] = s[j]

\* It stores the piece, and touches nothing else.
Stores(s, k) ==
  /\ \E a : args' = Append(args, a) /\ ArgIs(s, k, buf', a)
  /\ \A j \in 1 .. Len(s) :
       j <= Cut(s, k - 1) \/ j >= Cut(s, k) => buf'[j] = buf[j]

LEMMA ParseNumeral ==
  ASSUME NEW s \in Seq(Char), NEW m \in Nat, m < Count(s), AtPiece(s, m),
         IsNumeral(Pieces(s)[m + 1])
  PROVE  /\ ~Malformed
         /\ CommaAfter = IF m + 1 < Count(s) THEN Cut(s, m + 1) ELSE 0
         /\ StoreArg => Stores(s, m + 1)
<1> DEFINE n == Len(s)
           c == cur_arg
           e == Cut(s, m + 1)
           k == m + 1
<1>1. k \in 1 .. Count(s) /\ k - 1 = m /\ m \in 0 .. Count(s) /\ k \in 0 .. Count(s)
      /\ Count(s) \in Nat
  BY CutProperties
<1>2. /\ c = Cut(s, k - 1) + 1 /\ c < e /\ s[c] \in Digit \cup {MINUS}
      /\ \A j \in c .. e - 1 : s[j] \in Digit \/ (j = c /\ s[j] = MINUS)
      /\ ~IsQuoted(Pieces(s)[k])
  BY <1>1, NumeralProperties DEF AtPiece
<1>3. n \in Nat /\ e \in 0 .. n + 1 /\ Cut(s, m) \in 0 .. n + 1 /\ c \in Nat /\ c >= 1
      /\ e \in Nat
  BY <1>1, CutProperties, LenProperties DEF AtPiece
<1>4. IF k < Count(s) THEN e \in 1 .. n /\ s[e] = COMMA ELSE e = n + 1
  <2>1. CASE k < Count(s)
    <3>1. k \in 1 .. Count(s) - 1
      BY <1>1, <2>1
    <3> QED BY <2>1, <3>1, CutProperties
  <2>2. CASE ~(k < Count(s))
    <3>1. k = Count(s)
      BY <1>1, <2>2
    <3> QED BY <2>2, <3>1, CutProperties
  <2> QED BY <2>1, <2>2
<1>5. /\ buf \in Seq(Char) /\ Len(buf) = n /\ \A j \in c .. n : buf[j] = s[j]
  BY DEF AtPiece
<1>6. COMMA \notin Digit \cup {MINUS} /\ QUOTE \notin Digit \cup {MINUS}
  BY ArgsAssumption DEF COMMA, QUOTE, MINUS
<1> HIDE DEF n, c, e, k
<1>7. \A j \in c .. e - 1 : buf[j] = s[j] /\ j \in c .. n
  BY <1>3, <1>5
<1>8. c \in 1 .. n /\ c \in c .. e - 1
  BY <1>2, <1>3
<1>9. IsNumber /\ ~IsString /\ ~Malformed
  <2>1. ~AtEnd
    BY <1>3, <1>5, <1>8 DEF AtEnd, c
  <2>2. buf[c] = s[c]
    BY <1>7, <1>8
  <2> QED BY <1>2, <1>6, <2>1, <2>2 DEF IsNumber, IsString, Malformed, c
<1>10. CommaAfter = IF k < Count(s) THEN e ELSE 0
  <2> DEFINE w == Strchr(buf, c, COMMA)
  <2>1. CommaAfter = w
    BY <1>9 DEF CommaAfter, c
  <2>2. \/ w = 0 /\ \A j \in c .. n : buf[j] # COMMA
        \/ /\ w \in c .. n /\ buf[w] = COMMA /\ \A j \in c .. w - 1 : buf[j] # COMMA
    BY <1>3, <1>5, StrchrProperties
  <2> HIDE DEF w
  <2>3. \A j \in c .. e - 1 : buf[j] # COMMA
    BY <1>2, <1>6, <1>7
  <2>4. CASE k < Count(s)
    <3>1. e \in c .. n /\ buf[e] = COMMA
      BY <1>2, <1>3, <1>4, <1>5, <2>4
    <3>2. w \in c .. n /\ buf[w] = COMMA /\ \A j \in c .. w - 1 : buf[j] # COMMA
      BY <2>2, <3>1
    <3>3. ~(w \in c .. e - 1) /\ ~(e \in c .. w - 1)
      BY <2>3, <3>1, <3>2
    <3>4. w = e
      BY <1>3, <3>1, <3>2, <3>3
    <3> QED BY <2>1, <2>4, <3>4
  <2>5. CASE ~(k < Count(s))
    <3>1. c .. e - 1 = c .. n
      BY <1>3, <1>4, <2>5
    <3> QED BY <2>1, <2>2, <2>3, <2>5, <3>1
  <2> QED BY <2>4, <2>5
<1>11. Number(buf, c) = Pieces(s)[k]
  <2>1. PICK f \in c - 1 .. n :
          /\ Number(buf, c) = SubSeq(buf, c, f)
          /\ \A j \in c .. f : buf[j] \in Digit \/ (j = c /\ buf[j] = MINUS)
          /\ f < n => buf[f + 1] \notin Digit /\ ~(f + 1 = c /\ buf[f + 1] = MINUS)
    <3>1. c \in 1 .. Len(buf) /\ buf \in Seq(Char)
      BY <1>5, <1>8
    <3>2. \E f \in c - 1 .. Len(buf) :
            /\ Number(buf, c) = SubSeq(buf, c, f) /\ Number(buf, c) \in Seq(Char)
            /\ \A j \in c .. f : buf[j] \in Digit \/ (j = c /\ buf[j] = MINUS)
            /\ f < Len(buf) => buf[f + 1] \notin Digit /\ ~(f + 1 = c /\ buf[f + 1] = MINUS)
      BY <3>1, NumberProperties
    <3> QED BY <1>5, <3>2
  <2>2. ~(f >= e)
    <3> SUFFICES ASSUME f >= e PROVE FALSE
      OBVIOUS
    <3>1. e \in c .. f /\ e # c /\ e <= n
      BY <1>2, <1>3, <2>1
    <3>2. buf[e] = COMMA
      BY <1>3, <1>4, <1>5, <3>1
    <3> QED BY <1>6, <2>1, <3>1, <3>2
  <2>3. ~(f < e - 1)
    <3> SUFFICES ASSUME f < e - 1 PROVE FALSE
      OBVIOUS
    <3>1. f + 1 \in c .. e - 1 /\ f < n
      BY <1>3, <2>1
    <3>2. s[f + 1] \in Digit \/ (f + 1 = c /\ s[f + 1] = MINUS)
      BY <1>2, <3>1
    <3> QED BY <1>7, <2>1, <3>1, <3>2
  <2>4. f = e - 1
    BY <1>3, <2>1, <2>2, <2>3
  <2>5. SubSeq(buf, c, e - 1) = SubSeq(s, c, e - 1)
    <3>1. e - 1 \in Int /\ e - 1 <= n
      BY <1>3
    <3> QED BY <1>3, <1>5, <1>7, <3>1, SameParts DEF n
  <2>6. Pieces(s)[k] = SubSeq(s, c, e - 1)
    BY <1>1, <1>2, PieceProperties DEF e, k
  <2> QED BY <2>1, <2>4, <2>5, <2>6
<1>12. ASSUME StoreArg PROVE Stores(s, k)
  <2>1. args' = Append(args, [number |-> Pieces(s)[k]]) /\ buf' = buf
    BY <1>9, <1>11, <1>12 DEF StoreArg, c
  <2> QED BY <1>2, <2>1 DEF Stores, ArgIs
<1> QED BY <1>9, <1>10, <1>12 DEF k, e

LEMMA ParseQuoted ==
  ASSUME NEW s \in Seq(Char), NEW m \in Nat, m < Count(s), AtPiece(s, m),
         IsQuoted(Pieces(s)[m + 1])
  PROVE  /\ ~Malformed
         /\ CommaAfter = IF m + 1 < Count(s) THEN Cut(s, m + 1) ELSE 0
         /\ StoreArg => Stores(s, m + 1)
<1> DEFINE n == Len(s)
           c == cur_arg
           e == Cut(s, m + 1)
           k == m + 1
<1>1. k \in 1 .. Count(s) /\ k - 1 = m /\ m \in 0 .. Count(s) /\ k \in 0 .. Count(s)
      /\ Count(s) \in Nat
  BY CutProperties
<1>2. /\ c = Cut(s, k - 1) + 1 /\ Cut(s, k - 1) + 2 < e
      /\ s[c] = QUOTE /\ s[e - 1] = QUOTE
      /\ \A j \in Cut(s, k - 1) + 2 .. e - 2 : s[j] # QUOTE
  BY <1>1, QuotedProperties DEF AtPiece
<1>3. n \in Nat /\ e \in 0 .. n + 1 /\ Cut(s, k - 1) \in 0 .. n + 1 /\ c \in Nat /\ c >= 1
      /\ e \in Nat /\ Cut(s, k - 1) + 2 = c + 1
  BY <1>1, CutProperties, LenProperties DEF AtPiece
<1>4. IF k < Count(s) THEN e \in 1 .. n /\ s[e] = COMMA ELSE e = n + 1
  <2>1. CASE k < Count(s)
    <3>1. k \in 1 .. Count(s) - 1
      BY <1>1, <2>1
    <3> QED BY <2>1, <3>1, CutProperties
  <2>2. CASE ~(k < Count(s))
    <3>1. k = Count(s)
      BY <1>1, <2>2
    <3> QED BY <2>2, <3>1, CutProperties
  <2> QED BY <2>1, <2>2
<1>5. /\ buf \in Seq(Char) /\ Len(buf) = n /\ \A j \in c .. n : buf[j] = s[j]
  BY DEF AtPiece
<1>6. QUOTE \notin Digit \cup {MINUS}
  BY ArgsAssumption DEF QUOTE, MINUS
<1> HIDE DEF n, c, e, k
<1>7. \A j \in c .. e - 1 : buf[j] = s[j] /\ j \in c .. n
  BY <1>3, <1>5
<1>8. c \in 1 .. n /\ c \in c .. e - 1 /\ e - 1 \in c + 1 .. n /\ e - 1 \in c .. e - 1
  BY <1>2, <1>3
<1>9. ClosedBy = e - 1
  <2> DEFINE w == Strchr(buf, c + 1, QUOTE)
  <2>1. ClosedBy = w
    BY DEF ClosedBy, c
  <2>2. \/ w = 0 /\ \A j \in c + 1 .. n : buf[j] # QUOTE
        \/ /\ w \in c + 1 .. n /\ buf[w] = QUOTE /\ \A j \in c + 1 .. w - 1 : buf[j] # QUOTE
    <3>1. c + 1 \in Nat /\ c + 1 > 0
      BY <1>3
    <3> QED BY <1>5, <3>1, StrchrProperties
  <2> HIDE DEF w
  <2>3. buf[e - 1] = QUOTE
    BY <1>2, <1>7, <1>8
  <2>4. w \in c + 1 .. n /\ buf[w] = QUOTE /\ \A j \in c + 1 .. w - 1 : buf[j] # QUOTE
    BY <1>8, <2>2, <2>3
  <2>5. ~(e - 1 \in c + 1 .. w - 1)
    BY <2>3, <2>4
  <2>6. ~(w \in c + 1 .. e - 2)
    <3> SUFFICES ASSUME w \in c + 1 .. e - 2 PROVE FALSE
      OBVIOUS
    <3>1. w \in c .. e - 1 /\ w \in Cut(s, k - 1) + 2 .. e - 2
      BY <1>3
    <3> QED BY <1>2, <1>7, <2>4, <3>1
  <2>7. w = e - 1
    BY <1>3, <1>8, <2>4, <2>5, <2>6
  <2> QED BY <2>1, <2>7
<1>10. IsString /\ ~IsNumber /\ ~Malformed
  <2>1. ~AtEnd
    BY <1>3, <1>5, <1>8 DEF AtEnd, c
  <2>2. buf[c] = QUOTE
    BY <1>2, <1>7, <1>8
  <2>3. ClosedBy # 0
    BY <1>3, <1>8, <1>9
  <2> QED BY <1>6, <2>1, <2>2, <2>3 DEF IsNumber, IsString, Malformed, c
<1>11. CommaAfter = IF k < Count(s) THEN e ELSE 0
  <2> DEFINE w == Strchr(buf, e, COMMA)
  <2>1. CommaAfter = w
    <3>1. (e - 1) + 1 = e
      BY <1>3
    <3> QED BY <1>9, <1>10, <3>1 DEF CommaAfter
  <2>2. \/ w = 0 /\ \A j \in e .. n : buf[j] # COMMA
        \/ /\ w \in e .. n /\ buf[w] = COMMA /\ \A j \in e .. w - 1 : buf[j] # COMMA
    <3>1. e > 0
      BY <1>2, <1>3
    <3> QED BY <1>3, <1>5, <3>1, StrchrProperties
  <2> HIDE DEF w
  <2>3. CASE k < Count(s)
    <3>1. e \in e .. n /\ buf[e] = COMMA
      BY <1>2, <1>3, <1>4, <1>5, <2>3
    <3>2. w \in e .. n /\ \A j \in e .. w - 1 : buf[j] # COMMA
      BY <2>2, <3>1
    <3>3. ~(e \in e .. w - 1)
      BY <3>1, <3>2
    <3>4. w = e
      BY <1>3, <3>2, <3>3
    <3> QED BY <2>1, <2>3, <3>4
  <2>4. CASE ~(k < Count(s))
    <3>1. e .. n = {}
      BY <1>3, <1>4, <2>4
    <3> QED BY <2>1, <2>2, <2>4, <3>1
  <2> QED BY <2>3, <2>4
<1>12. ASSUME StoreArg PROVE Stores(s, k)
  <2>1. args' = Append(args, [string |-> c + 1]) /\ buf' = [buf EXCEPT ![e - 1] = END]
    BY <1>9, <1>10, <1>12 DEF StoreArg, c
  <2>2. END \in Char /\ e - 1 \in 1 .. Len(buf)
    BY <1>3, <1>5, <1>8 DEF Char
  <2>3. \A j \in 1 .. n : buf'[j] = IF j = e - 1 THEN END ELSE buf[j]
    BY <1>5, <2>1, <2>2, ExceptSeq
  <2>4. buf'[e - 1] = END
    BY <1>5, <2>2, <2>3
  <2>5. ASSUME NEW j \in Cut(s, k - 1) + 2 .. e - 2 PROVE buf'[j] = s[j]
    <3>1. j \in 1 .. n /\ j # e - 1 /\ j \in c .. e - 1
      BY <1>3, <1>8
    <3> QED BY <1>7, <2>3, <3>1
  <2>6. ASSUME NEW j \in 1 .. n, j <= Cut(s, k - 1) \/ j >= e PROVE buf'[j] = buf[j]
    <3>1. j # e - 1
      BY <1>2, <1>3, <2>6
    <3> QED BY <2>3, <3>1
  <2>7. ArgIs(s, k, buf', [string |-> c + 1])
    <3>1. IsQuoted(Pieces(s)[k])
      BY DEF k
    <3>2. [string |-> c + 1] = [string |-> Cut(s, k - 1) + 2]
      BY <1>3
    <3>3. Cut(s, k) = e
      BY DEF e, k
    <3> HIDE DEF Cut, Pieces, IsQuoted
    <3> QED BY <2>4, <2>5, <3>1, <3>2, <3>3 DEF ArgIs
  <2>8. \A j \in 1 .. Len(s) : j <= Cut(s, k - 1) \/ j >= Cut(s, k) => buf'[j] = buf[j]
    BY <2>6 DEF n, e, k
  <2> QED BY <2>1, <2>7, <2>8 DEF Stores
<1> QED BY <1>10, <1>11, <1>12 DEF k, e

\* The arguments so far are the first pieces.
Kept(s) ==
  /\ Len(buf) = Len(s)
  /\ \A k \in 1 .. Len(args) : ArgIs(s, k, buf, args[k])

LEMMA PieceIsStored ==
  ASSUME NEW s \in Seq(Char), Good(s), AtPiece(s, Len(args)), Len(args) < Count(s),
         NEW S, args \in Seq(S), args' \in Seq(S), Kept(s), StoreArg, Len(buf') = Len(buf)
  PROVE  /\ Kept(s)' /\ Len(args') = Len(args) + 1
         /\ \A j \in 1 .. Len(s) : j >= Cut(s, Len(args) + 1) => buf'[j] = buf[j]
<1> DEFINE m == Len(args)
           n == Len(s)
<1>1. m \in Nat /\ n \in Nat /\ Count(s) \in Nat
  BY LenProperties, CutProperties
<1>2. m + 1 \in 1 .. Count(s) /\ m \in 0 .. Count(s) /\ (m + 1) - 1 = m
  BY <1>1
<1>3. Stores(s, m + 1)
  <2>1. IsNumeral(Pieces(s)[m + 1]) \/ IsQuoted(Pieces(s)[m + 1])
    BY <1>2 DEF Good
  <2> QED BY <1>1, <2>1, ParseNumeral, ParseQuoted
<1>4. PICK a : args' = Append(args, a) /\ ArgIs(s, m + 1, buf', a)
  BY <1>3 DEF Stores
<1>5. \A j \in 1 .. n : j <= Cut(s, m) \/ j >= Cut(s, m + 1) => buf'[j] = buf[j]
  BY <1>2, <1>3 DEF Stores
<1>6. Len(args') = m + 1 /\ args'[m + 1] = a /\ \A k \in 1 .. m : args'[k] = args[k]
  BY <1>4
<1> HIDE DEF m, n
<1>7. ASSUME NEW k \in 1 .. m PROVE ArgIs(s, k, buf', args[k])
  <2>1. k \in 1 .. Count(s) /\ k \in 0 .. Count(s) /\ k - 1 \in 0 .. Count(s) /\ k <= m
    BY <1>1, <1>2
  <2>2. Cut(s, k) <= Cut(s, m) /\ Cut(s, m) \in 0 .. n + 1 /\ Cut(s, k) \in 0 .. n + 1
        /\ Cut(s, k - 1) \in 0 .. n + 1
    BY <1>2, <2>1, CutProperties DEF n
  <2>3. ArgIs(s, k, buf, args[k])
    BY DEF Kept, m
  <2>4. CASE IsQuoted(Pieces(s)[k])
    <3>1. Cut(s, k - 1) + 2 < Cut(s, k)
      BY <2>1, <2>4, QuotedProperties
    <3>2. \A j \in Cut(s, k - 1) + 2 .. Cut(s, k) - 1 : j \in 1 .. n /\ j <= Cut(s, m)
      BY <1>1, <2>2
    <3>3. \A j \in Cut(s, k - 1) + 2 .. Cut(s, k) - 1 : buf'[j] = buf[j]
      BY <1>5, <3>2
    <3>4. \A j \in Cut(s, k - 1) + 2 .. Cut(s, k) - 2 : j \in Cut(s, k - 1) + 2 .. Cut(s, k) - 1
      BY <2>2
    <3>5. Cut(s, k) - 1 \in Cut(s, k - 1) + 2 .. Cut(s, k) - 1
      BY <2>2, <3>1
    <3> QED BY <2>3, <2>4, <3>3, <3>4, <3>5 DEF ArgIs
  <2>5. CASE ~IsQuoted(Pieces(s)[k])
    BY <2>3, <2>5 DEF ArgIs
  <2> QED BY <2>4, <2>5
<1>8. \A k \in 1 .. m + 1 : ArgIs(s, k, buf', args'[k])
  <2>1. \A k \in 1 .. m + 1 : k \in 1 .. m \/ k = m + 1
    BY <1>1
  <2> QED BY <1>4, <1>6, <1>7, <2>1
<1>9. Len(buf') = n
  BY DEF AtPiece, n
<1>10. Kept(s)'
  BY <1>6, <1>8, <1>9 DEF Kept, n
<1> QED BY <1>5, <1>6, <1>10 DEF m, n

\* A string is read up to its end, and is what was between the quotes.
LEMMA StringIsPiece ==
  ASSUME NEW s \in Seq(Char), \A j \in 1 .. Len(s) : s[j] # END,
         NEW text \in Seq(Char), Len(text) = Len(s),
         NEW k \in 1 .. Count(s), NEW a, ArgIs(s, k, text, a), IsQuoted(Pieces(s)[k])
  PROVE  /\ a = [string |-> Cut(s, k - 1) + 2]
         /\ String(text, Cut(s, k - 1) + 2)
              = SubSeq(Pieces(s)[k], 2, Len(Pieces(s)[k]) - 1)
<1> DEFINE n == Len(s)
           b == Cut(s, k - 1)
           e == Cut(s, k)
           p == Pieces(s)[k]
           i == b + 2
           l == e - b - 1
<1>1. k \in 0 .. Count(s) /\ k - 1 \in 0 .. Count(s) /\ n \in Nat
  BY CutProperties, LenProperties
<1>2. b \in 0 .. n + 1 /\ e \in 0 .. n + 1 /\ b + 2 < e
  BY <1>1, CutProperties, QuotedProperties
<1>3. /\ p \in Seq(Char) /\ Len(p) = l /\ \A x \in 1 .. l : p[x] = s[b + x]
  BY PieceProperties
<1>4. a = [string |-> i] /\ text[e - 1] = END /\ \A j \in i .. e - 2 : text[j] = s[j]
  BY DEF ArgIs
<1> HIDE DEF n, b, e, p
<1>5. b \in Nat /\ e \in Nat /\ i \in Nat /\ i > 0 /\ l \in Nat /\ l >= 2
  BY <1>1, <1>2
<1> HIDE DEF i, l
<1>6. Strchr(text, i, END) = e - 1
  <2> DEFINE w == Strchr(text, i, END)
  <2>1. \/ w = 0 /\ \A j \in i .. n : text[j] # END
        \/ /\ w \in i .. n /\ text[w] = END /\ \A j \in i .. w - 1 : text[j] # END
    BY <1>5, StrchrProperties DEF n
  <2> HIDE DEF w
  <2>2. e - 1 \in i .. n
    BY <1>1, <1>2, <1>5 DEF i
  <2>3. w \in i .. n /\ text[w] = END /\ \A j \in i .. w - 1 : text[j] # END
    BY <1>4, <2>1, <2>2
  <2>4. ~(e - 1 \in i .. w - 1)
    BY <1>4, <2>3
  <2>5. ~(w \in i .. e - 2)
    <3> SUFFICES ASSUME w \in i .. e - 2 PROVE FALSE
      OBVIOUS
    <3>1. w \in 1 .. n
      BY <1>1, <1>5, <2>3
    <3> QED BY <1>4, <2>3, <3>1 DEF n
  <2>6. w = e - 1
    BY <1>1, <1>5, <2>2, <2>3, <2>4, <2>5
  <2> QED BY <2>6 DEF w
<1>7. String(text, i) = SubSeq(text, i, e - 2)
  <2>1. e - 1 # 0 /\ (e - 1) - 1 = e - 2
    BY <1>2, <1>5
  <2> QED BY <1>6, <2>1 DEF String
<1>8. SubSeq(text, i, e - 2) = SubSeq(s, i, e - 2)
  <2>1. e - 2 \in Int /\ e - 2 <= n /\ i >= 1
    BY <1>1, <1>2, <1>5
  <2> QED BY <1>4, <1>5, <2>1, SameParts DEF n
<1>9. SubSeq(s, i, e - 2) = SubSeq(p, 2, l - 1)
  <2> DEFINE f == e - 2
             g == l - 1
             x == SubSeq(s, i, f)
             y == SubSeq(p, 2, g)
  <2>1. f \in Int /\ g \in Int /\ f - i + 1 = l - 2 /\ g - 2 + 1 = l - 2
        /\ (i <= f <=> l > 2) /\ (2 <= g <=> l > 2)
    BY <1>2, <1>5 DEF i, l
  <2>2. \A j \in i .. f : s[j] \in Char
    <3>1. \A j \in i .. f : j \in 1 .. n
      BY <1>1, <1>2, <1>5
    <3> QED BY <3>1, ElementOfSeq DEF n
  <2>3. \A j \in 2 .. g : p[j] \in Char
    <3>1. \A j \in 2 .. g : j \in 1 .. l
      BY <1>5
    <3> QED BY <1>3, <3>1, ElementOfSeq
  <2> HIDE DEF f, g
  <2>4. x \in Seq(Char) /\ Len(x) = (IF i <= f THEN f - i + 1 ELSE 0)
        /\ \A j \in 1 .. f - i + 1 : x[j] = s[i + j - 1]
    BY <1>5, <2>1, <2>2, SubSeqProperties
  <2>5. y \in Seq(Char) /\ Len(y) = (IF 2 <= g THEN g - 2 + 1 ELSE 0)
        /\ \A j \in 1 .. g - 2 + 1 : y[j] = p[2 + j - 1]
    BY <2>1, <2>3, SubSeqProperties
  <2> HIDE DEF x, y
  <2>6. Len(x) = l - 2 /\ Len(y) = l - 2
    BY <1>5, <2>1, <2>4, <2>5
  <2>7. ASSUME NEW j \in 1 .. l - 2 PROVE x[j] = y[j]
    <3>1. 2 + j - 1 \in 1 .. l /\ b + (2 + j - 1) = i + j - 1
      BY <1>5 DEF i
    <3>2. p[2 + j - 1] = s[i + j - 1]
      BY <1>3, <3>1
    <3> QED BY <2>1, <2>4, <2>5, <3>2
  <2>8. x = y
    BY <2>4, <2>5, <2>6, <2>7, SeqEqual
  <2> QED BY <2>8 DEF x, y, f, g
<1>10. String(text, i) = SubSeq(p, 2, l - 1)
  BY <1>7, <1>8, <1>9
<1> QED BY <1>3, <1>4, <1>10 DEF i, b, p

\* What is kept reads as what was typed.
LEMMA KeptIsTyped ==
  ASSUME NEW s \in Seq(Char), \A j \in 1 .. Len(s) : s[j] # END, Good(s),
         buf \in Seq(Char), NEW S, args \in Seq(S), Kept(s),
         NEW n \in Nat, n <= Count(s), Len(args) = n
  PROVE  Passed = [i \in 1 .. n |->
                     IF IsQuoted(Pieces(s)[i])
                     THEN SubSeq(Pieces(s)[i], 2, Len(Pieces(s)[i]) - 1)
                     ELSE Pieces(s)[i]]
<1>1. DOMAIN args = 1 .. n
  BY LenProperties
<1>2. ASSUME NEW i \in 1 .. n
      PROVE  (IF "number" \in DOMAIN args[i]
              THEN args[i].number ELSE String(buf, args[i].string))
             = IF IsQuoted(Pieces(s)[i])
               THEN SubSeq(Pieces(s)[i], 2, Len(Pieces(s)[i]) - 1)
               ELSE Pieces(s)[i]
  <2>1. i \in 1 .. Count(s) /\ ArgIs(s, i, buf, args[i]) /\ Len(buf) = Len(s)
    BY CutProperties DEF Kept
  <2>2. CASE IsQuoted(Pieces(s)[i])
    <3>1. /\ args[i] = [string |-> Cut(s, i - 1) + 2]
          /\ String(buf, Cut(s, i - 1) + 2)
               = SubSeq(Pieces(s)[i], 2, Len(Pieces(s)[i]) - 1)
      BY <2>1, <2>2, StringIsPiece
    <3> DEFINE c == Cut(s, i - 1) + 2
    <3> HIDE DEF c
    <3>2. args[i] = [string |-> c]
      BY <3>1 DEF c
    <3>3. "number" \notin DOMAIN args[i] /\ args[i].string = c
      BY <3>2
    <3> QED BY <2>2, <3>1, <3>3 DEF c
  <2>3. CASE ~IsQuoted(Pieces(s)[i])
    <3> DEFINE p == Pieces(s)[i]
    <3>1. args[i] = [number |-> p]
      BY <2>1, <2>3 DEF ArgIs
    <3> HIDE DEF p
    <3>2. "number" \in DOMAIN args[i] /\ args[i].number = p
      BY <3>1
    <3> QED BY <2>3, <3>2 DEF p
  <2> QED BY <2>2, <2>3
<1> QED BY <1>1, <1>2 DEF Passed

-----------------------------------------------------------------------------
(* The call *)

\* Where an argument ends depends on what the text is, and not on the other
\* arguments.
LEMMA PieceIsRead ==
  ASSUME NEW s \in Seq(Char), NEW m \in Nat, m < Count(s), AtPiece(s, m), Good(s)
  PROVE  /\ ~Malformed
         /\ CommaAfter = IF m + 1 < Count(s) THEN Cut(s, m + 1) ELSE 0
<1>1. m + 1 \in 1 .. Count(s)
  BY CutProperties
<1>2. IsNumeral(Pieces(s)[m + 1]) \/ IsQuoted(Pieces(s)[m + 1])
  BY <1>1 DEF Good
<1> QED BY <1>2, ParseNumeral, ParseQuoted

\* The parser has kept the pieces before the one it is at.
Reading(s) ==
  Len(args) < Count(s) /\ AtPiece(s, Len(args)) /\ Kept(s)

\* All of them are kept, or as many as there are places for.
ReadUp(s) ==
  Kept(s) /\ Len(args) <= Count(s) /\ Len(args) \in {Count(s), MaxArg}

ParsedInv ==
  /\ pc \notin {"parsing", "calling", "refused", "lost"} => args = <<>>
  /\ pc = "parsing" =>
       /\ cmd.text # <<>> /\ Closed(cmd.text) /\ Inside(cmd.text) # <<>>
       /\ Good(Inside(cmd.text)) => Reading(Inside(cmd.text))
  /\ pc = "calling" /\ cmd.text # <<>> =>
       IF Inside(cmd.text) = <<>> THEN args = <<>>
       ELSE Good(Inside(cmd.text)) => ReadUp(Inside(cmd.text))
  /\ pc = "refused" /\ (cmd.text = <<>> \/ WellFormed(cmd.text)) => answer = NotFound

\* The text of a command that is closed has no terminator in it.
LEMMA InsideFacts ==
  ASSUME NEW c \in Commands, c.text # <<>>, Closed(c.text)
  PROVE  /\ Inside(c.text) \in Seq(Char)
         /\ \A j \in 1 .. Len(Inside(c.text)) : Inside(c.text)[j] # END
<1> DEFINE x == c.text
<1>1. x \in Seq(Char) /\ END \notin Range(x)
  BY CommandFacts, CommandAssumption
<1>2. x # <<>> /\ Closed(x)
  OBVIOUS
<1> HIDE DEF x
<1>3. \A j \in 1 .. Len(x) : x[j] # END
  BY <1>1, LenProperties DEF Range
<1>4. PICK k \in 2 .. Len(x) :
        /\ Inside(x) \in Seq(Char) /\ Len(Inside(x)) = k - 2
        /\ \A j \in 1 .. k - 2 : Inside(x)[j] = x[j + 1]
  BY <1>1, <1>2, InsideProperties
<1>5. \A j \in 1 .. k - 2 : j + 1 \in 1 .. Len(x)
  BY <1>1, LenProperties
<1>6. \A j \in 1 .. Len(Inside(x)) : Inside(x)[j] # END
  BY <1>3, <1>4, <1>5
<1> QED BY <1>4, <1>6 DEF x

LEMMA WellFormedFacts ==
  ASSUME NEW text, WellFormed(text)
  PROVE  Closed(text) /\ (Inside(text) = <<>> \/ Good(Inside(text)))
<1> DEFINE s == Inside(text)
<1>1. Closed(text)
  BY DEF WellFormed
<1>2. \/ s = <<>>
      \/ \A i \in DOMAIN Pieces(s) : IsNumeral(Pieces(s)[i]) \/ IsQuoted(Pieces(s)[i])
  BY DEF WellFormed
<1> HIDE DEF s
<1>3. DOMAIN Pieces(s) = 1 .. Count(s)
  BY DEF Pieces, Count
<1>4. s = <<>> \/ Good(s)
  BY <1>2, <1>3 DEF Good
<1> QED BY <1>1, <1>4 DEF s

LEMMA InitParsed == Init => ParsedInv
BY DEF Init, ArgsInit, ParsedInv

\* The parser begins at the first piece.
LEMMA FoundParsed == SessionInv /\ ParsedInv /\ Found => ParsedInv'
<1> SUFFICES ASSUME SessionInv, ParsedInv, Found PROVE ParsedInv'
  OBVIOUS
<1>1. cmd' = cmd /\ cmd \in Commands /\ args = <<>>
  BY DEF Found, SessionInv, ParsedInv
<1>2. CASE /\ pc' = "refused"
           /\ answer' = NotFound \/ (cmd.text # <<>> /\ ~Closed(cmd.text))
  BY <1>1, <1>2, WellFormedFacts DEF ParsedInv
<1>3. CASE /\ pc' = "calling" /\ UNCHANGED avars
           /\ cmd.text = <<>> \/ Inside(cmd.text) = <<>>
  BY <1>1, <1>3 DEF ParsedInv, avars
<1>4. CASE /\ pc' = "parsing" /\ cmd.text # <<>> /\ Closed(cmd.text)
           /\ Inside(cmd.text) # <<>>
           /\ buf' = Inside(cmd.text) /\ cur_arg' = 1 /\ args' = <<>>
  <2>1. PICK s : s = Inside(cmd.text)
    OBVIOUS
  <2>2. s \in Seq(Char)
    BY <1>1, <1>4, <2>1, InsideFacts
  <2>3. Len(args') = 0 /\ Len(args') \in Nat
    BY <1>4
  <2>4. Cut(s, 0) = 0 /\ Count(s) \in Nat /\ Count(s) >= 1
    BY <2>2, CutProperties
  <2>5. AtPiece(s, 0)'
    BY <1>4, <2>1, <2>2, <2>4 DEF AtPiece
  <2>6. Kept(s)'
    BY <1>4, <2>1, <2>3 DEF Kept
  <2>7. Reading(s)'
    <3>1. Len(args') < Count(s)
      BY <2>3, <2>4
    <3> QED BY <2>3, <2>5, <2>6, <3>1 DEF Reading
  <2>8. Reading(Inside(cmd.text))'
    BY <1>1, <2>1, <2>7
  <2> QED BY <1>1, <1>4, <2>8 DEF ParsedInv
<1> QED BY <1>2, <1>3, <1>4 DEF Found

LEMMA NextArgParsed ==
  ASSUME NEW s \in Seq(Char), Good(s), Reading(s), ArgsInv, NextArg
  PROVE  Reading(s)'
<1>0. PICK m : m = Len(args)
  OBVIOUS
<1> DEFINE n == Len(s)
           e == Cut(s, m + 1)
<1>1. m \in Nat /\ m < Count(s) /\ Count(s) \in Nat /\ n \in Nat
  BY <1>0, LenProperties, CutProperties DEF Reading, ArgsInv
<1>2. CommaAfter = IF m + 1 < Count(s) THEN e ELSE 0
  BY <1>0, <1>1, PieceIsRead DEF Reading
<1>3. /\ buf' \in Seq(Char) /\ Len(buf') = Len(buf) /\ args' \in Seq(Arg(Len(buf)))
      /\ args \in Seq(Arg(Len(buf)))
  BY StoreArgKeeps DEF NextArg, ArgsInv
<1>4. /\ Kept(s)' /\ Len(args') = m + 1
      /\ \A j \in 1 .. n : j >= e => buf'[j] = buf[j]
  BY <1>0, <1>3, PieceIsStored DEF NextArg, Reading
<1>5. m + 1 < Count(s) /\ cur_arg' = e + 1
  BY <1>2 DEF NextArg, MoreArgs
<1>6. Cut(s, m) < e /\ Cut(s, m) \in 0 .. n + 1 /\ e \in 0 .. n + 1
  <2>1. m + 1 \in 1 .. Count(s) /\ m \in 0 .. Count(s) /\ m + 1 \in 0 .. Count(s)
        /\ (m + 1) - 1 = m
    BY <1>1
  <2>2. Cut(s, (m + 1) - 1) < Cut(s, m + 1)
    BY <2>1, CutProperties
  <2> QED BY <2>1, <2>2, CutProperties
<1>7. /\ Len(buf) = n /\ cur_arg = Cut(s, m) + 1 /\ \A j \in cur_arg .. n : buf[j] = s[j]
  BY <1>0 DEF Reading, AtPiece
<1>8. AtPiece(s, m + 1)'
  <2> HIDE DEF n
  <2>1. ASSUME NEW j \in e + 1 .. n PROVE buf'[j] = s[j]
    <3> HIDE DEF e
    <3>1. j \in 1 .. n /\ j >= e /\ j \in cur_arg .. n
      BY <1>1, <1>6, <1>7
    <3> QED BY <1>4, <1>7, <3>1
  <2> QED BY <1>3, <1>5, <1>7, <2>1 DEF AtPiece, n
<1> HIDE DEF e
<1> QED BY <1>4, <1>5, <1>8 DEF Reading

LEMMA LastArgParsed ==
  ASSUME NEW s \in Seq(Char), Good(s), Reading(s), ArgsInv, Len(args) < MaxArg, LastArg
  PROVE  ReadUp(s)'
<1> DEFINE m == Len(args)
           e == Cut(s, m + 1)
<1>1. m \in Nat /\ m < Count(s) /\ Count(s) \in Nat /\ MaxArg \in Nat /\ m < MaxArg
  BY LenProperties, CutProperties, ArgsAssumption DEF Reading, ArgsInv
<1>2. CommaAfter = IF m + 1 < Count(s) THEN e ELSE 0
  BY <1>1, PieceIsRead DEF Reading
<1>3. /\ args' \in Seq(Arg(Len(buf))) /\ args \in Seq(Arg(Len(buf))) /\ Len(buf') = Len(buf)
  BY StoreArgKeeps DEF LastArg, ArgsInv
<1>4. Kept(s)' /\ Len(args') = m + 1
  BY <1>3, PieceIsStored DEF LastArg, Reading
<1>5. m + 1 = Count(s) \/ m + 1 = MaxArg
  <2>1. CommaAfter = 0 \/ ~(m + 1 < MaxArg)
    BY DEF LastArg, MoreArgs
  <2> HIDE DEF m
  <2>2. m + 1 < Count(s) => e # 0
    <3>1. m + 1 < Count(s) => m + 1 \in 1 .. Count(s) - 1
      BY <1>1
    <3> QED BY <3>1, CutProperties, LenProperties
  <2> HIDE DEF e
  <2> QED BY <1>1, <1>2, <2>1, <2>2
<1> HIDE DEF m, e
<1>6. m + 1 <= Count(s)
  BY <1>1
<1> QED BY <1>4, <1>5, <1>6 DEF ReadUp

LEMMA ParseParsed == SessionInv /\ ParsedInv /\ Parse => ParsedInv'
<1> SUFFICES ASSUME SessionInv, ParsedInv, Parse PROVE ParsedInv'
  OBVIOUS
<1>1. PICK s : s = Inside(cmd.text)
  OBVIOUS
<1>2. /\ cmd' = cmd /\ answer' = answer /\ cmd \in Commands /\ ArgsInv /\ Len(args) < MaxArg
      /\ cmd.text # <<>> /\ Closed(cmd.text) /\ s # <<>>
      /\ Good(s) => Reading(s)
  BY <1>1 DEF Parse, SessionInv, ParsedInv, ArgsInv, mvars
<1>3. s \in Seq(Char)
  BY <1>1, <1>2, InsideFacts
<1>4. s = Inside(cmd.text)'
  BY <1>1, <1>2
<1>5. CASE NextArg /\ pc' = "parsing"
  <2>1. Good(s) => Reading(s)'
    BY <1>2, <1>3, <1>5, NextArgParsed
  <2> QED BY <1>1, <1>2, <1>4, <1>5, <2>1 DEF ParsedInv
<1>6. CASE LastArg /\ pc' = "calling"
  <2>1. Good(s) => ReadUp(s)'
    BY <1>2, <1>3, <1>6, LastArgParsed
  <2> QED BY <1>1, <1>2, <1>4, <1>6, <2>1 DEF ParsedInv
<1>7. CASE Malformed /\ pc' = "refused"
  <2>1. ~Good(s)
    <3> SUFFICES ASSUME Good(s) PROVE FALSE
      OBVIOUS
    <3>1. Len(args) \in Nat
      BY <1>2, LenProperties DEF ArgsInv
    <3> QED BY <1>2, <1>3, <1>7, <3>1, PieceIsRead DEF Reading
  <2>2. ~WellFormed(cmd.text)
    BY <1>1, <1>2, <2>1, WellFormedFacts
  <2> QED BY <1>2, <1>7, <2>2 DEF ParsedInv
<1> QED BY <1>5, <1>6, <1>7 DEF Parse

LEMMA NextParsed == SessionInv /\ ParsedInv /\ [Next]_vars => ParsedInv'
<1> SUFFICES ASSUME SessionInv, ParsedInv, [Next]_vars PROVE ParsedInv'
  OBVIOUS
<1>1. CASE Finish
  BY <1>1 DEF Finish, ParsedInv
<1>2. CASE UNCHANGED <<avars, cmd, answer, pc>>
  BY <1>2 DEF ParsedInv, Reading, ReadUp, AtPiece, Kept, ArgIs, avars
<1>3. CASE Write \/ Walk \/ Process \/ UNCHANGED vars
  BY <1>2, <1>3 DEF Write, Walk, Pass, Process, mvars, lookup, vars
<1>4. CASE Negotiated \/ Prompted \/ Enter
  BY <1>4 DEF Negotiated, Prompted, Enter, ParsedInv, avars
<1>5. CASE Unknown
  BY <1>5 DEF Unknown, SessionInv, ParsedInv, mvars
<1>6. CASE pc' = "lost"
  BY <1>6 DEF ParsedInv
<1>7. CASE Found
  BY <1>7, FoundParsed
<1>8. CASE Parse
  BY <1>8, ParseParsed
<1> QED BY <1>1, <1>3, <1>4, <1>5, <1>6, <1>7, <1>8
        DEF Next, Thread, LosesItself, Call, GiveUp

LEMMA ParsedInvariance == Spec => []ParsedInv
BY InitParsed, NextParsed, SessionInvariance, PTL DEF Spec

\* Whatever is typed, as long as it is well-formed: every argument the
\* function gets is the one that was typed in its place, though the text is cut
\* where it lies and commas and parentheses may stand inside strings.
THEOREM ArgumentsAreTyped == Spec => []CalledAsTyped
<1>1. SessionInv /\ ParsedInv => CalledAsTyped
  <2> SUFFICES ASSUME SessionInv, ParsedInv, pc = "calling", cmd.text # <<>>,
                      WellFormed(cmd.text)
               PROVE  Passed = Typed(cmd.text)
    BY DEF CalledAsTyped
  <2> DEFINE s == Inside(cmd.text)
             Plainly(p) == IF IsQuoted(p) THEN SubSeq(p, 2, Len(p) - 1) ELSE p
  <2>1. cmd \in Commands /\ Closed(cmd.text) /\ (s = <<>> \/ Good(s))
    BY WellFormedFacts DEF SessionInv
  <2>2. s \in Seq(Char) /\ \A j \in 1 .. Len(s) : s[j] # END
    BY <2>1, InsideFacts
  <2>3. /\ buf \in Seq(Char) /\ args \in Seq(Arg(Len(buf))) /\ Len(args) <= MaxArg
        /\ Len(args) \in Nat /\ MaxArg \in Nat
    BY LenProperties, ArgsAssumption DEF SessionInv, ArgsInv
  <2>4. CASE s = <<>>
    <3>1. args = <<>>
      BY <2>4 DEF ParsedInv
    <3>2. Min({0, MaxArg}) = 0
      <4>1. {0, MaxArg} \in SUBSET Nat /\ {0, MaxArg} # {}
        BY <2>3
      <4>2. Min({0, MaxArg}) \in {0, MaxArg} /\ Min({0, MaxArg}) <= 0
        BY <4>1, MinOf
      <4> QED BY <2>3, <4>2
    <3>3. Typed(cmd.text) = [i \in 1 .. Min({Len(<<>>), MaxArg}) |-> Plainly(<<>>[i])]
      BY <2>4 DEF Typed
    <3>4. Len(<<>>) = 0 /\ DOMAIN <<>> = {} /\ 1 .. 0 = {}
      OBVIOUS
    <3>5. Typed(cmd.text) = [i \in {} |-> Plainly(<<>>[i])]
      BY <3>2, <3>3, <3>4
    <3>6. Passed = [i \in {} |-> IF "number" \in DOMAIN args[i]
                                 THEN args[i].number ELSE String(buf, args[i].string)]
      BY <3>1, <3>4 DEF Passed
    <3> QED BY <3>5, <3>6
  <2>5. CASE s # <<>>
    <3> DEFINE n == Len(args)
               q == Pieces(s)
    <3>1. Good(s) /\ Kept(s) /\ n <= Count(s) /\ n \in {Count(s), MaxArg}
      BY <2>1, <2>5 DEF ParsedInv, ReadUp
    <3>2. Passed = [i \in 1 .. n |-> Plainly(Pieces(s)[i])]
      BY <2>2, <2>3, <3>1, KeptIsTyped
    <3>3. Len(q) = Count(s) /\ Count(s) \in Nat
      <4>1. Count(s) \in Nat /\ DOMAIN Pieces(s) = 1 .. Count(s)
        BY <2>2, CutProperties DEF Pieces, Count
      <4> HIDE DEF s
      <4> QED BY <4>1
    <3>4. Typed(cmd.text) = [i \in 1 .. Min({Len(q), MaxArg}) |-> Plainly(q[i])]
      BY <2>5 DEF Typed
    <3>5. Min({Len(q), MaxArg}) = n
      <4> DEFINE c == Count(s)
      <4>1. {c, MaxArg} \in SUBSET Nat /\ {c, MaxArg} # {}
        BY <2>3, <3>3
      <4>2. Min({c, MaxArg}) \in {c, MaxArg} /\ Min({c, MaxArg}) <= c
            /\ Min({c, MaxArg}) <= MaxArg
        BY <4>1, MinOf
      <4>3. c \in Nat /\ n <= c /\ n \in {c, MaxArg} /\ n <= MaxArg
        BY <2>3, <3>1, <3>3
      <4> HIDE DEF c, n
      <4>4. Min({c, MaxArg}) = n
        BY <2>3, <4>2, <4>3
      <4> QED BY <3>3, <4>4 DEF c
    <3> HIDE DEF n, s, Plainly
    <3> QED BY <3>2, <3>4, <3>5
  <2> QED BY <2>4, <2>5
<1> QED BY <1>1, SessionInvariance, ParsedInvariance, PTL

\* No call that is well-formed is refused as one that is not.
THEOREM WellFormedAccepted == Spec => []WellFormedIsCalled
<1>1. ParsedInv => WellFormedIsCalled
  BY DEF ParsedInv, WellFormedIsCalled
<1> QED BY <1>1, ParsedInvariance, PTL

-----------------------------------------------------------------------------
(* The search *)

\* A file in which the name is plain, and defined, has it for get_sym_addr.
LEMMA KnownIsFound ==
  ASSUME NEW f, IsImage(f), NEW p, NEW name, name # Garbled, PlainIn(f, p, name),
         Defines(f, name) # {}
  PROVE  GetSymAddr(f, name) # NotFound
<1>1. Hits(f, name) # {} /\ ~Imports(f, name)
  BY KnownIsHit DEF PlainIn
<1>2. GetSymAddr(f, name) \in Nat
  BY <1>1, SymbolIsDefinition
<1> QED BY <1>2 DEF NotFound

\* A file that is as it was, and in which the name looked for is plain.
Fit(i) ==
  /\ so_list[i].path \notin altered
  /\ PlainIn(image[so_list[i].path], so_list[i].path, sym_name)

\* The search has passed over no file that defines the name, and has given up
\* in none that does.
SearchInv ==
  /\ \A i \in 1 .. Len(so_list) :
       i < node /\ Fit(i) => Defines(image[so_list[i].path], sym_name) = {}
  /\ pc \in {"looking", "parsing", "refused"} => node >= 1
  /\ pc = "parsing" => answer # NotFound
  /\ pc = "refused" /\ answer = NotFound /\ node <= Len(so_list) => ~Fit(node)

LEMMA InitSearch == Init => SearchInv
<1> SUFFICES ASSUME Init PROVE SearchInv
  OBVIOUS
<1>1. node = 0 /\ pc = "negotiating"
  BY DEF Init, MapInit, Idle
<1>2. \A i \in 1 .. Len(so_list) : ~(i < node)
  BY <1>1
<1> QED BY <1>1, <1>2 DEF SearchInv

LEMMA WalkSearch == SessionInv /\ SearchInv /\ Walk => SearchInv'
<1> SUFFICES ASSUME SessionInv, SearchInv, Walk PROVE SearchInv'
  OBVIOUS
<1>1. /\ so_list' = so_list /\ sym_name' = sym_name /\ image' = image
      /\ altered' = altered /\ node' = node + 1 /\ pc' = "looking"
  BY DEF Walk, Pass, process
<1>2. /\ Len(so_list) \in Nat /\ node \in 1 .. Len(so_list)
      /\ so_list[node].path \in Path
  BY ListFacts DEF Walk, Pass, SessionInv, MapInv
<1>3. Fit(node) => Defines(image[so_list[node].path], sym_name) = {}
  <2> DEFINE p == so_list[node].path
  <2> SUFFICES ASSUME Fit(node) PROVE Defines(image[p], sym_name) = {}
    OBVIOUS
  <2>1. disk[p] = image[p] /\ IsImage(image[p]) /\ sym_name # Garbled
        /\ PlainIn(image[p], p, sym_name)
    BY <1>2 DEF Fit, SessionInv, MapInv, Untouched
  <2>2. GetSymAddr(image[p], sym_name) = NotFound
    BY <2>1 DEF Walk, Pass, Here
  <2> HIDE DEF p
  <2> QED BY <2>1, <2>2, KnownIsFound
<1>4. \A i \in 1 .. Len(so_list) : i < node + 1 => i < node \/ i = node
  BY <1>2
<1>5. \A i \in 1 .. Len(so_list) :
        i < node + 1 /\ Fit(i) => Defines(image[so_list[i].path], sym_name) = {}
  BY <1>3, <1>4 DEF SearchInv
<1>6. node + 1 >= 1
  BY <1>2
<1> QED BY <1>1, <1>5, <1>6 DEF SearchInv, Fit

LEMMA FoundSearch == SessionInv /\ SearchInv /\ Found => SearchInv'
<1> SUFFICES ASSUME SessionInv, SearchInv, Found PROVE SearchInv'
  OBVIOUS
<1>1. /\ so_list' = so_list /\ sym_name' = sym_name /\ image' = image
      /\ altered' = altered /\ node' = node /\ pc = "looking"
  BY DEF Found, Find, process
<1>2. Fit(node) => answer' # NotFound
  BY FindIsPlain DEF Fit, Found, Here, SessionInv
<1>3. pc' = "parsing" => answer' # NotFound
  BY DEF Found
<1> QED BY <1>1, <1>2, <1>3 DEF SearchInv, Fit

LEMMA ProcessSearch == SessionInv /\ SearchInv /\ Process => SearchInv'
<1> SUFFICES ASSUME SessionInv, SearchInv, Process PROVE SearchInv'
  OBVIOUS
<1>1. PICK p \in Path : Dlopen(p) \/ Dlclose(p) \/ Replace(p)
  BY DEF Process
<1>2. /\ so_list' = so_list /\ sym_name' = sym_name /\ answer' = answer
      /\ altered' = altered \cup {p} /\ node' = node /\ pc' = pc
  BY <1>1 DEF Process, Dlopen, Dlclose, Replace, Alter, lookup
<1>3. \A q \in Path \ {p} : image'[q] = image[q]
  BY <1>1 DEF Dlopen, Dlclose, Replace, SessionInv, MapInv
<1>4. ASSUME NEW i \in 1 .. Len(so_list), Fit(i)'
      PROVE  Fit(i) /\ image'[so_list[i].path] = image[so_list[i].path]
  <2>1. so_list[i].path \in Path \ {p} /\ so_list[i].path \notin altered
    BY <1>2, <1>4, ListFacts DEF Fit, SessionInv, MapInv
  <2>2. image'[so_list[i].path] = image[so_list[i].path]
    BY <1>3, <2>1
  <2> QED BY <1>2, <1>4, <2>1, <2>2 DEF Fit
<1>5. pc' = "refused" /\ answer' = NotFound /\ node' <= Len(so_list') => ~Fit(node)'
  <2> SUFFICES ASSUME pc = "refused", answer = NotFound, node <= Len(so_list), Fit(node)'
               PROVE  FALSE
    BY <1>2
  <2>1. node \in 1 .. Len(so_list)
    BY ListFacts DEF SearchInv, SessionInv, MapInv
  <2>2. PICK i : i = node
    OBVIOUS
  <2>3. Fit(i)'
    BY <1>2, <2>2 DEF Fit
  <2>4. Fit(i)
    BY <1>4, <2>1, <2>2, <2>3
  <2> QED BY <2>2, <2>4 DEF SearchInv
<1>6. ASSUME NEW i \in 1 .. Len(so_list), i < node, Fit(i)'
      PROVE  Defines(image'[so_list[i].path], sym_name) = {}
  BY <1>4, <1>6 DEF SearchInv
<1> QED BY <1>2, <1>5, <1>6 DEF SearchInv

LEMMA NextSearch == SessionInv /\ SearchInv /\ [Next]_vars => SearchInv'
<1> SUFFICES ASSUME SessionInv, SearchInv, [Next]_vars PROVE SearchInv'
  OBVIOUS
<1>0. Len(so_list) \in Nat
  BY ListFacts DEF SessionInv, MapInv
<1>1. CASE Finish
  <2>1. node' = 0 /\ pc' = "prompt" /\ so_list' = so_list
    BY <1>1 DEF Finish
  <2>2. \A i \in 1 .. Len(so_list) : ~(i < 0)
    BY <1>0
  <2> QED BY <2>1, <2>2 DEF SearchInv
<1>2. CASE UNCHANGED mvars /\ (pc' = pc \/ pc' \in {"prompt", "reading", "lost"})
  BY <1>2 DEF SearchInv, Fit, mvars
<1>3. CASE Write \/ Negotiated \/ Prompted \/ LosesItself \/ UNCHANGED vars
  BY <1>1, <1>2, <1>3 DEF Write, Negotiated, Prompted, LosesItself, vars
<1>4. CASE Enter
  <2>1. /\ so_list' = so_list /\ node' = 1 /\ pc' = "looking"
    BY <1>4 DEF Enter, LookUp
  <2>2. \A i \in 1 .. Len(so_list) : ~(i < 1)
    BY <1>0
  <2> QED BY <2>1, <2>2 DEF SearchInv
<1>5. CASE Walk
  BY <1>5, WalkSearch
<1>6. CASE Unknown
  <2>1. ~(node <= Len(so_list))
    BY <1>0, <1>6 DEF Unknown, Exhausted
  <2> QED BY <1>6, <2>1 DEF Unknown, SearchInv, Fit, mvars
<1>7. CASE Found
  BY <1>7, FoundSearch
<1>8. CASE Parse
  BY <1>8 DEF Parse, SearchInv, Fit, mvars
<1>9. CASE Process
  BY <1>9, ProcessSearch
<1>10. CASE Call \/ GiveUp
  BY <1>1, <1>2, <1>10 DEF Call, GiveUp
<1> QED BY <1>3, <1>4, <1>5, <1>6, <1>7, <1>8, <1>9, <1>10 DEF Next, Thread

LEMMA SearchInvariance == Spec => []SearchInv
BY InitSearch, NextSearch, SessionInvariance, PTL DEF Spec

\* Whatever files are mapped: a plain name that one of them defines is found,
\* as long as the process and the disk stay as they were at the start.
THEOREM DefinitionsAreFound == Spec => []DefinitionIsFound
<1>1. SessionInv /\ ParsedInv /\ SearchInv => DefinitionIsFound
  <2> SUFFICES ASSUME SessionInv, ParsedInv, SearchInv, pc = "refused", altered = {},
                      Plain(sym_name), Definitions(sym_name) # {},
                      cmd.text = <<>> \/ WellFormed(cmd.text)
               PROVE  FALSE
    BY DEF DefinitionIsFound
  <2>1. answer = NotFound
    BY DEF ParsedInv
  <2>2. Len(so_list) \in Nat /\ DOMAIN so_list = 1 .. Len(so_list)
    BY ListFacts DEF SessionInv, MapInv
  <2>3. \A i \in 1 .. Len(so_list) : Fit(i)
    BY <2>2 DEF Plain, Fit
  <2>4. node = Len(so_list) + 1
    BY <2>1, <2>2, <2>3 DEF SearchInv, SessionInv, MapInv
  <2>5. \A i \in 1 .. Len(so_list) : Defines(image[so_list[i].path], sym_name) = {}
    <3>1. \A i \in 1 .. Len(so_list) : i < node
      BY <2>2, <2>4
    <3> QED BY <2>3, <3>1 DEF SearchInv
  <2>6. \A p \in mapped : IsListed(so_list, p)
    BY DEF SessionInv, MapInv, ListRight, Untouched
  <2>7. \A p \in mapped : Defines(image[p], sym_name) = {}
    BY <2>5, <2>6 DEF IsListed
  <2> QED BY <2>7 DEF Definitions
<1> QED BY <1>1, SessionInvariance, ParsedInvariance, SearchInvariance, PTL

=============================================================================
