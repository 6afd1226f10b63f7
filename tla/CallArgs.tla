------------------------------ MODULE CallArgs ------------------------------
(***************************************************************************)
(* telnet_excute.c: how what follows the name in a command is cut into the  *)
(* arguments of a call.  The text is parsed in place, in the buffer of the  *)
(* line: the closing quote of a string is overwritten by a terminator, and  *)
(* the argument points into the buffer.                                     *)
(***************************************************************************)
EXTENDS SequencesExt, FiniteSetsExt, Integers

CONSTANTS
  Digit,   \* characters isdigit accepts
  MaxArg   \* MAX_ARG_NUM

QUOTE == "quote"
MINUS == "-"
COMMA == ","
OPEN  == "("
CLOSE == ")"
END   == "end"  \* the terminator

ASSUME ArgsAssumption ==
  /\ Digit \cap {QUOTE, MINUS, COMMA, OPEN, CLOSE, END} = {}
  /\ MaxArg \in Nat \ {0}

VARIABLES
  buf,     \* para_str_begin up to para_str_end
  cur_arg, \* place of the next argument in buf
  args     \* the arguments set so far; the rest of the array is junk

avars == <<buf, cur_arg, args>>

ArgsInit == buf = <<>> /\ cur_arg = 1 /\ args = <<>>

\* The first place from i on where c is, or 0 (strchr).
Strchr(s, i, c) ==
  LET places == {j \in i .. Len(s) : s[j] = c}
  IN  IF places = {} THEN 0 ELSE Min(places)

\* The text between the parenthesis and the last one (strrchr).
Closed(text) == CLOSE \in Range(Tail(text))
Inside(text) == SubSeq(text, 2, SelectLastInSeq(text, LAMBDA c : c = CLOSE) - 1)

\* What strtol reads at place i: a sign, digits.
Number(s, i) ==
  LET stops == {j \in i .. Len(s) : s[j] \notin Digit /\ ~(j = i /\ s[j] = MINUS)}
  IN  SubSeq(s, i, IF stops = {} THEN Len(s) ELSE Min(stops) - 1)

\* The string at place i, up to its terminator.
String(s, i) ==
  SubSeq(s, i, IF Strchr(s, i, END) = 0 THEN Len(s) ELSE Strchr(s, i, END) - 1)

-----------------------------------------------------------------------------
(* parse_function_args *)

AtEnd == cur_arg = Len(buf) + 1

\* A mutant: a sign is no head of a number.
IsUnsigned == ~AtEnd /\ buf[cur_arg] \in Digit

IsNumber == ~AtEnd /\ buf[cur_arg] \in Digit \cup {MINUS}
IsString == ~AtEnd /\ buf[cur_arg] = QUOTE
ClosedBy == Strchr(buf, cur_arg + 1, QUOTE)

\* A mutant: the comma is looked for from the string on.
CommaAfterHead == Strchr(buf, cur_arg, COMMA)

\* Where the next comma is looked for: from the number itself, or behind the
\* string.
CommaAfter == Strchr(buf, IF IsString THEN ClosedBy + 1 ELSE cur_arg, COMMA)

\* The parser returns -1.
Malformed ==
  \/ AtEnd
  \/ ~IsNumber /\ ~IsString
  \/ IsString /\ ClosedBy = 0

\* One turn of the loop stores an argument.
StoreArg ==
  /\ ~Malformed
  /\ \/ /\ IsNumber
        /\ args' = Append(args, [number |-> Number(buf, cur_arg)])
        /\ UNCHANGED buf
     \/ /\ IsString
        /\ args' = Append(args, [string |-> cur_arg + 1])
        /\ buf' = [buf EXCEPT ![ClosedBy] = END]

\* A mutant: the places are not counted.
MoreArgsUncounted == CommaAfter # 0

\* There is another argument, and a place for it.
MoreArgs == CommaAfter # 0 /\ Len(args) + 1 < MaxArg

NextArg ==
  /\ StoreArg /\ MoreArgs
  /\ cur_arg' = CommaAfter + 1

LastArg ==
  /\ StoreArg /\ ~MoreArgs
  /\ UNCHANGED cur_arg

-----------------------------------------------------------------------------
(* What was typed *)

\* A comma between arguments is one outside quotes.
Commas(s) ==
  {i \in DOMAIN s :
     s[i] = COMMA /\ Cardinality({j \in 1 .. i : s[j] = QUOTE}) % 2 = 0}

\* Where piece k ends: at the comma of rank k, the last behind the text.
Cut(s, k) ==
  IF k = 0 THEN 0
  ELSE IF k > Cardinality(Commas(s)) THEN Len(s) + 1
  ELSE CHOOSE i \in Commas(s) : Cardinality({j \in Commas(s) : j <= i}) = k

Pieces(s) ==
  [k \in 1 .. Cardinality(Commas(s)) + 1 |-> SubSeq(s, Cut(s, k - 1) + 1, Cut(s, k) - 1)]

IsNumeral(p) ==
  LET digits == IF p # <<>> /\ Head(p) = MINUS THEN Tail(p) ELSE p
  IN  digits # <<>> /\ Range(digits) \subseteq Digit

IsQuoted(p) ==
  /\ Len(p) >= 2 /\ Head(p) = QUOTE /\ Last(p) = QUOTE
  /\ QUOTE \notin Range(SubSeq(p, 2, Len(p) - 1))

\* Numbers and strings, in parentheses, with commas in between.
WellFormed(text) ==
  /\ Closed(text) /\ Last(text) = CLOSE
  /\ \/ Inside(text) = <<>>
     \/ \A i \in DOMAIN Pieces(Inside(text)) :
          LET p == Pieces(Inside(text))[i] IN IsNumeral(p) \/ IsQuoted(p)

\* The arguments that were typed; the array has a place for MaxArg of them.
Typed(text) ==
  LET pieces == IF Inside(text) = <<>> THEN <<>> ELSE Pieces(Inside(text))
  IN  [i \in 1 .. Min({Len(pieces), MaxArg}) |->
         IF IsQuoted(pieces[i]) THEN SubSeq(pieces[i], 2, Len(pieces[i]) - 1)
                                ELSE pieces[i]]

\* The arguments as the called function reads them.
Passed ==
  [i \in DOMAIN args |-> IF "number" \in DOMAIN args[i]
                         THEN args[i].number ELSE String(buf, args[i].string)]

=============================================================================
