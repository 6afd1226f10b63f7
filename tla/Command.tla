------------------------------ MODULE Command ------------------------------
(***************************************************************************)
(* A session from the negotiation on, and what it does with a command:      *)
(* proccess_cmd and exec_function or show_var_info of telnet_excute.c, from *)
(* the line entered to the next prompt, while the process loads and unloads *)
(* libraries and its files are replaced.  Composes SymbolMap, CallArgs and  *)
(* ReliableIO.                                                              *)
(*                                                                          *)
(* Sessions share nothing here but the map, which is only read.             *)
(***************************************************************************)
EXTENDS SymbolMap, CallArgs, ReliableIO

CONSTANTS
  Commands,     \* lines: [name |-> text before "(", text |-> the rest or <<>>]
  Options,      \* the writes before the first prompt: five of send_iac and the
                \* greeting, taken to be of one length
  PromptBytes   \* length of "\r\n" and the prompt

IacBytes == 3

ASSUME CommandAssumption ==
  /\ Options \in Nat \ {0}
  /\ IacBytes < Word - 1
  /\ PromptBytes \in 1 .. Word - 2
  /\ \A c \in Commands :
       /\ c.name \in STRING \ {NULL, Garbled}
       /\ c.text \in Seq(STRING) /\ END \notin Range(c.text)
       /\ c.text = <<>> \/ Head(c.text) = OPEN

VARIABLES
  pc,       \* what the session is at
  iacs,     \* how many of them are left after this one
  fd_conn,  \* "up", or "bad": -1, where accept has failed
  cmd       \* the line entered

vars == <<mvars, avars, wvars, pc, iacs, fd_conn, cmd>>

NoCommand == [name |-> NULL, text |-> <<>>]

TypeOK ==
  /\ pc \in {"negotiating", "prompt", "reading", "looking", "parsing",
             "calling", "refused", "lost"}
  /\ iacs \in 0 .. Options - 1
  /\ fd_conn \in {"up", "bad"}
  /\ cmd.text = <<>> \/ Head(cmd.text) = OPEN
  /\ finished \in 0 .. Word - 1 /\ left \in 0 .. Word - 1
  /\ Listed \subseteq Path /\ mapped \subseteq Path /\ altered \subseteq Path
  /\ node \in 0 .. Len(so_list) + 1
  /\ Len(args) <= MaxArg
  /\ cur_arg \in 1 .. Len(buf) + 1
  /\ \A i \in DOMAIN args :
       "string" \in DOMAIN args[i] => args[i].string \in DOMAIN buf

Init ==
  /\ MapInit /\ ArgsInit
  /\ WriteInit(IacBytes)
  /\ pc = "negotiating"
  /\ iacs = Options - 1
  /\ fd_conn \in {"up", "bad"}
  /\ cmd = NoCommand

-----------------------------------------------------------------------------
(* Negotiation, and the prompt *)

Take      == fd_conn = "up" /\ WriteTakes
Interrupt == fd_conn = "up" /\ WriteInterrupted
Refuse    == fd_conn = "bad" /\ WriteRefused

Writing == pc \in {"negotiating", "prompt"}

Write ==
  /\ Writing
  /\ Take \/ Interrupt \/ Refuse
  /\ UNCHANGED <<mvars, avars, pc, iacs, fd_conn, cmd>>

\* The last option is followed by the prompt of the new session.
Negotiated ==
  /\ pc = "negotiating" /\ WriteDone
  /\ \/ iacs > 0 /\ iacs' = iacs - 1 /\ StartWrite(IacBytes) /\ UNCHANGED pc
     \/ iacs = 0 /\ pc' = "prompt" /\ StartWrite(PromptBytes) /\ UNCHANGED iacs
  /\ UNCHANGED <<mvars, avars, fd_conn, cmd>>

Prompted ==
  /\ pc = "prompt" /\ WriteDone
  /\ pc' = "reading"
  /\ UNCHANGED <<mvars, avars, wvars, iacs, fd_conn, cmd>>

\* The next write reads wherever that address is: it may fail again, send
\* what is there, or end the process.
LosesItself ==
  /\ Writing /\ fd_conn = "up" /\ WriteWild
  /\ pc' = "lost"
  /\ UNCHANGED <<mvars, avars, wvars, iacs, fd_conn, cmd>>

\* The command is over; what it has used is dead.
Finish ==
  /\ pc' = "prompt"
  /\ StartWrite(PromptBytes)
  /\ buf' = <<>> /\ cur_arg' = 1 /\ args' = <<>>
  /\ sym_name' = NULL /\ node' = 0 /\ answer' = NotFound
  /\ cmd' = NoCommand
  /\ UNCHANGED <<process, so_list, iacs, fd_conn>>

-----------------------------------------------------------------------------
(* The command *)

\* A line is entered that is not empty.  Both kinds look the name up first.
Enter ==
  /\ pc = "reading" /\ fd_conn = "up"
  /\ \E c \in Commands : cmd' = c /\ LookUp(c.name)
  /\ pc' = "looking"
  /\ UNCHANGED <<avars, wvars, iacs, fd_conn>>

Walk ==
  /\ pc = "looking"
  /\ Pass
  /\ UNCHANGED <<avars, wvars, pc, iacs, fd_conn, cmd>>

\* "unknown symbol", and the prompt.
Unknown ==
  /\ pc = "looking" /\ Exhausted
  /\ pc' = "refused"
  /\ UNCHANGED <<mvars, avars, wvars, iacs, fd_conn, cmd>>

\* The walk has found the name: the address, which may be none after all, is
\* shown (show_var_info), or the rest of the line is made ready to be parsed
\* (parse_func_call).
Found ==
  /\ pc = "looking" /\ Find
  /\ IF answer' = NotFound \/ (cmd.text # <<>> /\ ~Closed(cmd.text))
     THEN pc' = "refused" /\ UNCHANGED avars
     ELSE IF cmd.text = <<>> \/ Inside(cmd.text) = <<>>
     THEN pc' = "calling" /\ UNCHANGED avars
     ELSE /\ pc' = "parsing"
          /\ buf' = Inside(cmd.text) /\ cur_arg' = 1 /\ args' = <<>>
  /\ UNCHANGED <<wvars, iacs, fd_conn, cmd>>

Parse ==
  /\ pc = "parsing"
  /\ \/ NextArg /\ UNCHANGED pc
     \/ LastArg /\ pc' = "calling"
     \/ Malformed /\ pc' = "refused" /\ UNCHANGED avars
  /\ UNCHANGED <<mvars, wvars, iacs, fd_conn, cmd>>

\* The function returns.  Any other address than that of a definition ends the
\* process or the thread, or not; to show an address harms nothing.
Call ==
  /\ pc = "calling"
  /\ \/ Finish
     \/ /\ cmd.text # <<>> /\ answer \notin Definitions(cmd.name)
        /\ pc' = "lost"
        /\ UNCHANGED <<mvars, avars, wvars, iacs, fd_conn, cmd>>

GiveUp == pc = "refused" /\ Finish

-----------------------------------------------------------------------------
Thread ==
  \/ Write \/ Negotiated \/ Prompted \/ LosesItself
  \/ Walk \/ Unknown \/ Found \/ Parse \/ Call \/ GiveUp

Process ==
  /\ pc # "lost"
  /\ \E p \in Path : Dlopen(p) \/ Dlclose(p) \/ Replace(p)
  /\ UNCHANGED <<lookup, avars, wvars, pc, iacs, fd_conn, cmd>>

Next == Thread \/ Enter \/ Process

Spec == Init /\ [][Next]_vars

\* A session thread is scheduled, a connection takes what is written to it,
\* and a function that is called returns.
FairSpec == Spec /\ WF_vars(Thread)

-----------------------------------------------------------------------------
(* Properties *)

\* telnet_getsymbol_addr.c:50-92 returns the address of the definition it is
\* asked for, when the file it has found the name in is the one it was at the
\* start, and the name is plain: the joined map, the order of the search, the
\* tables the reader forgets and the test that tells offsets from addresses
\* have to fit together.
AnswerIsDefinition ==
  /\ node \in DOMAIN so_list /\ answer # NotFound
  /\ Here.path \notin altered /\ Plain(sym_name)
  => answer \in Definitions(sym_name)

\* A plain name that a mapped file defines is found, unless a file has been
\* replaced, mapped or unmapped since the start (ld_find_address reads the
\* files as they are now, and the map as it was then).
DefinitionIsFound ==
  /\ pc = "refused" /\ altered = {}
  /\ Plain(sym_name) /\ Definitions(sym_name) # {}
  => cmd.text # <<>> /\ ~WellFormed(cmd.text)

\* A function is called with the arguments that were typed, as far as the
\* array has places: commas and parentheses inside strings separate nothing,
\* and no string runs on into the next argument (parse_function_args cuts them
\* in place).
CalledAsTyped ==
  pc = "calling" /\ cmd.text # <<>> /\ WellFormed(cmd.text)
  => Passed = Typed(cmd.text)

\* telnet_excute.c:98 "invalid function call syntax" is said of no call that
\* is well-formed.
WellFormedIsCalled ==
  pc = "refused" /\ answer # NotFound /\ cmd.text # <<>>
  => ~WellFormed(cmd.text)

\* When write_certain_bytes returns, no byte has been left out, and an
\* interrupted write costs one byte that is sent again; on a descriptor that is
\* none it returns having sent nothing.
NothingLost ==
  Writing /\ WriteDone =>
    \/ /\ fd_conn = "up"
       /\ Len(sent) = count + interrupts
       /\ Range(sent) = 1 .. count
       /\ \A i \in 1 .. Len(sent) - 1 : sent[i + 1] <= sent[i] + 1
    \/ fd_conn = "bad" /\ sent = <<>>

\* README.md:30: a function whose name is entered is executed: the address
\* called is that of a definition of the name, if the process has one.
FunctionIsCalled ==
  /\ pc = "calling" /\ cmd.text # <<>>
  /\ Definitions(cmd.name) # {}
  => answer \in Definitions(cmd.name)

\* Every command ends in the next prompt, known or unknown, well-formed or
\* not, and the prompt is written even where no write succeeds; unless a file
\* has an empty symbol table, a wild address has been called or a wild one
\* written from.
PromptComesBack ==
  pc # "reading" ~> pc \in {"reading", "lost"} \/ Stuck

=============================================================================
