----------------------------- MODULE MCCommand -----------------------------
\* Command for TLC: what the files of a small process hold, where they are
\* mapped, and what is typed.
EXTENDS Command

CONSTANTS exe, liba, libb

Import(n)     == [name |-> n, value |-> 0]
Def(n, v)     == [name |-> n, value |-> v]
Table(l, s)   == [type |-> "table", link |-> l, entries |-> <<Import("")>> \o s]
Strtab        == [type |-> "strtab"]
Shstrtab      == [type |-> "shstrtab"]
Elf(sections) == [elf |-> TRUE, absolute |-> FALSE, sections |-> sections]
AtFixed(file) == [file EXCEPT !.absolute = TRUE]

\* As a linker leaves a file, and as strip does: the dynamic symbols d, and all
\* of them, s.
Unstripped(d, s) == Elf(<<Table(2, d), Strtab, Table(4, s), Strtab, Shstrtab>>)
Stripped(d)      == Elf(<<Table(2, d), Strtab, Shstrtab>>)

\* A table whose string table comes after another one.
Apart(s) == Elf(<<Table(3, s), Strtab, Strtab, Shstrtab>>)

\* A table of size 0.
EmptyTable ==
  Elf(<<[type |-> "table", link |-> 2, entries |-> <<>>], Strtab, Shstrtab>>)

\* Lines of the map: the executable with its bss beyond the file, the heap, a
\* library in three parts, one of them before a line without a name, a data
\* file, another library, the stack.
MapLine(s, e, p) == [start |-> s, end |-> e, path |-> p]
Places ==
  exe  :> <<MapLine(10, 12, exe), MapLine(12, 14, exe), MapLine(14, 15, "")>> @@
  liba :> <<MapLine(30, 31, liba), MapLine(31, 32, ""), MapLine(32, 34, liba),
            MapLine(34, 35, liba)>> @@
  libb :> <<MapLine(40, 42, libb)>>
Others == <<MapLine(16, 18, "[heap]"), MapLine(36, 37, "data"), MapLine(50, 51, "[stack]")>>

\* What files there are: an executable with v at the end of what is mapped and
\* w beyond it, relocatable or at fixed addresses, or one that uses the
\* library's f; a library, of another linker, or with a
\* symbol table that does not have f; another library; what may replace one.
Contents ==
  [own    |-> Unstripped(<<>>, <<Def("g", 1), Def("v", 3), Def("w", 4)>>),
   fixed  |-> AtFixed(Unstripped(<<>>, <<Def("g", 11), Def("v", 13), Def("w", 14)>>)),
   user   |-> Unstripped(<<Import("f")>>, <<Def("g", 1), Import("f")>>),
   lib    |-> Unstripped(<<Def("f", 2)>>, <<Def("s", 1), Def("f", 2), Def("v", 4)>>),
   apart  |-> Apart(<<Def("f", 2)>>),
   partly |-> Unstripped(<<Def("f", 2)>>, <<Def("s", 1)>>),
   plugin |-> Stripped(<<Def("f", 1), Def("h", 1)>>),
   newer  |-> Stripped(<<Def("s", 1), Def("f", 3)>>),
   empty  |-> EmptyTable,
   gone   |-> NoImage]

Files(e, a) ==
  exe :> Contents[e] @@ liba :> Contents[a] @@ libb :> Contents["plugin"]

SmallSystems ==
  {Files("own", "lib"), Files("user", "lib"), Files("fixed", "partly"),
   Files("own", "apart")}

\* The executable uses a function of the library, as any does.
OrdinarySystem == {Files("user", "lib")}

Upgrades ==
  exe :> {} @@ libb :> {} @@
  liba :> {Contents["newer"], Contents["empty"], Contents["gone"]}

Called(n)   == [name |-> n, text |-> <<OPEN, CLOSE>>]
Variable(n) == [name |-> n, text |-> <<>>]

\* Arguments, well-formed or not, joined by commas; one more than there are
\* places for; a call without its last parenthesis, and one that goes on.
Number1 == <<MINUS, "1">>
String1 == <<QUOTE, COMMA, "1", QUOTE>>
Numbers == {<<"1">>, Number1}
Strings == {String1, <<QUOTE, CLOSE, QUOTE>>}
Faulty  == {<<>>, <<"x">>, <<"1", "x">>, <<QUOTE, "x">>, <<QUOTE, "x", QUOTE, "1">>}
Arguments == Numbers \cup Strings \cup Faulty
In(s) == <<OPEN>> \o s \o <<CLOSE>>
Texts ==
  {In(a) : a \in Arguments} \cup
  {In(a \o <<COMMA>> \o String1) : a \in Faulty \cup {Number1}} \cup
  {In(String1 \o <<COMMA>> \o b) : b \in Arguments} \cup
  {In(a \o <<COMMA>> \o b \o <<COMMA, "1">>) :
     a \in {Number1, String1}, b \in {Number1, String1}} \cup
  {<<OPEN>> \o a : a \in {Number1, String1}} \cup
  {In(a) \o <<"1">> : a \in {Number1, String1}}

ShortCommands ==
  {Called(n) : n \in {"f", "g", "h", "u"}} \cup {Variable(n) : n \in {"v", "w", "s"}}
OneCall == {Called("f")}
AllCommands == ShortCommands \cup {[name |-> "f", text |-> t] : t \in Texts}

=============================================================================
