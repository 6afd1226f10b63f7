----------------------------- MODULE ElfReader -----------------------------
(***************************************************************************)
(* telnet_elfdetails.c: the symbols exe_load_symbols reads from a file, and *)
(* get_sym_addr, which looks for a name in them.  A file is its sections,   *)
(* in the order of the section headers; offsets, byte order and machine are *)
(* left out, as are the program headers, from which nothing is used.        *)
(***************************************************************************)
EXTENDS SequencesExt, FiniteSetsExt, Integers

\* A section is [type |-> "strtab"], [type |-> "shstrtab"] for the one that
\* e_shstrndx names, [type |-> "other"], or a symbol table (SHT_SYMTAB and
\* SHT_DYNSYM alike): [type |-> "table", link |-> index of its string table,
\* entries |-> a sequence of [name, value]].
\* An image is [elf |-> does exe_load_headers get to its section headers,
\* absolute |-> are values addresses (ET_EXEC), sections |-> ...].
\* An import (SHN_UNDEF) has value 0, a definition has another.

\* The tables of an image are well-formed.
IsImage(image) ==
  /\ image.sections \in Seq(Range(image.sections))
  /\ \A s \in Range(image.sections) :
       s.type = "table" => s.entries \in Seq([name : STRING, value : Nat])

NotFound == -1                                   \* (uintptr_t)-1
Garbled  == "garbled"                            \* bytes of another string table

\* The image of a file that is not there, or is no ELF file of a machine that is
\* known: errors are compared with an unsigned < 0, and end as no symbols.
NoImage == [elf |-> FALSE, absolute |-> FALSE, sections |-> <<>>]

\* Entry 0 is skipped; names are taken from the string table at hand.
Named(table, strtab) ==
  {[at      |-> i,
    name    |-> IF table.link = strtab THEN table.entries[i].name ELSE Garbled,
    address |-> table.entries[i].value] : i \in 2 .. Len(table.entries)}

\* exe_load_section_headers: a string table loads the symbol table seen last,
\* unless one between them has done so.
Loads(image, i, j) ==
  /\ image.elf /\ i < j
  /\ image.sections[i].type = "table" /\ image.sections[j].type = "strtab"
  /\ \A k \in i + 1 .. j - 1 : image.sections[k].type \notin {"table", "strtab"}

LastLoad(image) ==
  LET At    == DOMAIN image.sections
      loads == {l \in At \X At : Loads(image, l[1], l[2])}
  IN  {l \in loads : \A m \in loads : m[2] <= l[2]}

\* exe_load_symbol_table: the array is made longer and then cleared, with the
\* symbols of the tables before, so that those loaded last are all there are.
LoadSymbols(image) ==
  UNION {Named(image.sections[l[1]], l[2]) : l \in LastLoad(image)}

\* The loop of exe_load_symbol_table never ends for a table without entries.
ReadEnds(image) ==
  \A i, j \in DOMAIN image.sections :
    Loads(image, i, j) => image.sections[i].entries # <<>>

\* get_sym_addr: the first symbol of that name, whatever it is.
GetSymAddr(image, name) ==
  LET hits == {s \in LoadSymbols(image) : s.name = name}
  IN  IF hits = {} THEN NotFound
      ELSE (CHOOSE s \in hits : \A t \in hits : s.at <= t.at).address

-----------------------------------------------------------------------------
(* What a file says of a name, whoever reads it *)

Tables(image) ==
  {s \in Range(image.sections) : image.elf /\ s.type = "table"}

Entries(table, name) == {e \in Range(table.entries) : e.name = name}

Defines(image, name) ==
  {e.value : e \in {e \in UNION {Entries(t, name) : t \in Tables(image)} :
                      e.value # 0}}

Imports(image, name) ==
  \E t \in Tables(image) : \E e \in Entries(t, name) : e.value = 0

\* The symbol table that is loaded last is followed by its string table and
\* has all there is to say of the name.
KnownToLast(image, name) ==
  LET tables  == {i \in DOMAIN image.sections : image.sections[i].type = "table"}
      strtabs == {i \in DOMAIN image.sections : image.sections[i].type = "strtab"}
  IN  \E i \in tables, j \in strtabs :
        /\ image.sections[i].link = j
        /\ \A k \in tables : k <= i
        /\ \A k \in strtabs : k > i => j <= k
        /\ i < j
        /\ \A v \in Defines(image, name) :
             [name |-> name, value |-> v] \in Range(Tail(image.sections[i].entries))

=============================================================================
