----------------------------- MODULE SymbolMap -----------------------------
(***************************************************************************)
(* telnet_getsymbol_addr.c: the list of the files mapped into the process,  *)
(* read once from /proc/<pid>/maps, and the search for a name in the files  *)
(* of that list, each read from the disk at every search.  The process goes *)
(* on meanwhile: it loads and unloads libraries, and files are replaced.    *)
(*                                                                          *)
(* so_list is the linked list as a sequence (NodeSeq): it is built with     *)
(* insertions at the tail and never changes.                                *)
(***************************************************************************)
EXTENDS ElfReader

CONSTANTS
  Path,       \* the executable, and every path with ".so" in it
  Other,      \* any other last column of a line: none, "[heap]", a data file
  Layout,     \* [Path -> lines its mapping has], where each is mapped
  Elsewhere,  \* lines of no library, and of no executable
  AtStart,    \* the paths mapped when get_maps_so_list runs
  Systems,    \* set of [Path -> image of a file]: the disk at the start
  Versions,   \* [Path -> images that may replace it on the disk later]
  MaxChanges  \* bound of the exploration: loads, unloads and replacements

\* A line of the file.
Line == [start : Nat, end : Nat, path : Path \cup Other]

\* The lines of a file, in any order but for the first, which is where the
\* loader puts the file; all lines have places of their own, and the loader
\* puts no file between two lines of another one.
ASSUME MapAssumption ==
  /\ Path \cap Other = {} /\ IsFiniteSet(Path)
  /\ AtStart \subseteq Path
  /\ \A p \in Path :
       /\ Layout[p] \in Seq(Line) /\ Layout[p] # <<>> /\ Layout[p][1].path = p
       /\ \A l \in Range(Layout[p]) : /\ l.path \in {p} \cup Other
                                     /\ l.start >= Layout[p][1].start
  /\ Elsewhere \in Seq(Line) /\ \A l \in Range(Elsewhere) : l.path \in Other
  /\ LET all == Range(Elsewhere) \cup UNION {Range(Layout[p]) : p \in Path}
     IN  \A l, m \in all : l.start = m.start => l = m
  /\ \A p, q \in Path : p # q =>
       \/ \A l \in Range(Layout[p]), m \in Range(Layout[q]) : l.start < m.start
       \/ \A l \in Range(Layout[p]), m \in Range(Layout[q]) : l.start > m.start
  /\ \A s \in Systems : DOMAIN s = Path /\ \A p \in Path : IsImage(s[p])
  /\ MaxChanges \in Nat

VARIABLES
  disk,     \* the file at each path, as it is now
  image,    \* the file at each path, as it was when it was mapped last
  mapped,   \* the paths mapped now
  altered,  \* history: the paths unmapped, mapped or replaced since the start
  changes,  \* history: how often
  so_list,  \* g_so_name_list: sequence of [start, end, path]
  sym_name, \* the name ld_find_address looks for
  node,     \* the place in so_list it has got to
  answer    \* what it has returned

process == <<disk, image, mapped, altered, changes>>
lookup  == <<sym_name, node, answer>>
mvars   == <<disk, image, mapped, altered, changes, so_list, sym_name, node,
             answer>>

NULL == "null"  \* no name

Base(p) == Layout[p][1].start

Lines == Range(Elsewhere) \cup UNION {Range(Layout[p]) : p \in mapped}

\* /proc/<pid>/maps: all lines, by address.
Maps == [i \in 1 .. Cardinality(Lines) |->
           CHOOSE l \in Lines : Cardinality({m \in Lines : m.start <= l.start}) = i]

-----------------------------------------------------------------------------
(* get_maps_so_list *)

\* A mutant: the end of a node is that of its first line.
JoinKeepsEnd(node_, line) ==
  [node_ EXCEPT !.start = IF line.start < @ THEN line.start ELSE @]

\* A mutant: the start of a node is that of its last line.
JoinMovesStart(node_, line) ==
  [node_ EXCEPT !.start = line.start,
                !.end   = IF line.end > @ THEN line.end ELSE @]

\* A further line of the file at the tail of the list.
Join(node_, line) ==
  [node_ EXCEPT !.start = IF line.start < @ THEN line.start ELSE @,
                !.end   = IF line.end   > @ THEN line.end   ELSE @]

AddLine(list, line) ==
  IF line.path \in Other THEN list
  ELSE IF list # <<>> /\ Last(list).path = line.path
       THEN Append(Front(list), Join(Last(list), line))
       ELSE Append(list, line)

\* The loop over the lines.
GetMapsSoList ==
  LET list[i \in 0 .. Len(Maps)] ==
        IF i = 0 THEN <<>> ELSE AddLine(list[i - 1], Maps[i])
  IN  list[Len(Maps)]

Listed == {so_list[i].path : i \in DOMAIN so_list}

Idle == sym_name = NULL /\ node = 0 /\ answer = NotFound

MapInit ==
  /\ disk \in Systems
  /\ image = disk
  /\ mapped = AtStart
  /\ altered = {}
  /\ changes = 0
  /\ so_list = GetMapsSoList
  /\ Idle

-----------------------------------------------------------------------------
(* The process goes on *)

Alter(p) ==
  /\ changes < MaxChanges
  /\ changes' = changes + 1
  /\ altered' = altered \cup {p}
  /\ UNCHANGED so_list

Dlopen(p) ==
  /\ p \notin mapped /\ disk[p].elf
  /\ mapped' = mapped \cup {p}
  /\ image' = [image EXCEPT ![p] = disk[p]]
  /\ Alter(p)
  /\ UNCHANGED disk

Dlclose(p) ==
  /\ p \in mapped
  /\ mapped' = mapped \ {p}
  /\ Alter(p)
  /\ UNCHANGED <<disk, image>>

\* An upgrade, or rm: what is mapped stays what it was.
Replace(p) ==
  /\ \E v \in Versions[p] \ {disk[p]} : disk' = [disk EXCEPT ![p] = v]
  /\ Alter(p)
  /\ UNCHANGED <<image, mapped>>

-----------------------------------------------------------------------------
(* ld_find_address *)

LookUp(name) ==
  /\ sym_name' = name
  /\ node' = 1
  /\ answer' = NotFound
  /\ UNCHANGED <<process, so_list>>

Here == so_list[node]

\* A value above the start of the mapping is an address, any other an offset.
InMapping(sym_addr) ==
  IF sym_addr > Here.start THEN sym_addr
  ELSE IF Here.start + sym_addr < Here.end THEN Here.start + sym_addr
  ELSE NotFound

\* No such name in this file: on to the next.
Pass ==
  /\ node \in DOMAIN so_list
  /\ ReadEnds(disk[Here.path])
  /\ GetSymAddr(disk[Here.path], sym_name) = NotFound
  /\ node' = node + 1
  /\ UNCHANGED <<sym_name, answer, process, so_list>>

\* The first file that has the name ends the search.
Find ==
  /\ node \in DOMAIN so_list
  /\ ReadEnds(disk[Here.path])
  /\ GetSymAddr(disk[Here.path], sym_name) # NotFound
  /\ answer' = InMapping(GetSymAddr(disk[Here.path], sym_name))
  /\ UNCHANGED <<sym_name, node, process, so_list>>

\* The search spins in a file with an empty symbol table.
Stuck == node \in DOMAIN so_list /\ ~ReadEnds(disk[Here.path])

Exhausted == node = Len(so_list) + 1

-----------------------------------------------------------------------------
(* What the answer should be *)

AddressOf(p, value) == IF image[p].absolute THEN value ELSE Base(p) + value

\* The addresses of the definitions of a name in the process.
Definitions(name) ==
  UNION {{AddressOf(p, v) : v \in Defines(image[p], name)} : p \in mapped}

\* The end of the last line that has the path.
End(p) == Max({l.end : l \in {l \in Range(Layout[p]) : l.path = p}})

\* The file does not import the name; if it defines it, it says so in the
\* symbol table the reader loads last, for an address that its lines in the
\* map hold, beyond the first byte.
PlainIn(held, p, name) ==
  /\ ~Imports(held, name)
  /\ Defines(held, name) # {} => KnownToLast(held, name)
  /\ \A v \in Defines(held, name) :
       IF held.absolute THEN v > Base(p)
                        ELSE v <= Base(p) /\ Base(p) + v < End(p)

\* The name is plain in all files of the list.
Plain(name) ==
  \A i \in DOMAIN so_list :
    PlainIn(image[so_list[i].path], so_list[i].path, name)

=============================================================================
