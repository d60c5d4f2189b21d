----------------------------- MODULE DeviceTree -----------------------------
(***************************************************************************)
(* The reader of device trees, src/tools/device_tree.                      *)
(*                                                                         *)
(* The blob is a sequence of words.  A word of four characters is at least *)
(* FirstText; every other word has a NUL among its bytes, so that a name   *)
(* ends in it.                                                             *)
(***************************************************************************)
EXTENDS Integers, Sequences, FiniteSets, FiniteSetsExt, SequencesExt

CONSTANTS
  FirstText,     \* the first word that is four characters
  Compatible,    \* the place of the name "compatible"
  TextValues,    \* the values, records [len, words], that look like a string
  Devices,       \* the trees, each a sequence of the items of its blob
  Reservations   \* the memory reservations before it, each of an address and a size

FDT_BEGIN_NODE == 1
FDT_END_NODE == 2
FDT_PROP == 3
FDT_NOP == 4
FDT_END == 9

\* An item: a node begins or ends, a property, or nothing.
Item(is, name, len, words) == [is |-> is, name |-> name, len |-> len, words |-> words]

Values == [len : Nat, words : Seq(Nat)]
AnyItem == [is : {"begin", "end", "property", "nop"}, name : Seq(Nat), len : Nat, words : Seq(Nat)]

\* How many nodes are open behind the first k items.
Within(d, k) ==
  Cardinality({j \in 1 .. k : d[j].is = "begin"}) - Cardinality({j \in 1 .. k : d[j].is = "end"})

\* A string is not empty.  A tree has one root, whose name is empty.  The NUL of a
\* name is in its last word; the value of a property has len bytes, and NULs up to a
\* whole word.
ASSUME DeviceTreeAssumption ==
  /\ FirstText \in Nat /\ FirstText > FDT_END
  /\ TextValues \subseteq {v \in Values : v.len > 0}
  /\ \A d \in Devices :
       /\ d \in Seq(AnyItem) /\ d # <<>>
       /\ d[1].is = "begin" /\ d[1].name = <<0>>
       /\ \A k \in DOMAIN d : Within(d, k) \in Nat /\ (Within(d, k) = 0 <=> k = Len(d))
       /\ \A k \in DOMAIN d :
            LET name == d[k].name
            IN  /\ d[k].is = "begin" =>
                     name # <<>> /\ \A i \in DOMAIN name : name[i] < FirstText <=> i = Len(name)
                /\ d[k].is = "property" =>
                     Len(name) = 1 /\ 4*Len(d[k].words) \in d[k].len .. d[k].len + 3
  /\ Reservations \subseteq Seq([address : Nat, size : Nat])
  /\ \A r \in Reservations : \A i \in DOMAIN r : r[i].address # 0 \/ r[i].size # 0

VARIABLES
  devices,      \* history: the tree
  reservations, \* history: the reservations, which are mem_map but for its end
  mem_map,
  structs,      \* the words of the tree
  reading,      \* "reserved", "node", "rest", "read"
  depth_at,     \* for each node being read, where it starts, and i
  rest_at,      \* i, behind the root
  map_lines,    \* the reservations printed
  tree_lines    \* the nodes and properties printed

tree_vars == <<devices, reservations, mem_map, structs, reading, depth_at, rest_at, map_lines,
               tree_lines>>

\* The words of an item.  A property's name is known by its place.
ItemWords(item) ==
  CASE item.is = "begin" -> <<FDT_BEGIN_NODE>> \o item.name
    [] item.is = "end" -> <<FDT_END_NODE>>
    [] item.is = "property" -> <<FDT_PROP, item.len>> \o item.name \o item.words
    [] item.is = "nop" -> <<FDT_NOP>>

TreeInit ==
  /\ devices \in Devices
  /\ reservations \in Reservations
  /\ mem_map = reservations \o <<[address |-> 0, size |-> 0]>>
  /\ structs = FlattenSeq([k \in DOMAIN devices |-> ItemWords(devices[k])]) \o <<FDT_NOP, FDT_END>>
  /\ reading = "reserved"
  /\ depth_at = <<>>
  /\ rest_at = 0
  /\ map_lines = <<>> /\ tree_lines = <<>>

\* A line prints a name, and so many bytes of the words of a value.
Line(depth, name, words, bytes) ==
  [depth |-> depth, name |-> name, words |-> words, bytes |-> bytes]
Puts(line) == tree_lines' = Append(tree_lines, line)

WordAt(base, i) == structs[base + i + 1]

\* The name at base, up to its NUL, and where the word behind it is.
NameEnd(base) == Min({i \in 0 .. Len(structs) - base - 1 : WordAt(base, i) < FirstText})
Name(base) ==
  LET end == NameEnd(base)
      length == IF WordAt(base, end) <= FDT_END THEN end ELSE end + 1
  IN  [i \in 1 .. length |-> WordAt(base, i - 1)]

\* dtb_parse_node begins; the root is read from its FDT_BEGIN_NODE on, whose
\* first byte is the NUL of the name.
Open(base) ==
  /\ depth_at' = Append(depth_at, [base |-> base, i |-> NameEnd(base) + 1])
  /\ Puts(Line(Len(depth_at), Name(base), <<>>, 0))

TreeStep(from) == reading = from /\ UNCHANGED <<devices, reservations, structs>>

Reserved ==
  /\ TreeStep("reserved")
  /\ LET entry == Head(mem_map)
     IN  IF entry.address # 0 \/ entry.size # 0
         THEN /\ map_lines' = Append(map_lines, entry)
              /\ mem_map' = Tail(mem_map)
              /\ UNCHANGED <<reading, depth_at, tree_lines>>
         ELSE Open(0) /\ reading' = "node" /\ UNCHANGED <<mem_map, map_lines>>
  /\ UNCHANGED rest_at

NodeStep == TreeStep("node") /\ UNCHANGED <<mem_map, map_lines>>

Node == depth_at[Len(depth_at)]
Token == WordAt(Node.base, Node.i)
Skip(words) == depth_at' = [depth_at EXCEPT ![Len(depth_at)].i = @ + words]

BeginNode ==
  /\ NodeStep /\ Token = FDT_BEGIN_NODE
  /\ Open(Node.base + Node.i + 1)
  /\ UNCHANGED <<reading, rest_at>>

\* A faulty count of a property's words that forgets the last, unless it is full.
PropertyWords_whole(len) == len \div 4

PropertyWords(len) == (len + 3) \div 4

\* How many bytes of a value are printed.  In quotes its last one is left out,
\* whatever it is; what looks_like_string takes for a string is quoted, and
\* what is no whole number of words, and is_compat_key's.
PrintedBytes(name, len, words) ==
  IF \/ len = 0
     \/ /\ [len |-> len, words |-> words] \notin TextValues
        /\ name # <<Compatible>> /\ len % 4 = 0
  THEN len ELSE len - 1

Property ==
  /\ NodeStep /\ Token = FDT_PROP
  /\ LET len == WordAt(Node.base, Node.i + 1)
         name == <<WordAt(Node.base, Node.i + 2)>>
         words == [k \in 1 .. PropertyWords(len) |-> WordAt(Node.base, Node.i + 2 + k)]
     IN  /\ Puts(Line(Len(depth_at), name, words, PrintedBytes(name, len, words)))
         /\ Skip(3 + PropertyWords(len))
  /\ UNCHANGED <<reading, rest_at>>

UnknownWord ==
  /\ NodeStep /\ Token \notin {FDT_BEGIN_NODE, FDT_PROP, FDT_END_NODE}
  /\ Skip(1)
  /\ UNCHANGED <<reading, rest_at, tree_lines>>

\* The node is done; the one around it goes on behind its end.
EndNode ==
  /\ NodeStep /\ Token = FDT_END_NODE
  /\ Puts(Line(Len(depth_at) - 1, <<>>, <<>>, 0))
  /\ LET outer == Front(depth_at)
     IN  IF outer = <<>>
         THEN depth_at' = outer /\ reading' = "rest" /\ rest_at' = Node.i
         ELSE /\ depth_at' = [outer EXCEPT ![Len(outer)].i = @ + Node.i + 1 + 1]
              /\ UNCHANGED <<reading, rest_at>>

Trailer ==
  /\ TreeStep("rest")
  /\ rest_at' = rest_at + 1
  /\ reading' = IF WordAt(0, rest_at + 1) = FDT_END THEN "read" ELSE "rest"
  /\ IF WordAt(0, rest_at + 1) \in {FDT_NOP, FDT_END} THEN UNCHANGED tree_lines
     ELSE Puts(Line(0, <<-1>>, <<>>, 0))
  /\ UNCHANGED <<mem_map, map_lines, depth_at>>

TreeNext == Reserved \/ BeginNode \/ Property \/ UnknownWord \/ EndNode \/ Trailer

TreeSpec == TreeInit /\ [][TreeNext]_tree_vars

-----------------------------------------------------------------------------
\* The name without a word that is only its NUL.
Shown(name) ==
  SubSeq(name, 1, IF Last(name) <= FDT_END THEN Len(name) - 1 ELSE Len(name))

\* The bytes of a property's value that are printed.
AsNumbers(item) ==
  /\ item.len % 4 = 0 /\ item.name # <<Compatible>>
  /\ [len |-> item.len, words |-> item.words] \notin TextValues
ShownBytes(item) == IF item.len = 0 \/ AsNumbers(item) THEN item.len ELSE item.len - 1

\* What is printed of item k.
LineOf(d, k) ==
  LET depth == Within(d, k - 1)
  IN  CASE d[k].is = "begin" -> <<Line(depth, Shown(d[k].name), <<>>, 0)>>
        [] d[k].is = "end" -> <<Line(depth - 1, <<>>, <<>>, 0)>>
        [] d[k].is = "property" -> <<Line(depth, d[k].name, d[k].words, ShownBytes(d[k]))>>
        [] d[k].is = "nop" -> <<>>

\* The reservations are printed, and then the nodes and the properties in the
\* order of the blob, each at the depth it is at, with its name and its own
\* value, whatever tokens its words may look like, until all of them are: the
\* value is whole where it is taken for numbers, and elsewhere lacks its last
\* byte (device-tree-parser.cpp:105, 123, 174).
TreeReadBack ==
  LET nodes == FlattenSeq([k \in DOMAIN devices |-> LineOf(devices, k)])
  IN  /\ IsPrefix(map_lines, reservations) /\ IsPrefix(tree_lines, nodes)
      /\ tree_lines # <<>> => map_lines = reservations
      /\ reading = "read" => tree_lines = nodes
=============================================================================
