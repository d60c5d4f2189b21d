------------------------------ MODULE MCParts -------------------------------
(***************************************************************************)
(* The sequential parts of the system, and the timers of its ports, for    *)
(* TLC: each behaviour is one of one part, with the others at rest.        *)
(***************************************************************************)
EXTENDS Sorting, Console, Uart, LineEditor, HostedTimer, Shell, KernelStart, Discovery,
        Text, Blocks, DeviceTree, CallStack, Monitor, Display

VARIABLE part

Parts == {"sorting", "console", "uart", "editor", "timer", "shell", "kernel", "discovery",
          "text", "blocks", "tree", "callstack", "monitor", "display"}

parts_vars == <<part, sorting_vars, console_vars, uart_vars, editor_vars, hosted_vars, shell_vars,
                kernel_vars, discovery_vars, text_vars, blocks_vars, tree_vars, callstack_vars,
                monitor_vars, display_vars>>

PartsInit ==
  /\ part \in Parts
  /\ ConsoleInit /\ EditorInit
  /\ UartInit
  /\ part # "uart" =>
       /\ interrupts = 0 /\ works
       /\ baud = CHOOSE b \in Bauds : TRUE
       /\ control = CHOOSE f \in LineFormats : TRUE
  /\ HostedInit
  /\ part # "timer" => port = CHOOSE p \in Ports : TRUE
  /\ ShellInit
  /\ part # "shell" => curDir = Home
  /\ IF part = "sorting" THEN SortingInit
     ELSE unsorted = <<>> /\ compare = {} /\ order = <<>> /\ sorted = FALSE
  /\ IF part = "kernel" THEN KernelInit
     ELSE /\ at = "halted" /\ firmware = <<>> /\ si = 0 /\ low = 0 /\ high = 0 /\ remaining = 0
          /\ memory = <<>> /\ cx = 0 /\ dl = 0 /\ boot_entry = 0 /\ typed_keys = 0 /\ downs = 0
          /\ a20 = FALSE /\ protected = FALSE /\ interrupts_on = FALSE
          /\ idt = <<>> /\ idt_code = <<>> /\ vectors = <<>> /\ unmasked = {}
          /\ memorymap_count = 0 /\ settings = <<>> /\ modules = <<>> /\ opened = <<>>
          /\ modes = <<>> /\ fbMode = 0
  /\ IF part = "discovery" THEN DiscoveryInit
     ELSE /\ machine = <<>> /\ stage_of = "scan" /\ found = <<>>
          /\ core_ids = <<>> /\ core = 0 /\ processor = <<>>
  /\ TextInit
  /\ part # "text" => meant = <<>>
  /\ BlocksInit
  /\ IF part = "tree" THEN TreeInit
     ELSE /\ devices = <<>> /\ reservations = <<>> /\ mem_map = <<>> /\ structs = <<>>
          /\ reading = "reserved" /\ depth_at = <<>> /\ rest_at = 0
          /\ map_lines = <<>> /\ tree_lines = <<>>
  /\ CallStackInit
  /\ part # "callstack" => symbols = CHOOSE list \in SymbolLists : TRUE
  /\ MonitorInit
  /\ part # "monitor" => has_serial
  /\ DisplayInit

Rest(p) ==
  /\ UNCHANGED part
  /\ p # "sorting" => UNCHANGED sorting_vars
  /\ p \notin {"console", "monitor"} => UNCHANGED console_vars
  /\ p # "monitor" => UNCHANGED monitor_vars
  /\ p # "uart" => UNCHANGED uart_vars
  /\ p # "editor" => UNCHANGED editor_vars
  /\ p # "timer" => UNCHANGED hosted_vars
  /\ p # "shell" => UNCHANGED shell_vars
  /\ p # "kernel" => UNCHANGED kernel_vars
  /\ p # "discovery" => UNCHANGED discovery_vars
  /\ p # "text" => UNCHANGED text_vars
  /\ p # "blocks" => UNCHANGED blocks_vars
  /\ p # "tree" => UNCHANGED tree_vars
  /\ p # "callstack" => UNCHANGED callstack_vars
  /\ p # "display" => UNCHANGED display_vars

PartsNext ==
  /\ Rest(part)
  /\ \/ part = "sorting" /\ SortingNext
     \/ part = "console" /\ ConsoleNext
     \/ part = "uart" /\ UartNext
     \/ part = "editor" /\ EditorNext
     \/ part = "timer" /\ HostedNext
     \/ part = "shell" /\ ShellNext
     \/ part = "kernel" /\ KernelNext
     \/ part = "discovery" /\ DiscoveryNext
     \/ part = "text" /\ TextNext
     \/ part = "blocks" /\ BlocksNext
     \/ part = "tree" /\ TreeNext
     \/ part = "callstack" /\ CallStackNext
     \/ part = "monitor" /\ MonitorNext
     \/ part = "display" /\ DisplayNext

PartsSpec == PartsInit /\ [][PartsNext]_parts_vars

-----------------------------------------------------------------------------
\* The console and the line editor.
CharactersDef == {"a", "b", "\n"}
StringsDef == {<<ch, dh>> : ch \in CharactersDef, dh \in CharactersDef}
LettersDef == {"a", "b", " "}
CommandsDef ==
  << [name |-> <<"a", "b">>, tail |-> <<>>], [name |-> <<"a", "b", "a">>, tail |-> <<>>],
     [name |-> <<"b", "a">>, tail |-> <<>>] >>
FilesDef ==
  << [name |-> <<"a">>, tail |-> <<" ">>], [name |-> <<"b", "a">>, tail |-> <<"/">>],
     [name |-> <<"b", "b">>, tail |-> <<" ">>] >>

-----------------------------------------------------------------------------
\* The log: the first and the last character of charLUT, the block, and others.
BoxBytesDef == ("box" :> <<"E2", "94", "82">>) @@ ("corner" :> <<"E2", "94", "8C">>)
LoggedDef == {"a", "\n", "box", "corner", "block"}

-----------------------------------------------------------------------------
\* The shell: words, what they mean to it, and the lines put together of them.
None == [is |-> "none", n |-> 0]
AnyText == [is |-> "text", n |-> 0]
Number(n) == [is |-> "number", n |-> n]
Meaning(dash, letter, tail, value) ==
  [dash |-> dash, letter |-> letter, tail |-> tail, value |-> value, cut |-> <<>>]
Plain(name) == name :> Meaning(FALSE, "", None, AnyText)
Count(name, n) == name :> Meaning(FALSE, "", None, Number(n))
Option(name, letter, tail) == name :> Meaning(TRUE, letter, tail, AnyText)

WordDef ==
  Plain("ls") @@ Plain("cat") @@ Plain("cd") @@ Plain("date") @@ Plain("echo") @@ Plain("exit")
  @@ Plain("head") @@ Plain("sleep") @@ Plain("basename") @@ Plain("dirname") @@ Plain("true")
  @@ Plain("help") @@ Plain("vi") @@ Plain("a") @@ Plain("b") @@ Plain("typed")
  @@ Count("1", 1) @@ Count("2", 2) @@ Count("17", 17)
  @@ ("/a" :> [Meaning(FALSE, "", None, AnyText) EXCEPT !.cut = <<"", "a">>])
  @@ Option("-", "", None) @@ Option("-n", "n", None) @@ Option("-c", "c", None)
  @@ Option("-n2", "n", Number(2)) @@ Option("-c3", "c", Number(3)) @@ Option("-nx", "n", AnyText)
  @@ Option("-n0", "n", Number(0)) @@ Option("--n", "-", None)
NamesDef == DOMAIN WordDef

\* Lines as long as what fgets gets (Chunk), longer and shorter; ends without a newline.
ContentsDef ==
  ("a" :> <<"x", "\n", "x", "x", "\n", "\n">>) @@ ("b" :> <<"x", "x", "x", "x", "\n", "x">>)
  @@ ("typed" :> <<"x", "x", "x", "x", "\n", "x", "\n", "\n">>)
ListingsDef ==
  ("/" :> <<[name |-> "/a", hidden |-> FALSE], [name |-> ".x", hidden |-> TRUE]>>)
  @@ ("/a" :> <<>>)

UpTo(S, n) == UNION {[1 .. k -> S] : k \in 0 .. n}
HeadWords == {"-n", "-c", "-n2", "-c3", "-nx", "-n0", "--n", "a", "b", "1", "2", "17", "vi"}
CommandLinesDef ==
  {<<>>} \cup {<<"head">> \o words : words \in UpTo(HeadWords, 3)}
  \cup {<<"head", o, n, f, g>> : o \in {"-n", "-c"}, n \in {"1", "2", "17"}, f, g \in {"a", "b", "vi"}}
  \cup {<<"date">> \o words : words \in UpTo({"-n", "2", "a"}, 2)}
  \cup {<<c>> \o words : c \in {"ls", "cat", "cd", "echo", "exit", "sleep", "basename", "dirname",
                                 "true", "vi", "help"},
                         words \in UpTo({"a", "/a", "-", "-n", "2"}, 2)}

-----------------------------------------------------------------------------
\* The disks and the firmware the kernel starts from: one active partition,
\* none, two; starts that end a word, that lie behind it.
Table(active, starts) ==
  [i \in 1 .. 4 |-> [active |-> i \in active,
                     start |-> starts[IF i \in DOMAIN starts THEN i ELSE 1]]]
TablesDef == {Table({1}, <<1, 5>>), Table({2, 4}, <<1, 6>>), Table({}, <<1>>),
              Table({3}, <<2, 7, 7>>), Table({1}, <<17>>)}

Mode(width, height, bpp, linear, answers) ==
  [width |-> width, height |-> height, bpp |-> bpp, linear |-> linear, answers |-> answers]
ModeListsDef ==
  {<<>>, <<Mode(320, 200, 8, TRUE, TRUE)>>,
   <<Mode(1024, 768, 4, TRUE, TRUE), Mode(800, 600, 16, TRUE, TRUE), Mode(1024, 768, 24, TRUE, TRUE),
     Mode(1280, 1024, 24, TRUE, TRUE), Mode(1024, 768, 16, FALSE, TRUE), Mode(1024, 768, 16, TRUE, TRUE)>>,
   <<Mode(640, 480, 16, TRUE, TRUE), Mode(1024, 768, 15, TRUE, FALSE), Mode(1024, 768, 8, TRUE, TRUE)>>}
WantedDef == [width |-> 1024, height |-> 768, bpp |-> 16]

Module(class, name) == [class |-> class, name |-> name]
BuiltDef ==
  <<Module("KEYBOARD_DRIVER", "8048"), Module("SERIAL_DRIVER", "COM4"), Module("SERIAL_DRIVER", "COM3"),
    Module("SERIAL_DRIVER", "COM2"), Module("SERIAL_DRIVER", "COM1"), Module("TEXT_DISPLAY", "vga")>>

-----------------------------------------------------------------------------
\* The machines: whatever may be at five places of the buses, and whatever the
\* memory and the table of the processors say: none, with more entries than there
\* is room for, with one processor twice, without that which runs this.
At(header, bridge, secondary) == [header |-> header, bridge |-> bridge, secondary |-> secondary]
Kinds == {At(0, FALSE, 0), At(128, FALSE, 0), At(1, TRUE, 1), At(1, TRUE, 3), At(129, TRUE, 3)}
Spots == {<<0, 0, 0>>, <<0, 0, 1>>, <<0, 1, 0>>, <<1, 0, 0>>, <<3, 0, 0>>}
Entry(type, id) == [type |-> type, id |-> id]
Cores(ids) == [i \in DOMAIN ids |-> Entry(0, ids[i])]
EntryLists ==
  {<<>>, <<Entry(1, 0)>>, <<Entry(0, 0), Entry(1, 1), Entry(0, 1), Entry(0, 2)>>}
  \cup {Cores(ids) : ids \in {<<0>>, <<1>>, <<0, 1>>, <<1, 0>>, <<0, 2, 4>>, <<0, 1, 2, 3>>, <<2, 2>>}}
FoundMachine(functions, from, to, signatures, apic, listed, bsp) ==
  [functions |-> functions, from |-> from, to |-> to, signatures |-> signatures, ebda |-> 16,
   apic |-> apic, entries |-> listed, bsp |-> bsp]
MachinesDef ==
  {FoundMachine(functions, 0, to, {24}, FALSE, <<>>, 0) :
     functions \in UNION {[S -> Kinds] : S \in SUBSET Spots}, to \in {0, 2}}
  \cup {FoundMachine(functions, 1, 3, {24}, FALSE, <<>>, 0) :
          functions \in UNION {[S -> Kinds] : S \in SUBSET {<<0, 0, 0>>, <<1, 0, 0>>, <<2, 0, 0>>}}}
  \cup {FoundMachine(<<>>, 0, 0, signatures, apic, listed, bsp) :
          signatures \in {{}, {4}, {20}, {24}, {40}, {48}, {64}}, apic \in BOOLEAN,
          listed \in EntryLists, bsp \in {0, 1}}

-----------------------------------------------------------------------------
\* The common library: literals without braces, and formats with both places.
TextsDef == {<<>>, <<"a">>, <<" ", "a", "b">>, <<"a", "\n">>}
FormatsDef == {<<"{", "2", "}", "a", "{", "1", "}">>, <<" ", "{", "1", "}", "{", "2", "}", "\n">>}
EndPointsDef == {[octets |-> <<7, 0, 1, 3>>, port |-> 63]}

-----------------------------------------------------------------------------
\* The device trees: a root, and up to four items in it that end what they begin,
\* with values that are empty, a string, a list of strings, numbers, and other.
RootNode == Item("begin", <<0>>, 0, <<>>)
NodeEnd == Item("end", <<>>, 0, <<>>)
Items == {Item("begin", <<20>>, 0, <<>>), Item("begin", <<100, 0>>, 0, <<>>), NodeEnd,
          Item("nop", <<>>, 0, <<>>), Item("property", <<30>>, 0, <<>>),
          Item("property", <<31>>, 4, <<2>>), Item("property", <<30>>, 5, <<1, 3>>),
          Item("property", <<31>>, 3, <<7>>), Item("property", <<32>>, 8, <<4, 6>>)}
TextValuesDef == {[len |-> 3, words |-> <<7>>]}
Nodes(items, is) == Len(SelectSeq(items, LAMBDA item : item.is = is))
WellFormed(items) ==
  /\ Nodes(items, "begin") = Nodes(items, "end")
  /\ \A k \in DOMAIN items : Nodes(SubSeq(items, 1, k), "begin") >= Nodes(SubSeq(items, 1, k), "end")
DevicesDef == {<<RootNode>> \o items \o <<NodeEnd>> : items \in {i \in UpTo(Items, 4) : WellFormed(i)}}
ReservationsDef == {<<>>, <<[address |-> 0, size |-> 1], [address |-> 1, size |-> 0]>>}

-----------------------------------------------------------------------------
\* The symbol maps, with an empty name and one that is cut, and the stacks.
Symbol(address, name) == [address |-> address, name |-> name]
SymbolListsDef ==
  {<<Symbol(2, <<"a">>)>>,
   <<Symbol(3, <<"a">>), Symbol(5, <<"b", "c", "d", "e">>), Symbol(6, <<"f">>)>>,
   <<Symbol(2, <<"a", "b">>), Symbol(4, <<>>), Symbol(5, <<"c">>), Symbol(7, <<"d", "e", "f">>),
     Symbol(9, <<"g">>)>>}
StacksDef == UpTo({0, 3, 4, 5, 6, 7, 8, 9, 10}, 2) \cup {<<3, 4, 5, 6>>, <<9, 0, 4, 8>>}

-----------------------------------------------------------------------------
\* The view of the schedule: items that are late, wait for the one before, are
\* shorter than a column, run on past the border; and one without a row.
Scheduled(r, s, b) == [row |-> r, start |-> s, complete |-> s + 6, bound |-> b]
ScheduledItems == {Scheduled(0, 3, 5), Scheduled(1, 4, 1), Scheduled(1, 6, 4), Scheduled(0, 13, 8),
                   Scheduled(2, 5, 4)}
SchedulesDef == 
  UpTo(ScheduledItems, 2) \cup {<<Scheduled(0, 3, 5), Scheduled(2, 4, 1), i>> : i \in ScheduledItems}
=============================================================================
