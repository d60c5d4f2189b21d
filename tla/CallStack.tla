----------------------------- MODULE CallStack ------------------------------
(***************************************************************************)
(* How the system ends: the handlers of faults and critical errors and     *)
(* exit, src/src/kernel/exception_handler.cpp, the symbol map they look    *)
(* into, src/tools/symbol_map, and the search of it, utilities.cpp.        *)
(***************************************************************************)
EXTENDS Integers, Sequences, SequencesExt

CONSTANTS
  SymbolLists,  \* what nm lists: sequences of addresses with names, in order
  Stacks,       \* what may be on the stack
  CodeStart,    \* values on the stack are taken for code addresses if they are
  CodeEnd,      \*   between these: 0x7C00 and 0x10000
  NameRoom,     \* how much of a name is printed: 44
  PrintLimit,   \* 30
  FaultCodes    \* the numbers of faults, and the codes of errors

FaultCount == 32

ASSUME CallStackAssumption ==
  /\ CodeStart \in Nat /\ CodeEnd \in Nat
  /\ SymbolLists \subseteq Seq([address : Nat, name : Seq(STRING)])
  /\ \A listed \in SymbolLists : \A i, j \in DOMAIN listed :
       i < j => listed[i].address < listed[j].address
  /\ Stacks \subseteq Seq(Nat)
  /\ NameRoom \in Nat /\ PrintLimit \in Nat
  /\ FaultCodes \subseteq Nat

VARIABLES
  symbols,     \* history: the functions, with their names
  entries,     \* the symbol map: addresses, and where the names begin
  strs,        \* the names of the symbol map, one behind another
  ending,      \* "running", "panic", "critical", "exit", "halted"
  error_code,  \* of the fault or the error
  log,         \* what the log was told
  stack,       \* the words of the stack that are not looked at yet
  whole_stack, \* history: all of them
  trace,       \* the lines of the call stack
  power        \* whether the machine is on

callstack_vars == <<symbols, entries, strs, ending, error_code, log, stack, whole_stack, trace, power>>

\* The tool appends each name to the names, and notes where it begins.
WithSymbol(m, symbol) ==
  [offtab |-> Append(m.offtab, [address |-> symbol.address, symbol_offset |-> Len(m.strtab)]),
   strtab |-> m.strtab \o symbol.name]

SymbolMap(listed) ==
  LET map[n \in 0 .. Len(listed)] ==
        IF n = 0 THEN [offtab |-> <<>>, strtab |-> <<>>] ELSE WithSymbol(map[n - 1], listed[n])
  IN  map[Len(listed)]

CallStackInit ==
  /\ symbols \in SymbolLists
  /\ entries = SymbolMap(symbols).offtab
  /\ strs = SymbolMap(symbols).strtab
  /\ ending = "running"
  /\ error_code = 0
  /\ log = <<>>
  /\ stack = <<>> /\ whole_stack = <<>>
  /\ trace = <<>>
  /\ power = TRUE

-----------------------------------------------------------------------------
(***************************************************************************)
(* The search for the function a value lies in.  Behind the last entry are *)
(* the names, whose characters make an address above all code.             *)
(***************************************************************************)
NextAddress(i) == IF i < Len(entries) THEN entries[i + 1].address ELSE CodeEnd

\* A faulty comparison that takes a function to begin with its first byte, so
\* that a return address behind a final call belongs to the function below.
compare_symbols_from_start(value, i) ==
  IF value < entries[i].address THEN -1 ELSE IF value >= NextAddress(i) THEN 1 ELSE 0

compare_symbols(value, i) ==
  IF value <= entries[i].address THEN -1 ELSE IF value > NextAddress(i) THEN 1 ELSE 0

\* Among the entries left + 1 .. right; 0 if there is none.
bsearch(value, left, right) ==
  LET search[w \in (0 .. Len(entries)) \X (0 .. Len(entries))] ==
        LET mid == w[1] + (w[2] - w[1]) \div 2
            res == compare_symbols(value, mid + 1)
        IN  IF w[1] >= w[2] THEN 0
            ELSE IF res < 0 THEN search[<<w[1], mid>>]
            ELSE IF res > 0 THEN search[<<mid + 1, w[2]>>]
            ELSE mid + 1
  IN  search[<<left, right>>]

Unknown == <<"?">>

\* The name of entry i goes as far as that of the next entry.  Without an entry
\* or a next one it is whatever is in memory.
SymbolName(i) ==
  IF i = 0 \/ i = Len(entries) THEN Unknown
  ELSE LET len == entries[i + 1].symbol_offset - entries[i].symbol_offset
       IN  SubSeq(strs, entries[i].symbol_offset + 1,
                  entries[i].symbol_offset + (IF len > NameRoom THEN NameRoom ELSE len))

IsCode(value) == CodeStart < value /\ value < CodeEnd

-----------------------------------------------------------------------------
Ends(how, code, message, stacks) ==
  /\ ending = "running" /\ ending' = how
  /\ error_code' = code
  /\ log' = message
  /\ \E s \in stacks : stack' = s /\ whole_stack' = s
  /\ UNCHANGED <<symbols, entries, strs, trace, power>>

\* k_fault_handler up to the call stack, which k_panic prints.
Fault(fault) == Ends("panic", fault, <<"CPU fault", fault, fault % FaultCount>>, Stacks)

k_critical_error(code) == Ends("critical", code, <<"CRITICAL ERROR", code>>, Stacks)

DumpStep ==
  /\ ending \in {"panic", "critical"}
  /\ stack # <<>> /\ Len(trace) <= PrintLimit
  /\ stack' = Tail(stack)
  /\ trace' = IF IsCode(Head(stack))
              THEN Append(trace, [value |-> Head(stack),
                                  name |-> SymbolName(bsearch(Head(stack), 0, Len(entries)))])
              ELSE trace
  /\ UNCHANGED <<symbols, entries, strs, ending, error_code, log, whole_stack, power>>

\* A fault then exits with its number; a critical error halts, and leaves the
\* machine on.
DumpDone ==
  /\ ending \in {"panic", "critical"}
  /\ stack = <<>> \/ Len(trace) > PrintLimit
  /\ ending' = IF ending = "panic" THEN "exit" ELSE "halted"
  /\ error_code' = IF ending = "panic" THEN -error_code ELSE error_code
  /\ UNCHANGED <<symbols, entries, strs, log, stack, whole_stack, trace, power>>

Exit(code) == Ends("exit", code, <<>>, {<<>>})

Exits ==
  /\ ending = "exit"
  /\ ending' = "halted"
  /\ log' = log \o <<"EXIT", error_code>>
  /\ power' = FALSE
  /\ UNCHANGED <<symbols, entries, strs, error_code, stack, whole_stack, trace>>

CallStackNext ==
  \/ \E code \in FaultCodes : Fault(code) \/ k_critical_error(code) \/ Exit(code)
  \/ DumpStep \/ DumpDone \/ Exits

CallStackSpec == CallStackInit /\ [][CallStackNext]_callstack_vars

-----------------------------------------------------------------------------
\* The code addresses among the first words.
CodesIn(words) ==
  LET codes[n \in 0 .. Len(words)] ==
        IF n = 0 THEN <<>>
        ELSE IF IsCode(words[n]) THEN Append(codes[n - 1], words[n])
        ELSE codes[n - 1]
  IN  codes

\* The call stack names, for each code address on the stack up to the limit and
\* in their order, the function whose call returns there, the one with the byte
\* in front of it, as far as the function is between two of the map (exception_handler.cpp:182, 159).
NamesTheCallers ==
  LET codes == CodesIn(whole_stack)[Len(whole_stack) - Len(stack)]
      Caller(value) == {i \in 1 .. Len(symbols) - 1 :
                          symbols[i].address <= value - 1 /\ value - 1 < symbols[i + 1].address}
  IN  /\ Len(trace) = Len(codes)
      /\ \A k \in DOMAIN trace :
           /\ trace[k].value = codes[k]
           /\ \A i \in Caller(codes[k]) :
                trace[k].name = SubSeq(symbols[i].name, 1, IF Len(symbols[i].name) > NameRoom
                                                           THEN NameRoom ELSE Len(symbols[i].name))
      /\ ending \in {"exit", "halted"} => stack = <<>> \/ Len(trace) = PrintLimit + 1
=============================================================================
