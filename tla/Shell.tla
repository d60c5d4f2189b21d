------------------------------- MODULE Shell --------------------------------
(***************************************************************************)
(* The commands of the shell, src/src/demo/shell/main.cpp, and the         *)
(* directories it moves between, filesystem.cpp.                           *)
(*                                                                         *)
(* A word of a command line is known by name; what the code finds in its   *)
(* characters is in the constant Word.  How a line is edited and split is  *)
(* in LineEditor.                                                          *)
(***************************************************************************)
EXTENDS Integers, Sequences, FiniteSets, SequencesExt

CONSTANTS
  Names,      \* the words that are typed
  Word,       \* for each of them: whether it starts with a dash, the letter behind
              \* it, the number behind that, the number the whole word is, and, if
              \* there is a "/", what stands before and behind the last one
  Contents,   \* the text of each file, and of what is typed for a command to read
  Listings,   \* what is in each directory, and whether it is hidden
  Home,
  CommandLines,  \* the command lines typed, each a sequence of words
  Chunk,      \* how many characters fgets gets at most: 1023
  IntMax      \* INT_MAX

Typed == "typed"

ASSUME ShellAssumption ==
  /\ \A w \in Names :
       Word[w] \in [dash : BOOLEAN, letter : STRING,
                    tail : [is : {"none", "text", "number"}, n : Int],
                    value : [is : {"text", "number"}, n : Int],
                    cut : {<<>>} \cup STRING \X STRING]
  /\ Typed \in DOMAIN Contents
  /\ \A file \in DOMAIN Contents : Contents[file] \in Seq(STRING)
  /\ Home \in DOMAIN Listings
  /\ CommandLines \subseteq Seq(Names)
  /\ Chunk \in Nat \ {0} /\ IntMax \in Nat \ {0}

VARIABLES
  curDir, lastDir,    \* the working directory, and the one before
  args,               \* the command line
  phase,              \* "prompt", "exec", "done", "exited"
  printed,            \* what the command printed
  ret                 \* what it returned

shell_vars == <<curDir, lastDir, args, phase, printed, ret>>

ShellInit ==
  /\ curDir \in DOMAIN Listings
  /\ lastDir = curDir
  /\ args = <<>>
  /\ phase = "prompt"
  /\ printed = <<>>
  /\ ret = 0

-----------------------------------------------------------------------------
(***************************************************************************)
(* parse_args, over the words behind the command's name.                   *)
(***************************************************************************)
NoLimit == -1

headOpts == <<
  [letter |-> "n", type |-> "Int",  exclusive |-> FALSE, default |-> NoLimit, min |-> 1, max |-> IntMax],
  [letter |-> "c", type |-> "Int",  exclusive |-> TRUE,  default |-> NoLimit, min |-> 1, max |-> IntMax],
  [letter |-> " ", type |-> "List", exclusive |-> FALSE, default |-> 0, min |-> 0, max |-> 0] >>

dateOpts ==
  LET Option(letter, type, max, exclusive) ==
        [letter |-> letter, type |-> type, exclusive |-> exclusive, default |-> 0, min |-> 0, max |-> max]
  IN  << Option("j", "Flag", 0, FALSE), Option("n", "Flag", 0, FALSE), Option("R", "Flag", 0, FALSE),
         Option("u", "Flag", 0, FALSE), Option("r", "Int", IntMax, FALSE), Option("v", "Str", 0, FALSE),
         Option("f", "Str", 0, FALSE), Option(" ", "Str", 0, TRUE), Option("+", "List", 0, FALSE) >>

\* The cast of strtol's answer.
Int32(n) == ((n + IntMax + 1) % (2*(IntMax + 1))) - IntMax - 1

NothingParsed(optV) ==
  [status |-> "ok", pending |-> 0, wasSet |-> {}, list |-> 0,
   result |-> [x \in DOMAIN optV |-> optV[x].default]]

\* Option x gets its value; a Flag needs one too.
Take(s, optV, x, value) ==
  LET res == Int32(value.n)
  IN  [s EXCEPT !.pending = 0, !.wasSet = @ \cup {x}, !.result[x] = res,
                !.status = IF value.is = "text" \/ res < optV[x].min \/ res > optV[x].max
                           THEN "bad value" ELSE @]

\* Word i: the value of the option before it, an option, or the first of the list.
ParseWord(s, optV, i, w) ==
  LET matching == {x \in DOMAIN optV : optV[x].letter = w.letter}
  IN  IF s.status # "ok" \/ s.list # 0 THEN s
      ELSE IF s.pending # 0 THEN Take(s, optV, s.pending, w.value)
      ELSE IF ~w.dash
           THEN IF \E x \in DOMAIN optV : optV[x].type = "List" THEN [s EXCEPT !.list = i] ELSE s
      ELSE IF matching = {} THEN [s EXCEPT !.status = "illegal option"]
      ELSE LET x == CHOOSE y \in matching : TRUE
           IN  IF w.tail.is = "none" THEN [s EXCEPT !.pending = x] ELSE Take(s, optV, x, w.tail)

\* Two options were set with only options between them that exclude the last.
Combined(optV, wasSet) ==
  \E x, y \in wasSet : x < y /\ \A k \in x + 1 .. y : optV[k].exclusive

parse_words(optV, words) ==
  LET parsed[i \in 0 .. Len(words)] ==
        IF i = 0 THEN NothingParsed(optV) ELSE ParseWord(parsed[i - 1], optV, i, Word[words[i]])
  IN  parsed[Len(words)]

parse_args(optV, words) ==
  LET parsed == parse_words(optV, words)
  IN  [parsed EXCEPT !.status =
         IF @ # "ok" THEN @
         ELSE IF parsed.pending # 0 THEN "requires an argument"
         ELSE IF Combined(optV, parsed.wasSet) THEN "can't combine"
         ELSE "ok"]

-----------------------------------------------------------------------------
(***************************************************************************)
(* Files.  readLine returns what fgets gets: a line with its newline, or   *)
(* as much of it as fits.  What is typed comes in whole lines.             *)
(***************************************************************************)
IsWhole(file, line) ==
  \/ line[Len(line)] = "\n"
  \/ file # Typed /\ Len(line) = Chunk

fgets(file, lines, ch) ==
  IF lines = <<>> \/ IsWhole(file, lines[Len(lines)]) THEN Append(lines, <<ch>>)
  ELSE [lines EXCEPT ![Len(lines)] = Append(@, ch)]

ReadLines(file) ==
  LET lines[i \in 0 .. Len(Contents[file])] ==
        IF i = 0 THEN <<>> ELSE fgets(file, lines[i - 1], Contents[file][i])
  IN  lines[Len(Contents[file])]

IsOpen(file) == file \in DOMAIN Contents

Text(file, chars) == [kind |-> "text", of |-> file, chars |-> chars]
Message(kind, of) == [kind |-> kind, of |-> of, chars |-> <<>>]

(***************************************************************************)
(* The commands: what they print and return.                               *)
(***************************************************************************)
Answer(out, code) ==
  /\ printed' = out
  /\ ret' = code

Operands == Tail(args)

ls_cmd ==
  LET paths == IF Operands = <<>> THEN <<curDir>> ELSE Operands
      Listing(i) ==
        (IF Len(Operands) > 1 THEN <<Message("header", paths[i])>> ELSE <<>>)
        \o IF paths[i] \notin DOMAIN Listings THEN <<Message("not found", paths[i])>>
           ELSE <<Text(paths[i], SelectSeq(Listings[paths[i]], LAMBDA entry : ~entry.hidden))>>
  IN  Answer(FlattenSeq([i \in DOMAIN paths |-> Listing(i)]), 0)

Sources(words) == IF words = <<>> THEN <<Typed>> ELSE words

cat_cmd ==
  LET Cat(file) ==
        IF IsOpen(file) THEN <<Text(file, FlattenSeq(ReadLines(file)))>>
        ELSE <<Message("not found", file)>>
      files == Sources(Operands)
  IN  Answer(FlattenSeq([i \in DOMAIN files |-> Cat(files[i])]), 0)

\* A faulty head that counts the bytes of a line only after it printed it.
HeadLine_late(s, line, lineCount, byteCount) ==
  IF s.done THEN s
  ELSE [text |-> s.text \o line, cc |-> s.cc + Len(line), ln |-> s.ln + 1,
        done |-> s.ln + 1 = lineCount \/ (byteCount # NoLimit /\ s.cc + Len(line) >= byteCount)]

\* One line that head has read.
HeadLine(s, line, lineCount, byteCount) ==
  IF s.done THEN s
  ELSE IF byteCount # NoLimit /\ s.cc + Len(line) > byteCount
       THEN [s EXCEPT !.text = @ \o SubSeq(line, 1, byteCount - s.cc), !.done = TRUE]
       ELSE [text |-> s.text \o line, cc |-> s.cc + Len(line), ln |-> s.ln + 1,
             done |-> s.ln + 1 = lineCount]

Counts(parsed) ==
  LET lines == parsed.result[1]
      bytes == parsed.result[2]
  IN  [lines |-> IF lines = NoLimit /\ bytes = NoLimit THEN 10 ELSE lines, bytes |-> bytes]

\* What it printed of them in the end.
HeadOf(lines, lineCount, byteCount) ==
  LET after[j \in 0 .. Len(lines)] ==
        IF j = 0 THEN [text |-> <<>>, cc |-> 0, ln |-> 0, done |-> FALSE]
        ELSE HeadLine(after[j - 1], lines[j], lineCount, byteCount)
  IN  after[Len(lines)].text

head_cmd ==
  LET parsed == parse_args(headOpts, Operands)
      counts == Counts(parsed)
      files == IF parsed.list = 0 THEN <<Typed>> ELSE SubSeq(Operands, parsed.list, Len(Operands))
      Head1(file) ==
        IF ~IsOpen(file) THEN <<Message("not found", file)>>
        ELSE (IF Len(files) > 1 THEN <<Message("header", file)>> ELSE <<>>)
             \o <<Text(file, HeadOf(ReadLines(file), counts.lines, counts.bytes))>>
  IN  IF parsed.status # "ok" THEN Answer(<<Message(parsed.status, "head")>>, 1)
      ELSE Answer(FlattenSeq([i \in DOMAIN files |-> Head1(files[i])]), 0)

\* date answers 1 where it succeeds.
date_cmd ==
  LET status == parse_args(dateOpts, Operands).status
  IN  IF status = "ok" THEN Answer(<<Message("date", "now")>>, 1)
      ELSE Answer(<<Message(status, "date")>>, 0)

echo_cmd ==
  LET quiet == Operands # <<>> /\ Word[Operands[1]].dash /\ Word[Operands[1]].letter = "n"
                           /\ Word[Operands[1]].tail.is = "none"
      shown == IF quiet THEN Tail(Operands) ELSE Operands
      Joined(out, w) == IF out = <<>> THEN <<w>> ELSE out \o <<" ", w>>
  IN  Answer(<<Text("echo", FoldLeft(Joined, <<>>, shown) \o IF quiet THEN <<>> ELSE <<"\n">>)>>, 0)

basename(w) == IF Word[w].cut = <<>> THEN w ELSE Word[w].cut[2]
dirname(w) == IF Word[w].cut = <<>> THEN "." ELSE Word[w].cut[1]

basename_cmd ==
  IF Operands = <<>> THEN Answer(<<Message("usage", "basename")>>, 1)
  ELSE Answer(<<Message("name", basename(Operands[1]))>>, 0)

dirname_cmd ==
  IF Operands = <<>> THEN Answer(<<Message("usage", "dirname")>>, 1)
  ELSE Answer(<<Message("name", dirname(Operands[1]))>>, 0)

sleep_cmd ==
  IF Len(Operands) # 1 THEN Answer(<<Message("usage", "sleep")>>, 1) ELSE Answer(<<>>, 0)

\* true, false, and those that print their own name or the list of commands.
simple_cmd ==
  CASE args[1] \in {"true", "false"} -> Answer(<<>>, IF args[1] = "true" THEN 0 ELSE 1)
    [] args[1] \in {"help", "for", "if", "shell", "longcommand"} -> Answer(<<Message("name", args[1])>>, 0)
    [] OTHER -> Answer(<<Message("command not found", args[1])>>, 0)

(***************************************************************************)
(* changeDirectory keeps the directory it leaves, also where it cannot     *)
(* leave it; popDirectory goes to the one kept.                            *)
(***************************************************************************)
changeDirectory(path) ==
  /\ lastDir' = curDir
  /\ curDir' = IF path \in DOMAIN Listings THEN path ELSE curDir

cd_cmd ==
  /\ changeDirectory(CASE Operands = <<>> -> Home
                       [] Operands # <<>> /\ Operands[1] = "-" -> lastDir
                       [] OTHER -> Operands[1])
  /\ Answer(<<>>, 0)

exit_cmd ==
  Answer(<<Message("exiting", "exit")>>,
         IF Operands = <<>> THEN 0 ELSE Int32(Word[Operands[1]].value.n))

-----------------------------------------------------------------------------
(***************************************************************************)
(* The loop of main: a prompt, a line, a command.                          *)
(***************************************************************************)
ReadLine ==
  /\ phase = "prompt"
  /\ args' \in CommandLines
  /\ phase' = "exec"
  /\ UNCHANGED <<curDir, lastDir, printed, ret>>

\* CTRL_C at the prompt.
Interrupted ==
  /\ phase = "prompt"
  /\ phase' = "exited"
  /\ UNCHANGED <<curDir, lastDir, args, printed, ret>>

exec_command ==
  /\ phase = "exec"
  /\ UNCHANGED args
  /\ IF args = <<>> THEN phase' = "done" /\ Answer(<<>>, 0) /\ UNCHANGED <<curDir, lastDir>>
     ELSE /\ phase' = IF args[1] = "exit" THEN "exited" ELSE "done"
          /\ args[1] # "cd" => UNCHANGED <<curDir, lastDir>>
          /\ CASE args[1] = "ls"       -> ls_cmd
               [] args[1] = "cat"      -> cat_cmd
               [] args[1] = "cd"       -> cd_cmd
               [] args[1] = "date"     -> date_cmd
               [] args[1] = "echo"     -> echo_cmd
               [] args[1] = "exit"     -> exit_cmd
               [] args[1] = "head"     -> head_cmd
               [] args[1] = "sleep"    -> sleep_cmd
               [] args[1] = "basename" -> basename_cmd
               [] args[1] = "dirname"  -> dirname_cmd
               [] OTHER -> simple_cmd

Prompt ==
  /\ phase = "done"
  /\ phase' = "prompt"
  /\ args' = <<>> /\ printed' = <<>> /\ ret' = 0
  /\ UNCHANGED <<curDir, lastDir>>

ShellNext == ReadLine \/ Interrupted \/ exec_command \/ Prompt

ShellSpec == ShellInit /\ [][ShellNext]_shell_vars

-----------------------------------------------------------------------------
Newlines(chars, k) == Cardinality({i \in 1 .. k : chars[i] = "\n"})

\* The first n lines of a text, and its first n characters.
FirstLines(chars, n) ==
  SubSeq(chars, 1, Cardinality({k \in DOMAIN chars : Newlines(chars, k - 1) < n}))
FirstChars(chars, n) == SubSeq(chars, 1, IF n < Len(chars) THEN n ELSE Len(chars))

\* No line of the file is longer than what fgets gets.
LinesFit(file) ==
  \A i \in 1 .. Len(Contents[file]) - Chunk :
    \E j \in i .. i + Chunk - 1 : Contents[file][j] = "\n"

\* How much head is told to print by the k words before the files: nothing, or
\* an option with its number in it or behind it.
Told(words, k) ==
  CASE k = 0 -> [letter |-> "n", value |-> [is |-> "number", n |-> 10]]
    [] k = 1 -> [letter |-> Word[words[1]].letter, value |-> Word[words[1]].tail]
    [] OTHER -> [letter |-> Word[words[1]].letter, value |-> Word[words[2]].value]

Tells(words, k) ==
  /\ k <= Len(words)
  /\ \A i \in k + 1 .. Len(words) : ~Word[words[i]].dash
  /\ k > 0 => Word[words[1]].dash
  /\ k = 2 => Word[words[1]].tail.is = "none"
  /\ Told(words, k).letter \in {"n", "c"}
  /\ Told(words, k).value.is = "number" /\ (k > 0 => Told(words, k).value.n \in 1 .. IntMax)

\* What is printed of a file that there is.
ShownOf(file, out, letter, n) ==
  LET Printed == {i \in DOMAIN out : out[i].kind = "text" /\ out[i].of = file}
  IN  /\ Printed # {}
      /\ \A i \in Printed :
           /\ letter = "c" => out[i].chars = FirstChars(Contents[file], n)
           /\ letter = "n" /\ (file = Typed \/ LinesFit(file)) =>
                out[i].chars = FirstLines(Contents[file], n)

\* head prints of every file that there is its first characters, or its first
\* lines unless one is longer than a buffer, as many as it is told, whatever
\* pieces they are read in; and 10 lines where it is not told (main.cpp:399).
HeadPrintsFirst ==
  phase = "done" /\ args # <<>> /\ args[1] = "head" =>
    \A k \in {n \in 0 .. 2 : Tells(Operands, n)} :
      \A file \in ToSet(Sources(SubSeq(Operands, k + 1, Len(Operands)))) :
        IF IsOpen(file) THEN ShownOf(file, printed, Told(Operands, k).letter, Told(Operands, k).value.n)
        ELSE \E i \in DOMAIN printed : printed[i] = Message("not found", file)
=============================================================================
