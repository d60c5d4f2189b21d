----------------------------- MODULE LineEditor -----------------------------
(***************************************************************************)
(* The command line of the shell: the text being edited                    *)
(* (src/src/demo/shell/edittext.cpp), the keys (lineinput.cpp), the        *)
(* history and the completions (completions.cpp), and the line of the      *)
(* terminal on which all of it is printed.                                 *)
(***************************************************************************)
EXTENDS Integers, Sequences, SequencesExt

CONSTANTS
  Letters,   \* the printable characters, " " among them
  Commands,  \* the commands: name, and what a completion puts behind it: nothing
  Files,     \* the files, the same
  MaxText,   \* bound: the length of a line, of which str holds 1024
  MaxKeys    \* bound: the keys pressed

ASSUME EditorAssumption ==
  /\ " " \in Letters
  /\ Letters \cap {"\n", "back", "none", "UP", "DOWN", "TAB"} = {}
  /\ Commands \in Seq([name : Seq(Letters), tail : {<<>>}])
  /\ Files \in Seq([name : Seq(Letters), tail : Seq(Letters \cup {"/"})])
  /\ MaxText \in Nat /\ MaxKeys \in Nat

VARIABLES
  str, cursorI,                 \* the text and the place of the cursor in it
  lineHistoryBuffer, historyI,  \* the lines, and which is shown: -1 is an empty one
  lastCh,                       \* the key before
  terminal,                     \* the line of the terminal, and its cursor
  prompt,                       \* where the text starts on it
  typing,                       \* whether a line is being read
  keys, pressed,                \* how many keys there were, and history: the last
  spoilt                        \* history: something was printed over the line

editor_vars == <<str, cursorI, lineHistoryBuffer, historyI, lastCh, terminal, prompt, typing,
                 keys, pressed, spoilt>>

-----------------------------------------------------------------------------
(***************************************************************************)
(* The terminal.                                                           *)
(***************************************************************************)
Emit(t, ch) ==
  CASE ch = "\n" -> [line |-> <<>>, column |-> 0]
    [] ch = "back" -> [t EXCEPT !.column = IF @ = 0 THEN 0 ELSE @ - 1]
    [] OTHER -> [line |-> IF t.column < Len(t.line) THEN [t.line EXCEPT ![t.column + 1] = ch]
                          ELSE Append(t.line, ch),
                 column |-> t.column + 1]

Output(t, chars) ==
  LET out[n \in 0 .. Len(chars)] == IF n = 0 THEN t ELSE Emit(out[n - 1], chars[n])
  IN  out[Len(chars)]

Times(ch, n) == [i \in 1 .. n |-> ch]

\* CommandLineText.clear, of a text with its cursor, and display.
clear(text, cursor) == Times("back", cursor) \o Times(" ", Len(text)) \o Times("back", Len(text))
display(text, cursor) == text \o Times("back", Len(text) - cursor)

\* A faulty refreshLine that goes back over the text before it clears it.
refreshLine_from_end(t, text, cursor, newText, newCursor) ==
  Output(t, clear(text, Len(text)) \o display(newText, newCursor))

refreshLine(t, text, cursor, newText, newCursor) ==
  Output(t, clear(text, cursor) \o display(newText, newCursor))

\* The text becomes newText, on the terminal as well.
Edited(newText, newCursor) ==
  /\ str' = newText
  /\ cursorI' = newCursor
  /\ terminal' = refreshLine(terminal, str, cursorI, newText, newCursor)
  /\ spoilt' = FALSE
  /\ UNCHANGED prompt

fromString(text) == Edited(text, Len(text))

SameText == UNCHANGED <<str, cursorI, terminal, prompt, spoilt>>

UpToCursor == SubSeq(str, 1, cursorI)
FromCursor == SubSeq(str, cursorI + 1, Len(str))

-----------------------------------------------------------------------------
EditorInit ==
  /\ str = <<>> /\ cursorI = 0
  /\ lineHistoryBuffer = <<>> /\ historyI = 0
  /\ lastCh = "none"
  /\ terminal = [line |-> <<>>, column |-> 0]
  /\ prompt = 0
  /\ typing = FALSE
  /\ keys = 0
  /\ pressed = "none"
  /\ spoilt = FALSE

\* readLine begins: for the shell behind a prompt, where a command may have
\* left the cursor in the line, for cat without one.  prepare adds a line.
Prepare ==
  /\ ~typing /\ keys < MaxKeys
  /\ typing' = TRUE
  /\ \E printed \in {<<>>, <<">">>, <<"x", ">">>} :
       /\ terminal' = Output([line |-> <<>>, column |-> 0], printed)
       /\ prompt' = Len(printed)
  /\ str' = <<>>
  /\ cursorI' = 0
  /\ historyI' = Len(lineHistoryBuffer)
  /\ lineHistoryBuffer' = Append(lineHistoryBuffer, <<>>)
  /\ lastCh' = "none"
  /\ pressed' = "none"
  /\ spoilt' = FALSE
  /\ UNCHANGED keys

Press(key) ==
  /\ typing /\ keys < MaxKeys
  /\ keys' = keys + 1
  /\ pressed' = key
  /\ lastCh' = key

(***************************************************************************)
(* SimpleKeyProcessor.                                                     *)
(***************************************************************************)
SameHistory == UNCHANGED <<lineHistoryBuffer, historyI, typing>>

Type(ch) ==
  /\ Len(str) < MaxText
  /\ Press(ch)
  /\ Edited(UpToCursor \o <<ch>> \o FromCursor, cursorI + 1)
  /\ SameHistory

Backspace ==
  /\ Press("BACKSPACE")
  /\ IF cursorI > 0 THEN Edited(Front(UpToCursor) \o FromCursor, cursorI - 1) ELSE SameText
  /\ SameHistory

Left ==
  /\ Press("LEFT")
  /\ IF cursorI > 0 THEN Edited(str, cursorI - 1) ELSE SameText
  /\ SameHistory

Right ==
  /\ Press("RIGHT")
  /\ IF cursorI < Len(str) THEN Edited(str, cursorI + 1) ELSE SameText
  /\ SameHistory

\* ESC, and a key that is none, only print a message.
Other ==
  /\ Press("ESC")
  /\ terminal' = Output(terminal, <<"<", ">", "\n">>)
  /\ prompt' = 0
  /\ spoilt' = TRUE
  /\ UNCHANGED <<str, cursorI>> /\ SameHistory

(***************************************************************************)
(* ReadLineWithHistory.  The line shown is stored before another one is.   *)
(***************************************************************************)
Stored ==
  IF historyI >= 0 THEN [lineHistoryBuffer EXCEPT ![historyI + 1] = str] ELSE lineHistoryBuffer

\* CTRL_C ends the line like ENTER, and is printed.
Submit(key) ==
  /\ Press(key)
  /\ lineHistoryBuffer' = [lineHistoryBuffer EXCEPT ![Len(lineHistoryBuffer)] = str]
  /\ terminal' = Output(terminal, IF key = "CTRL_C" THEN <<"^", "C", "\n">> ELSE <<"\n">>)
  /\ typing' = FALSE
  /\ UNCHANGED <<str, cursorI, historyI, prompt, spoilt>>

Up ==
  /\ Press("UP")
  /\ lineHistoryBuffer' = Stored
  /\ IF historyI > 0 THEN historyI' = historyI - 1 /\ fromString(Stored[historyI])
     ELSE historyI' = -1 /\ fromString(<<>>)
  /\ UNCHANGED typing

\* A faulty way down that forgets what was edited.
Down_forgetful ==
  /\ Press("DOWN")
  /\ IF historyI < Len(lineHistoryBuffer) - 1
     THEN historyI' = historyI + 1 /\ fromString(lineHistoryBuffer[historyI + 2])
     ELSE UNCHANGED historyI /\ SameText
  /\ UNCHANGED <<typing, lineHistoryBuffer>>

Down ==
  /\ Press("DOWN")
  /\ lineHistoryBuffer' = Stored
  /\ IF historyI < Len(lineHistoryBuffer) - 1
     THEN historyI' = historyI + 1 /\ fromString(Stored[historyI + 2])
     ELSE UNCHANGED historyI /\ SameText
  /\ UNCHANGED typing

(***************************************************************************)
(* ReadLineWithCompletions.                                                *)
(***************************************************************************)
\* strSplit: a separator ends a word, further ones behind it are skipped, and
\* one at the very start ends an empty word.
strSplit(line, separator) ==
  LET split[n \in 0 .. Len(line)] ==
        IF n = 0 THEN [args |-> <<>>, word |-> <<>>]
        ELSE IF line[n] # separator
             THEN [split[n - 1] EXCEPT !.word = Append(@, line[n])]
        ELSE IF n > 1 /\ line[n - 1] = separator THEN split[n - 1]
        ELSE [args |-> Append(split[n - 1].args, split[n - 1].word), word |-> <<>>]
      all == split[Len(line)]
  IN  IF all.word = <<>> THEN all.args ELSE Append(all.args, all.word)

Words == strSplit(UpToCursor, " ")
lstArg == IF cursorI > 0 /\ str[cursorI] # " " THEN Last(Words) ELSE <<>>

\* What goes on with a text, in the order of the list.
getCompletions(list, partialText) ==
  LET found[n \in 0 .. Len(list)] ==
        IF n = 0 THEN <<>>
        ELSE IF IsPrefix(partialText, list[n].name)
             THEN Append(found[n - 1], list[n].name \o list[n].tail)
        ELSE found[n - 1]
  IN  found[Len(list)]

\* The first word is a command's, every other one a file's.
Matches == getCompletions(IF Len(Words) = 1 THEN Commands ELSE Files, lstArg)

\* A faulty comparison that leaves out the last match.
CommonLength_front(matches, from) ==
  IF matches = <<>> THEN 0
  ELSE LET Ends(k) ==
             \/ Len(matches[1]) <= from + k
             \/ \E i \in DOMAIN Front(matches) :
                  Len(matches[i]) <= from + k \/ matches[i][from + k + 1] # matches[1][from + k + 1]
       IN  CHOOSE k \in 0 .. Len(matches[1]) : Ends(k) /\ \A j \in 0 .. k - 1 : ~Ends(j)

\* How far all matches agree behind the first from characters.
CommonLength(matches, from) ==
  IF matches = <<>> THEN 0
  ELSE LET Ends(k) == \E i \in DOMAIN matches :
             Len(matches[i]) <= from + k \/ matches[i][from + k + 1] # matches[1][from + k + 1]
       IN  CHOOSE k \in 0 .. Len(matches[1]) : Ends(k) /\ \A j \in 0 .. k - 1 : ~Ends(j)

\* TAB inserts what all matches share, and pressed again lists them.
Tab ==
  LET common == CommonLength(Matches, Len(lstArg))
  IN  /\ typing /\ keys < MaxKeys
      /\ Len(str) + common <= MaxText
      /\ keys' = keys + 1
      /\ pressed' = "TAB"
      /\ IF common > 0
         THEN /\ Edited(UpToCursor \o SubSeq(Matches[1], Len(lstArg) + 1, Len(lstArg) + common)
                          \o FromCursor, cursorI + common)
              /\ lastCh' = " "
         ELSE /\ lastCh' = "TAB"
              /\ IF Len(Matches) > 1 /\ lastCh = "TAB"
                 THEN /\ terminal' = Output(terminal, <<"\n", "\n", ">">> \o display(str, cursorI))
                      /\ prompt' = 1
                      /\ spoilt' = FALSE
                      /\ UNCHANGED <<str, cursorI>>
                 ELSE SameText
      /\ SameHistory

EditorNext ==
  \/ Prepare
  \/ \E ch \in Letters : Type(ch)
  \/ Backspace \/ Left \/ Right \/ Other
  \/ Submit("ENTER") \/ Submit("CTRL_C")
  \/ Up \/ Down \/ Tab

EditorSpec == EditorInit /\ [][EditorNext]_editor_vars

-----------------------------------------------------------------------------
\* Unless a message was printed over it, the line of the terminal shows the text
\* behind the prompt, nothing that was deleted, and the cursor where it is in the
\* text (edittext.cpp:80).
TerminalShowsText ==
  typing /\ ~spoilt =>
    /\ terminal.column = prompt + cursorI
    /\ \A i \in 1 .. Len(str) : terminal.line[prompt + i] = str[i]
    /\ \A i \in prompt + Len(str) + 1 .. Len(terminal.line) : terminal.line[i] = " "

\* The lines as the user sees them when walking through the history.
LinesSeen == Stored

\* Walking through the history changes no line, not even one that was being
\* edited; the line submitted becomes the last one; and TAB inserts at the cursor
\* what every match goes on with, and all of it that they share.  (What is typed
\* into the empty line above the first belongs to no line of the history, and is
\* lost.)  (completions.cpp:26, :169).
LinesKept ==
  /\ pressed' \in {"UP", "DOWN"} => LinesSeen' = LinesSeen
  /\ typing /\ ~typing' => Last(lineHistoryBuffer') = str
  /\ pressed' = "TAB" /\ Matches # <<>> =>
       LET inserted == SubSeq(str', cursorI + 1, cursorI')
       IN  /\ str' = UpToCursor \o inserted \o FromCursor
           /\ \A i \in DOMAIN Matches : IsPrefix(lstArg \o inserted, Matches[i])
           /\ ~\E ch \in Letters \cup {"/"} : \A i \in DOMAIN Matches :
                 IsPrefix(lstArg \o inserted \o <<ch>>, Matches[i])

KeysKeepLines == [][LinesKept]_editor_vars
=============================================================================
