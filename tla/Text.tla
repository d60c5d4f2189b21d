-------------------------------- MODULE Text --------------------------------
(***************************************************************************)
(* The strings of the common library, which never allocate: string.hpp,    *)
(* string_utilities.hpp, formatter.hpp, logger.hpp, endian.hpp and         *)
(* endpoint.hpp in src/include/common.                                     *)
(*                                                                         *)
(* A String<N> is its size N, its text, and whether every assertion on the *)
(* way to it held; an array of characters is a sequence that ends in NUL.  *)
(***************************************************************************)
EXTENDS Integers, Sequences, FiniteSets, FiniteSetsExt, SequencesExt

CONSTANTS
  ByteRange,   \* 256
  Texts,       \* the literals in the program, each a sequence of characters
  Numbers,     \* the numbers that are printed, none negative and each an int
  Formats,     \* the format strings
  EndPoints,   \* four octets and a port
  MaxStrings   \* bound: how often a string is made of another one

IntRange == ByteRange^4

ASSUME TextAssumption ==
  /\ ByteRange \in Nat \ {0, 1}
  /\ Numbers \subseteq 0 .. IntRange \div 2 - 1
  /\ EndPoints \subseteq [octets : [1 .. 4 -> 0 .. ByteRange - 1], port : 0 .. ByteRange^2 - 1]
  /\ MaxStrings \in Nat

VARIABLES
  string,   \* the String
  meant,    \* history: the text it stands for, of any length
  made      \* how many strings were made

text_vars == <<string, meant, made>>

NUL == "nul"
npos == -1
NumChar == <<"0", "1", "2", "3", "4", "5", "6", "7", "8", "9", "A", "B", "C", "D", "E", "F">>
Spaces == {" ", "\n", "\r", "\f", "vt", "\t"}

-----------------------------------------------------------------------------
(***************************************************************************)
(* Strings.  The template parameter N2 of a function is its argument n2.   *)
(***************************************************************************)
NulTerminated(text) == text \o <<NUL>>
Data(s) == s.text \o [i \in 1 .. s.size + 1 - Len(s.text) |-> NUL]

Aborted(size) == [size |-> size, text |-> <<>>, valid |-> FALSE]

strLen(a, length, offset) == Min({i \in 0 .. length - 1 : a[offset + i + 1] = NUL} \cup {length})

\* It copies up to the first NUL, and no more than fits.
initData(size, a, length, offset) ==
  IF length > Len(a) - offset THEN Aborted(size)
  ELSE [size |-> size,
        text |-> SubSeq(a, offset + 1, offset + Min({strLen(a, length, offset), size})),
        valid |-> TRUE]

\* The constructor from a literal, whose NUL counts for the size.
Literal(text) ==
  LET a == NulTerminated(text)
  IN  initData(Len(a), a, Len(a), 0)

Concatenated(s, t) ==
  [size |-> s.size + t.size, text |-> s.text \o t.text, valid |-> s.valid /\ t.valid]

startLengthSubString(s, n2, offset, length) ==
  LET n == IF length = npos THEN Len(s.text) - offset ELSE length
  IN  IF s.valid /\ offset <= Len(s.text) /\ offset + n <= s.size /\ n <= n2
      THEN initData(n2, Data(s), n, offset) ELSE Aborted(n2)

\* A faulty startEndSubString that leaves out the character at the end.
startEndSubString_half_open(s, n2, start, end) ==
  LET last == IF end = npos THEN Len(s.text) ELSE end
  IN  IF s.valid /\ s.text # <<>> /\ last \in 0 .. s.size /\ last - start <= n2
      THEN initData(n2, Data(s), last - start, start) ELSE Aborted(n2)

\* From start to end, with the end; the whole rest has the NUL for its end.
startEndSubString(s, n2, start, end) ==
  LET last == IF end = npos THEN Len(s.text) ELSE end
  IN  IF s.valid /\ s.text # <<>> /\ last \in 0 .. s.size /\ last - start <= n2
      THEN initData(n2, Data(s), last - start + 1, start) ELSE Aborted(n2)

First(S) == IF S = {} THEN npos ELSE Min(S)

compareString(s, t) == s.text = t.text

find(s, t) ==
  First({i \in 0 .. Len(s.text) - Len(t.text) :
           compareString(t, startLengthSubString(s, t.size, i, Len(t.text)))})

findChar(s, ch, offset) == First({i \in offset .. Len(s.text) - 1 : s.text[i + 1] = ch})

trim(s) ==
  LET solid == {i \in 0 .. Len(s.text) - 1 : s.text[i + 1] \notin Spaces}
  IN  IF solid = {} THEN [s EXCEPT !.text = <<>>]
      ELSE startEndSubString(s, s.size, Min(solid), Max(solid))

\* Each search but the first starts behind the newline found; the first one
\* starts behind the first character.
RECURSIVE LinesFrom(_, _)
LinesFrom(s, lineEnd) ==
  LET next == findChar(s, "\n", lineEnd + 1)
  IN  IF next = npos THEN 1 ELSE 1 + LinesFrom(s, next)

LineCount(s) == LinesFrom(s, 0)

-----------------------------------------------------------------------------
(***************************************************************************)
(* Numbers.  A type is its length in bytes and whether it is signed; the   *)
(* base is a size_t, and so is what is done with it.                       *)
(***************************************************************************)
NumberType(bytes, signed) == [bytes |-> bytes, signed |-> signed]
int == NumberType(4, TRUE)
size_t == NumberType(8, FALSE)

As(type, x) ==
  LET range == ByteRange^type.bytes
      low == x % range
  IN  IF type.signed /\ low >= range \div 2 THEN low - range ELSE low

Room(type, base) ==
  type.bytes * (IF base < 4 THEN 8 ELSE IF base <= 7 THEN 4 ELSE IF base < 16 THEN 3 ELSE 2)

RECURSIVE Digits(_, _, _, _)
Digits(type, x, base, room) ==
  LET digit == <<NumChar[(As(size_t, As(int, x)) % base) + 1]>>
      rest == As(type, As(size_t, x) \div base)
  IN  IF As(int, rest) # 0 /\ room > 1 THEN Digits(type, rest, base, room - 1) \o digit ELSE digit

makeNumberString(type, x, base, padding, paddingChar) ==
  LET room == Room(type, base)
      digits == Digits(type, x, base, room)
      pad == Max({0, Min({padding, room}) - Len(digits)})
      text == [i \in 1 .. pad |-> paddingChar] \o digits
  IN  initData(room + 1, NulTerminated(text), Len(text), 0)

NumberString(type, x) == makeNumberString(type, x, 10, 0, " ")

makeHexString(type, x) ==
  Concatenated(Literal(<<"0", "x">>), makeNumberString(type, x, 16, 2*type.bytes, "0"))

\* The digits at the front.
stringToNumber(type, base, s) ==
  LET value(ch) == CHOOSE i \in 1 .. 16 : NumChar[i] = ch
      valid == {NumChar[i] : i \in 1 .. base}
      digits == SelectInSeq(Data(s), LAMBDA ch : ch \notin valid) - 1
  IN  FoldLeft(LAMBDA number, ch : As(type, number*base + value(ch) - 1), 0,
               SubSeq(s.text, 1, digits))

atoi(s) == stringToNumber(int, 10, s)

-----------------------------------------------------------------------------
(***************************************************************************)
(* Formats: parameter i takes the place of the first "{i}".                *)
(***************************************************************************)
RECURSIVE FormatterHelper(_, _, _)
FormatterHelper(index, format, params) ==
  IF params = <<>> \/ ~format.valid THEN format
  ELSE LET place == Concatenated(Concatenated(Literal(<<"{">>), NumberString(size_t, index)),
                                 Literal(<<"}">>))
           pos == find(format, place)
           before == IF pos = 0 THEN initData(format.size, <<NUL>>, 0, 0)
                     ELSE startEndSubString(format, format.size, 0, pos - 1)
           after == startEndSubString(format, format.size, pos + Len(place.text), npos)
       IN  FormatterHelper(index + 1, Concatenated(Concatenated(before, Head(params)), after),
                           Tail(params))

Formatter(format, params) == FormatterHelper(1, Literal(format), params)

LogFormat == <<"{", "1", "}", ":", "{", "2", "}", ":", " ", "{", "3", "}">>

LogMessage(file, line, format, params) ==
  Formatter(LogFormat, <<Literal(file), NumberString(int, line), Formatter(format, params)>>)

-----------------------------------------------------------------------------
(***************************************************************************)
(* Numbers as bytes in the order of a protocol.                            *)
(***************************************************************************)
LittleEndian(x, bytes) == [i \in 1 .. bytes |-> (x \div ByteRange^(i - 1)) % ByteRange]
FromLittleEndian(m_bytes) ==
  FoldRight(LAMBDA byte, x : x*ByteRange + byte, m_bytes, 0)

BigEndian(x, bytes) == [i \in 1 .. bytes |-> (x \div ByteRange^(bytes - i)) % ByteRange]
FromBigEndian(m_bytes) == FoldLeft(LAMBDA x, byte : x*ByteRange + byte, 0, m_bytes)

socketAddress(e) ==
  LET o == e.octets
  IN  [port |-> BigEndian(e.port, 2),
       address |-> BigEndian(((o[1]*ByteRange + o[2])*ByteRange + o[3])*ByteRange + o[4], 4)]

EndPointString(e) ==
  LET a == socketAddress(e)
      addr == FromBigEndian(a.address)
      octet(i) == NumberString(NumberType(1, FALSE), As(NumberType(1, FALSE), addr \div ByteRange^(4 - i)))
  IN  FoldLeft(Concatenated, octet(1),
               <<Literal(<<".">>), octet(2), Literal(<<".">>), octet(3), Literal(<<".">>), octet(4),
                 Literal(<<":">>), NumberString(NumberType(2, FALSE), FromBigEndian(a.port))>>)

-----------------------------------------------------------------------------
(***************************************************************************)
(* What the texts are meant to be.                                         *)
(***************************************************************************)
Numeral(n, base) ==
  LET length == Min({k \in 1 .. 7 : n < base^k})
  IN  [i \in 1 .. length |-> NumChar[((n \div base^(length - i)) % base) + 1]]

Zeros(n) == [i \in 1 .. n |-> "0"]

\* Each "{i}" of the format is parameter i, and the rest is as it is.
RECURSIVE Expanded(_, _)
Expanded(format, params) ==
  IF format = <<>> THEN <<>>
  ELSE IF Head(format) = "{" THEN params[CHOOSE i \in 1 .. 16 : NumChar[i + 1] = format[2]]
                                  \o Expanded(SubSeq(format, 4, Len(format)), params)
  ELSE <<Head(format)>> \o Expanded(Tail(format), params)

Trimmed(text) ==
  LET solid == {i \in DOMAIN text : text[i] \notin Spaces}
  IN  IF solid = {} THEN <<>> ELSE SubSeq(text, Min(solid), Max(solid))

Dotted(e) ==
  FoldLeft(LAMBDA text, i : text \o Numeral(e.octets[i], 10) \o <<IF i = 4 THEN ":" ELSE ".">>,
           <<>>, <<1, 2, 3, 4>>) \o Numeral(e.port, 10)

-----------------------------------------------------------------------------
TextInit ==
  /\ meant \in Texts
  /\ string = Literal(meant)
  /\ made = 0

Becomes(s, text) ==
  /\ made < MaxStrings
  /\ made' = made + 1
  /\ string' = s
  /\ meant' = text

Join(t) == Becomes(Concatenated(string, Literal(t)), meant \o t)

AppendNumber(n) ==
  \/ Becomes(Concatenated(string, NumberString(int, n)), meant \o Numeral(n, 10))
  \/ LET hex == Numeral(n, 16)
     IN  Becomes(Concatenated(string, makeHexString(int, n)),
                 meant \o <<"0", "x">> \o Zeros(8 - Len(hex)) \o hex)

SubString(start, length) ==
  /\ start + length <= Len(meant)
  /\ \/ Becomes(startLengthSubString(string, string.size, start, length),
                SubSeq(meant, start + 1, start + length))
     \/ /\ length > 0
        /\ Becomes(startEndSubString(string, string.size, start, start + length - 1),
                   SubSeq(meant, start + 1, start + length))

Trim == Becomes(trim(string), Trimmed(meant))

\* The string is a parameter, or a message that is logged.
Format(format, t) ==
  \/ Becomes(Formatter(format, <<string, Literal(t)>>), Expanded(format, <<meant, t>>))
  \/ \E line \in Numbers :
       Becomes(LogMessage(t, line, format, <<string, Literal(t)>>),
               t \o <<":">> \o Numeral(line, 10) \o <<":", " ">> \o Expanded(format, <<meant, t>>))

Address(e) == Becomes(Concatenated(string, EndPointString(e)), meant \o Dotted(e))

TextNext ==
  \/ \E t \in Texts : Join(t)
  \/ \E n \in Numbers : AppendNumber(n)
  \/ \E start, length \in 0 .. Len(meant) : SubString(start, length)
  \/ Trim
  \/ \E f \in Formats, t \in Texts : Format(f, t)
  \/ \E e \in EndPoints : Address(e)

TextSpec == TextInit /\ [][TextNext]_text_vars

-----------------------------------------------------------------------------
\* However a string was put together of others, cut and filled in, no assertion
\* failed on the way, its text is the one that was meant, all of it, and a
\* search, a count of the lines and a conversion to a number answer for that
\* text; a number survives being stored in either order of the bytes
\* (string.hpp:158, string_utilities.hpp:39, formatter.hpp:62, endian.hpp:96).
TextIsExact ==
  /\ string.valid /\ string.text = meant /\ Len(meant) <= string.size
  /\ \A t \in Texts :
       LET at == {i \in 0 .. Len(meant) - Len(t) : SubSeq(meant, i + 1, i + Len(t)) = t}
       IN  find(string, Literal(t)) = IF at = {} THEN npos ELSE Min(at)
  /\ meant # <<>> /\ Head(meant) # "\n" =>
       LineCount(string) = 1 + Cardinality({i \in DOMAIN meant : meant[i] = "\n"})
  /\ \A n \in Numbers :
       /\ meant = Numeral(n, 10) => atoi(string) = n
       /\ FromLittleEndian(LittleEndian(n, 8)) = n /\ FromBigEndian(BigEndian(n, 8)) = n
=============================================================================
