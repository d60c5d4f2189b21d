---------------------------- MODULE Parts_proofs ----------------------------
(***************************************************************************)
(* Proofs about the sequential parts of the system: the sort, the set-up   *)
(* of a serial port, the timers of the ports, the boot sectors, the names  *)
(* in a call stack, the start of the kernel, the search for devices, the   *)
(* shell's head and the printing of device trees.                          *)
(***************************************************************************)
EXTENDS Heapsort_proofs, CallStack, Sorting, Uart, HostedTimer, KernelStart, Discovery, Shell,
        DeviceTree, FiniteSetTheorems, SequenceTheorems

(***************************************************************************)
(* The sort.                                                               *)
(***************************************************************************)

\* The pairs of places of an array of which the first element goes before the
\* second, as Sort hands them to k_qsort.
PairsBefore ==
  {p \in (DOMAIN unsorted) \X (DOMAIN unsorted) : Before(unsorted[p[1]], unsorted[p[2]])}

\* What SortsArray is proved from.
SortedInv ==
  /\ unsorted \in Arrays
  /\ sorted => order = k_qsort(0, Cardinality(DOMAIN unsorted), PairsBefore)

\* The places of an array of n elements.
LEMMA ArrayLength ==
  ASSUME unsorted \in Arrays
  PROVE  \E n \in Nat : /\ DOMAIN unsorted = 0 .. n - 1 /\ Cardinality(DOMAIN unsorted) = n
                        /\ unsorted \in [0 .. n - 1 -> Keys]
<1>1. PICK n \in 0 .. MaxLength : unsorted \in [0 .. n - 1 -> Keys]
  BY DEF Arrays
<1>2. n \in Nat /\ DOMAIN unsorted = 0 .. n - 1
  BY <1>1, SortingAssumption
<1>3. Cardinality(0 .. n - 1) = IF 0 > n - 1 THEN 0 ELSE (n - 1) - 0 + 1
  BY <1>2, FS_Interval
<1>4. Cardinality(0 .. n - 1) = n
  BY <1>2, <1>3
<1>. QED
  BY <1>1, <1>2, <1>4

\* The invariant is as strong as the property.
LEMMA SortedArray ==
  ASSUME SortedInv PROVE SortsArray
<1>. SUFFICES ASSUME sorted PROVE SortsArray
  BY DEF SortsArray
<1>1. PICK n \in Nat : /\ DOMAIN unsorted = 0 .. n - 1 /\ Cardinality(DOMAIN unsorted) = n
                       /\ unsorted \in [0 .. n - 1 -> Keys]
  BY ArrayLength DEF SortedInv
<1>2. order = k_qsort(0, n, PairsBefore)
  BY <1>1 DEF SortedInv
<1>3. IsRearrangement(order, 0, n)
  BY <1>2, SortRearranges
<1>4. DOMAIN order = 0 .. n - 1
  BY <1>3 DEF IsRearrangement
<1>5. ASSUME NEW i \in 0 .. n - 1, NEW j \in 0 .. n - 1
      PROVE  <<i, j>> \in PairsBefore <=> Before(unsorted[i], unsorted[j])
  BY <1>1 DEF PairsBefore
<1>6. ASSUME OrdersKeys
      PROVE  Orders(0 .. n - 1, PairsBefore)
  <2>1. \A i \in 0 .. n - 1 : unsorted[i] \in Keys
    BY <1>1
  <2>. QED  BY <1>5, <1>6, <2>1 DEF Orders, OrdersKeys
<1>7. ASSUME OrdersKeys, NEW i \in DOMAIN order, NEW j \in DOMAIN order, i < j
      PROVE  ~Before(unsorted[order[j]], unsorted[order[i]])
  <2>1. <<order[j], order[i]>> \notin PairsBefore
    BY <1>2, <1>4, <1>6, <1>7, SortOrders
  <2>2. order[i] \in 0 .. n - 1 /\ order[j] \in 0 .. n - 1
    BY <1>3, <1>4, <1>7 DEF IsRearrangement
  <2>. QED  BY <1>5, <2>1, <2>2
<1>. QED
  BY <1>1, <1>3, <1>7 DEF SortsArray

\* k_qsort sorts every array of any length by every comparison function that
\* orders its elements, and only rearranges it by any other (utilities.cpp:64).
THEOREM EveryArraySorted == SortingSpec => []SortsArray
<1>1. SortingInit => SortedInv
  BY DEF SortingInit, SortedInv
<1>2. SortedInv /\ [SortingNext]_sorting_vars => SortedInv'
  <2>. SUFFICES ASSUME SortedInv, [SortingNext]_sorting_vars PROVE SortedInv'
    OBVIOUS
  <2>1. CASE Sort
    <3>1. unsorted' = unsorted /\ compare' = compare
      BY <2>1 DEF Sort
    <3>2. PairsBefore' = PairsBefore
      BY <3>1 DEF PairsBefore, Before
    <3>3. order' = k_qsort(0, Cardinality(DOMAIN unsorted), PairsBefore)
      BY <2>1 DEF Sort, PairsBefore
    <3>. QED  BY <3>1, <3>2, <3>3 DEF SortedInv
  <2>2. CASE UNCHANGED sorting_vars
    BY <2>2 DEF SortedInv, sorting_vars, PairsBefore, Before
  <2>. QED  BY <2>1, <2>2 DEF SortingNext
<1>. QED
  BY <1>1, <1>2, SortedArray, PTL DEF SortingSpec

-----------------------------------------------------------------------------
(***************************************************************************)
(* The set-up of a serial port.                                            *)
(***************************************************************************)

\* The divisor of the speed asked for.
Divisor == divisor_for_baud(baud)

\* The writes of initialize in their order: at the places up to the test, and
\* behind it.
LEMMA TenJoined ==
  ASSUME NEW a, NEW b, NEW c, NEW d, NEW e, NEW f, NEW g, NEW h, NEW i, NEW j,
         NEW s, s = <<a>> \o <<b, c, d, e>> \o <<f>> \o <<g, h>> \o <<i, j>>
  PROVE  /\ s \in Seq({a, b, c, d, e, f, g, h, i, j}) /\ Len(s) = 10
         /\ s[1] = a /\ s[2] = b /\ s[3] = c /\ s[4] = d /\ s[5] = e
         /\ s[6] = f /\ s[7] = g /\ s[8] = h /\ s[9] = i /\ s[10] = j
OBVIOUS

LEMMA OneBehind ==
  ASSUME NEW S, NEW s \in Seq(S), NEW k, NEW t, t = s \o <<k>>
  PROVE  /\ t \in Seq(S \cup {k}) /\ Len(t) = Len(s) + 1 /\ t[Len(s) + 1] = k
         /\ \A i \in 1 .. Len(s) : t[i] = s[i]
<1> DEFINE R == S \cup {k}
<1>1. PICK q : q = <<k>>
  OBVIOUS
<1>2. s \in Seq(R) /\ q \in Seq(R) /\ Len(q) = 1 /\ q[1] = k /\ Len(s) \in Nat
  BY <1>1
<1>3. t = s \o q
  BY <1>1
<1>. HIDE DEF R
<1>4. /\ s \o q \in Seq(R) /\ Len(s \o q) = Len(s) + Len(q)
      /\ \A i \in 1 .. Len(s) + Len(q) :
           (s \o q)[i] = IF i <= Len(s) THEN s[i] ELSE q[i - Len(s)]
  BY <1>2, ConcatProperties, Zenon
<1>5. Len(t) = Len(s) + 1 /\ \A i \in 1 .. Len(s) : t[i] = s[i]
  BY <1>2, <1>3, <1>4
<1>6. t[Len(s) + 1] = k
  BY <1>2, <1>3, <1>4
<1>. QED
  BY <1>3, <1>4, <1>5, <1>6 DEF R

\* The writes of initialize in their order, while the format of the line and
\* the outcome of the test are what they are now.
LEMMA InitializeWrites ==
  /\ initialize[1] = <<IER, 0>>
  /\ initialize[2] = <<LCR, 128 + format>>
  /\ initialize[3] = <<DLH, Divisor \div 256>>
  /\ initialize[4] = <<DLL, Divisor % 256>>
  /\ initialize[5] = <<LCR, format>>
  /\ initialize[6] = <<LCR, control>>
  /\ initialize[7] = <<FCR, 199>>
  /\ initialize[8] = <<MCR, 11>>
  /\ initialize[9] = <<MCR, 30>>
  /\ initialize[10] = <<THR, 174>>
  /\ is_faulty => Len(initialize) = 11 /\ initialize[11] = <<IER, 15>>
  /\ ~is_faulty => /\ Len(initialize) = 12
                   /\ initialize[11] = <<MCR, 15>> /\ initialize[12] = <<IER, 15>>
<1> DEFINE a == <<IER, 0>>
           b == <<LCR, 128 + format>>
           c == <<DLH, Divisor \div 256>>
           d == <<DLL, Divisor % 256>>
           e == <<LCR, format>>
           f == <<LCR, control>>
           g == <<FCR, 199>>
           h == <<MCR, 11>>
           i == <<MCR, 30>>
           j == <<THR, 174>>
           k == <<MCR, 15>>
           l == <<IER, 15>>
           ten == <<a>> \o <<b, c, d, e>> \o <<f>> \o <<g, h>> \o <<i, j>>
           test == IF is_faulty THEN <<>> ELSE <<k>>
<1>1. initialize = ten \o test \o <<l>>
  BY Zenon DEF initialize, set_baud_rate_divisor, set_line_control, query_capabilities, Divisor
<1>. HIDE DEF a, b, c, d, e, f, g, h, i, j, k, l
<1>2. /\ ten \in Seq({a, b, c, d, e, f, g, h, i, j}) /\ Len(ten) = 10
      /\ ten[1] = a /\ ten[2] = b /\ ten[3] = c /\ ten[4] = d /\ ten[5] = e
      /\ ten[6] = f /\ ten[7] = g /\ ten[8] = h /\ ten[9] = i /\ ten[10] = j
  BY TenJoined
<1>. HIDE DEF ten
<1>3. PICK S : ten \in Seq(S)
  BY <1>2
<1>4. CASE is_faulty
  <2>1. initialize = ten \o <<l>>
    <3>1. ten \o <<>> = ten
      BY <1>3, ConcatEmptySeq
    <3>. QED  BY <1>1, <1>4, <3>1
  <2>2. /\ Len(initialize) = 11 /\ initialize[11] = l
        /\ \A n \in 1 .. 10 : initialize[n] = ten[n]
    <3>1. /\ Len(initialize) = Len(ten) + 1 /\ initialize[Len(ten) + 1] = l
          /\ \A n \in 1 .. Len(ten) : initialize[n] = ten[n]
      BY <1>3, <2>1, OneBehind
    <3>. QED  BY <1>2, <3>1
  <2>. QED  BY <1>2, <1>4, <2>2 DEF a, b, c, d, e, f, g, h, i, j, l
<1>5. CASE ~is_faulty
  <2>1. PICK s : s = ten \o <<k>>
    OBVIOUS
  <2>2. /\ s \in Seq(S \cup {k}) /\ Len(s) = 11 /\ s[11] = k
        /\ \A n \in 1 .. 10 : s[n] = ten[n]
    <3>1. /\ s \in Seq(S \cup {k}) /\ Len(s) = Len(ten) + 1 /\ s[Len(ten) + 1] = k
          /\ \A n \in 1 .. Len(ten) : s[n] = ten[n]
      BY <1>3, <2>1, OneBehind
    <3>. QED  BY <1>2, <3>1
  <2>3. initialize = s \o <<l>>
    BY <1>1, <1>5, <2>1
  <2>4. /\ Len(initialize) = 12 /\ initialize[12] = l
        /\ \A n \in 1 .. 11 : initialize[n] = s[n]
    <3>1. /\ Len(initialize) = Len(s) + 1 /\ initialize[Len(s) + 1] = l
          /\ \A n \in 1 .. Len(s) : initialize[n] = s[n]
      <4>1. PICK T : s \in Seq(T)
        BY <2>2
      <4>. QED  BY <2>3, <4>1, OneBehind
    <3>. QED  BY <2>2, <3>1
  <2>. QED  BY <1>2, <1>5, <2>2, <2>4 DEF a, b, c, d, e, f, g, h, i, j, k, l
<1>. QED
  BY <1>4, <1>5

LEMMA DivisorBytes == Divisor \in Nat /\ 256 * (Divisor \div 256) + (Divisor % 256) = Divisor
<1>1. Divisor \in {384, 192, 96, 48, 24, 12, 6, 3, 2, 1}
  <2>1. \A n \in 1 .. 10 : Divisors[n] \in {384, 192, 96, 48, 24, 12, 6, 3, 2, 1}
    BY DEF Divisors
  <2>2. Divisor = Divisors[10] \/ \E n \in 1 .. 10 : Divisor = Divisors[n]
    BY DEF Divisor, divisor_for_baud
  <2>. QED  BY <2>1, <2>2
<1>2. PICK d \in Nat : d = Divisor
  BY <1>1
<1>3. 256 * (d \div 256) + (d % 256) = d
  OBVIOUS
<1>. QED
  BY <1>2, <1>3

\* What SetUp is proved from: what each register holds after so many writes,
\* and that the two lowest stand for the divisor between the second and the
\* fifth of them only.
WritesLeft == IF works THEN 12 ELSE 11

UartInv ==
  /\ works \in BOOLEAN /\ control \in 0 .. 127
  /\ done \in 0 .. WritesLeft
  /\ dlab \in BOOLEAN /\ (dlab <=> done \in 2 .. 4)
  /\ format = IF done < 6 THEN 0 ELSE control
  /\ done >= 3 => divisor.high = Divisor \div 256
  /\ done >= 4 => divisor.low = Divisor % 256
  /\ divisor \in [high : Int, low : Int]
  /\ done > 0 => interrupts = IF done = WritesLeft THEN 15 ELSE 0
  /\ modem = IF done < 8 THEN 0 ELSE IF done = 8 THEN 11
             ELSE IF done > 10 /\ works THEN 15 ELSE 30
  /\ echo = IF done > 9 /\ works THEN 174 ELSE 0

\* The port is ready after the last of these writes.
LEMMA ReadyAfter ==
  ASSUME UartInv
  PROVE  /\ (Ready <=> done = WritesLeft)
         /\ Len(initialize) \in {11, 12}
<1>1. Len(initialize) = IF is_faulty THEN 11 ELSE 12
  BY InitializeWrites
<1>. QED
  BY <1>1 DEF Ready, is_faulty, UartInv, WritesLeft

\* A write to the line control register, and those to the divisor.
LEMMA WriteLCR ==
  ASSUME NEW v \in Nat, Write(LCR, v)
  PROVE  /\ dlab' \in BOOLEAN /\ (dlab' <=> v >= 128) /\ format' = v % 128
         /\ UNCHANGED <<divisor, interrupts, modem, echo>>
<1>1. dlab' = (v >= 128)
  BY Zenon DEF Write, LCR
<1>2. (v >= 128) \in BOOLEAN
  OBVIOUS
<1>3. format' = v % 128 /\ UNCHANGED <<divisor, interrupts, modem, echo>>
  BY DEF Write, LCR
<1>. QED
  BY <1>1, <1>2, <1>3, Zenon

LEMMA WriteDLH ==
  ASSUME dlab, divisor \in [high : Int, low : Int], NEW v \in Int, Write(DLH, v)
  PROVE  /\ divisor' \in [high : Int, low : Int] /\ divisor'.high = v /\ divisor'.low = divisor.low
         /\ UNCHANGED <<interrupts, dlab, format, modem, echo>>
<1>1. divisor' = [divisor EXCEPT !.high = v]
  BY DEF Write, DLH
<1>2. UNCHANGED <<interrupts, dlab, format, modem, echo>>
  BY DEF Write, DLH
<1>. QED
  BY <1>1, <1>2

LEMMA WriteDLL ==
  ASSUME dlab, divisor \in [high : Int, low : Int], NEW v \in Int, Write(DLL, v)
  PROVE  /\ divisor' \in [high : Int, low : Int] /\ divisor'.low = v /\ divisor'.high = divisor.high
         /\ UNCHANGED <<interrupts, dlab, format, modem, echo>>
<1>1. divisor' = [divisor EXCEPT !.low = v]
  BY DEF Write, DLL
<1>2. UNCHANGED <<interrupts, dlab, format, modem, echo>>
  BY DEF Write, DLL
<1>. QED
  BY <1>1, <1>2

LEMMA UartStep ==
  ASSUME UartInv, Initialize
  PROVE  UartInv'
<1>1. /\ done \in 0 .. WritesLeft - 1 /\ done \in 0 .. 11 /\ done' = done + 1
      /\ UNCHANGED <<works, baud, control>>
      /\ Write(initialize[done + 1][1], initialize[done + 1][2])
  <2>1. done \in 0 .. WritesLeft /\ WritesLeft \in {11, 12}
    BY DEF UartInv, WritesLeft
  <2>2. done < Len(initialize) /\ done' = done + 1
        /\ Write(initialize[done + 1][1], initialize[done + 1][2])
    BY DEF Initialize
  <2>3. done # WritesLeft
    BY <2>1, <2>2, ReadyAfter DEF Ready
  <2>4. UNCHANGED <<works, baud, control>>
    BY <2>2 DEF Write
  <2>. QED  BY <2>1, <2>2, <2>3, <2>4
<1>2. Divisor' = Divisor /\ WritesLeft' = WritesLeft
  BY <1>1 DEF Divisor, WritesLeft, divisor_for_baud
<1>3. Divisor \div 256 \in Int /\ Divisor % 256 \in Int
  BY DivisorBytes
<1>4. format \in 0 .. 127 /\ (128 + format) % 128 = format /\ format % 128 = format
      /\ control % 128 = control
  BY DEF UartInv
<1>5. CASE done \in 0 .. 3
  <2>1. CASE done = 0
    BY <1>1, <1>2, <2>1, InitializeWrites DEF UartInv, Write, WritesLeft, IER
  <2>2. CASE done = 1
    <3>1. Write(LCR, 128 + format) /\ 128 + format \in Nat
      BY <1>1, <1>4, <2>2, InitializeWrites
    <3>. QED  BY <1>1, <1>2, <1>4, <2>2, <3>1, WriteLCR DEF UartInv, WritesLeft
  <2>3. CASE done = 2
    <3>1. Write(DLH, Divisor \div 256) /\ dlab
      BY <1>1, <2>3, InitializeWrites DEF UartInv
    <3>2. /\ divisor' \in [high : Int, low : Int] /\ UNCHANGED <<interrupts, format, modem, echo>>
          /\ UNCHANGED dlab /\ done' = 3
          /\ divisor'.high = Divisor' \div 256
      <4>1. divisor \in [high : Int, low : Int]
        BY DEF UartInv
      <4>2. /\ divisor' \in [high : Int, low : Int]
            /\ divisor'.high = Divisor \div 256 /\ divisor'.low = divisor.low
            /\ UNCHANGED <<interrupts, dlab, format, modem, echo>>
        BY <1>3, <3>1, <4>1, WriteDLH, Zenon
      <4>. QED  BY <1>1, <1>2, <2>3, <4>2 DEF UartInv
    <3>3. dlab' \in BOOLEAN /\ (dlab' <=> done' \in 2 .. 4)
      BY <3>1, <3>2
    <3>. QED  BY <1>1, <1>2, <2>3, <3>2, <3>3 DEF UartInv, WritesLeft
  <2>4. CASE done = 3
    <3>1. Write(DLL, Divisor % 256) /\ dlab
      BY <1>1, <2>4, InitializeWrites DEF UartInv
    <3>2. /\ divisor' \in [high : Int, low : Int] /\ UNCHANGED <<interrupts, format, modem, echo>>
          /\ UNCHANGED dlab /\ done' = 4
          /\ divisor'.high = Divisor' \div 256 /\ divisor'.low = Divisor' % 256
      <4>1. divisor \in [high : Int, low : Int]
        BY DEF UartInv
      <4>2. /\ divisor' \in [high : Int, low : Int]
            /\ divisor'.low = Divisor % 256 /\ divisor'.high = divisor.high
            /\ UNCHANGED <<interrupts, dlab, format, modem, echo>>
        BY <1>3, <3>1, <4>1, WriteDLL, ZenonT(60)
      <4>. QED  BY <1>1, <1>2, <2>4, <4>2 DEF UartInv
    <3>3. dlab' \in BOOLEAN /\ (dlab' <=> done' \in 2 .. 4)
      BY <3>1, <3>2
    <3>. QED  BY <1>1, <1>2, <2>4, <3>2, <3>3 DEF UartInv, WritesLeft
  <2>. QED  BY <1>5, <2>1, <2>2, <2>3, <2>4
<1>6. CASE done \in 4 .. 7
  <2>1. CASE done = 4
    <3>1. Write(LCR, format) /\ format \in Nat
      BY <1>1, <1>4, <2>1, InitializeWrites
    <3>. QED  BY <1>1, <1>2, <1>4, <2>1, <3>1, WriteLCR DEF UartInv, WritesLeft
  <2>2. CASE done = 5
    <3>1. Write(LCR, control) /\ control \in 0 .. 127
      BY <1>1, <2>2, InitializeWrites DEF UartInv
    <3>. QED  BY <1>1, <1>2, <1>4, <2>2, <3>1, WriteLCR DEF UartInv, WritesLeft
  <2>3. CASE done = 6
    BY <1>1, <1>2, <2>3, InitializeWrites DEF UartInv, Write, WritesLeft, FCR
  <2>4. CASE done = 7
    BY <1>1, <1>2, <2>4, InitializeWrites DEF UartInv, Write, WritesLeft, MCR
  <2>. QED  BY <1>6, <2>1, <2>2, <2>3, <2>4
<1>7. CASE done \in 8 .. 11
  <2>1. CASE done = 8
    BY <1>1, <1>2, <2>1, InitializeWrites DEF UartInv, Write, WritesLeft, MCR
  <2>2. CASE done = 9
    BY <1>1, <1>2, <2>2, InitializeWrites DEF UartInv, Write, WritesLeft, THR, LOOPBACK
  <2>3. CASE done = 10 /\ works
    BY <1>1, <1>2, <2>3, InitializeWrites DEF UartInv, Write, WritesLeft, MCR, is_faulty
  <2>4. CASE done = 10 /\ ~works
    BY <1>1, <1>2, <2>4, InitializeWrites DEF UartInv, Write, WritesLeft, IER, is_faulty
  <2>5. CASE done = 11
    BY <1>1, <1>2, <2>5, InitializeWrites DEF UartInv, Write, WritesLeft, IER, is_faulty
  <2>6. works \in BOOLEAN
    BY DEF UartInv
  <2>. QED  BY <1>7, <2>1, <2>2, <2>3, <2>4, <2>5, <2>6
<1>. QED
  BY <1>1, <1>5, <1>6, <1>7

\* While a serial port is being set up it interrupts nobody, and then it has the
\* speed and format asked for, whatever they are, the bytes of the divisor
\* having gone where it is kept and nothing else (serial_16650.cpp:224).
THEOREM PortSetUp == UartSpec => []SetUp
<1>1. UartInit => UartInv
  <2>. SUFFICES ASSUME UartInit PROVE UartInv
    OBVIOUS
  <2>1. control \in 0 .. 127 /\ divisor \in [high : Int, low : Int]
    BY UartAssumption DEF UartInit
  <2>2. 0 \notin 2 .. 4 /\ 0 \in 0 .. WritesLeft
    BY DEF WritesLeft
  <2>3. dlab \in BOOLEAN /\ (dlab <=> done \in 2 .. 4)
    BY <2>2, Zenon DEF UartInit
  <2>. QED  BY <2>1, <2>2, <2>3 DEF UartInit, UartInv
<1>2. UartInv /\ [UartNext]_uart_vars => UartInv'
  <2>. SUFFICES ASSUME UartInv, [UartNext]_uart_vars PROVE UartInv'
    OBVIOUS
  <2>1. CASE SerialWaiting
    <3>1. done = WritesLeft /\ done \in {11, 12}
      BY <2>1, ReadyAfter DEF SerialWaiting, WritesLeft
    <3>2. UNCHANGED <<done, works, baud, control>> /\ Write(IER, 15)
      BY <2>1 DEF SerialWaiting, Write
    <3>3. Divisor' = Divisor /\ WritesLeft' = WritesLeft
      BY <3>2 DEF Divisor, WritesLeft, divisor_for_baud
    <3>. QED  BY <3>1, <3>2, <3>3 DEF UartInv, Write, IER
  <2>2. CASE UNCHANGED uart_vars
    BY <2>2 DEF uart_vars, UartInv, WritesLeft, Divisor, divisor_for_baud
  <2>. QED  BY <2>1, <2>2, UartStep DEF UartNext
<1>3. UartInv => SetUp
  <2>. SUFFICES ASSUME UartInv PROVE SetUp
    OBVIOUS
  <2>1. Ready <=> done = WritesLeft
    BY ReadyAfter
  <2>. QED  BY <2>1, DivisorBytes DEF UartInv, SetUp, WritesLeft, Divisor
<1>. QED
  BY <1>1, <1>2, <1>3, PTL DEF UartSpec

-----------------------------------------------------------------------------
(***************************************************************************)
(* The timers of the ports.                                                *)
(***************************************************************************)

\* Where a handler is, and the steps of a call.
Places == {"idle", "claim", "read", "write", "leave"}
Works == {"hold", "let go", "create", "speed", "zero", "active", "inactive", "check"}

\* What a call of the program still has to do are the last of its steps.
WorkOf(function) ==
  IF function = "enable" THEN EnableSteps
  ELSE IF function = "suspend" THEN DisableSteps
  ELSE IF function = "resume" THEN ResumeSteps
  ELSE IF function = "delay" THEN <<"check">>
  ELSE <<>>

LastSteps(work) ==
  /\ steps \in Seq(Works) /\ Len(steps) <= Len(work)
  /\ \A i \in 1 .. Len(steps) : steps[i] = work[Len(work) - Len(steps) + i]

StepsOK == LastSteps(WorkOf(caller))

HandlersOK ==
  /\ tick \in Int /\ held \in Seq(Int) /\ seen \in Seq(Int) /\ handler \in Seq(Places)
  /\ Len(handler) = Len(held) /\ Len(seen) = Len(held)

\* On Linux the program and the handlers of all timers share one thread, and
\* the timers of a paused program are held up.
LinuxInv ==
  /\ \A s, r \in DOMAIN handler : handler[s] # "idle" /\ handler[r] # "idle" => s = r
  /\ \A s \in DOMAIN handler : handler[s] = "write" => seen[s] = tick
  /\ caller = "suspend" /\ Len(steps) = 1 => ~timer_active
  /\ paused => /\ steps = <<>> /\ ~timer_active
               /\ \A s \in DOMAIN handler : handler[s] = "idle" /\ held[s] # 0

\* On macOS the one source is held up until the tick has been set to 0.
MacInv ==
  Len(held) = 1 =>
    /\ handler[1] = "write" => seen[1] = tick
    /\ caller = "enable" /\ Len(steps) \in {3, 4} => handler[1] = "idle" /\ held[1] # 0

\* What OneClock is proved from.
ClocksInv ==
  /\ port \in {"linux", "macos", "dos"}
  /\ port # "dos" => HandlersOK /\ StepsOK
  /\ port = "linux" => LinuxInv
  /\ port = "macos" => MacInv
  /\ port = "dos" /\ paused => vector = old_timer

\* What a step may do to the tick.
OneClockStep ==
  (port = "macos" => Len(held) = 1) /\ (port = "dos" => old_timer = "bios") =>
    \/ tick' = tick
    \/ tick' = tick + 1 /\ (paused => port = "macos" /\ ~Idle)
    \/ tick' = 0 /\ caller' = "enable"

\* The steps of a call.
LEMMA WorkLengths ==
  ASSUME port \in {"linux", "macos"}
  PROVE  /\ Len(EnableSteps) = IF port = "linux" THEN 7 ELSE 5
         /\ Len(DisableSteps) = 2 /\ Len(ResumeSteps) = 2
BY DEF EnableSteps, DisableSteps, ResumeSteps

\* A step of a handler goes from one of its places to the next.
Moved(s, from, to) ==
  /\ UNCHANGED <<port, held, caller, steps, paused, timer_active>>
  /\ handler \in Seq(Places) /\ handler' \in Seq(Places) /\ Len(handler') = Len(handler)
  /\ Len(handler) = Len(held) /\ Len(held) \in Nat
  /\ DOMAIN handler = 1 .. Len(held) /\ DOMAIN handler' = DOMAIN handler
  /\ handler[s] = from /\ handler'[s] = to
  /\ \A r \in DOMAIN handler : r # s => handler'[r] = handler[r]

LEMMA HandlerMoves ==
  ASSUME ClocksInv, port # "dos", NEW s \in DOMAIN handler,
         NEW from \in Places, NEW to \in Places, Handles(s, from, to)
  PROVE  Moved(s, from, to) /\ StepsOK'
<1>1. /\ UNCHANGED <<port, held, caller, steps, paused, timer_active>>
      /\ handler' = [handler EXCEPT ![s] = to] /\ handler[s] = from
  BY DEF Handles
<1>2. handler \in Seq(Places) /\ held \in Seq(Int) /\ Len(handler) = Len(held)
  BY DEF ClocksInv, HandlersOK
<1>3. /\ handler' \in Seq(Places) /\ Len(handler') = Len(handler)
      /\ Len(held) \in Nat /\ DOMAIN handler = 1 .. Len(held) /\ DOMAIN handler' = DOMAIN handler
  BY <1>1, <1>2
<1>4. StepsOK'
  BY <1>1 DEF ClocksInv, StepsOK, LastSteps, WorkOf, EnableSteps, DisableSteps, ResumeSteps
<1>. QED
  BY <1>1, <1>2, <1>3, <1>4 DEF Moved

LEMMA HandlerStep ==
  ASSUME ClocksInv, port # "dos", UNCHANGED dos_vars, NEW s \in DOMAIN handler,
         Fire(s) \/ Claim(s) \/ ReadTick(s) \/ WriteTick(s) \/ LeaveHandler(s)
  PROVE  ClocksInv' /\ OneClockStep
<1>1. /\ HandlersOK /\ port \in {"linux", "macos"}
      /\ (port = "linux" => LinuxInv)
      /\ (port = "macos" => MacInv)
  BY DEF ClocksInv
<1>2. CASE Fire(s)
  <2>1. /\ held[s] = 0 /\ UNCHANGED <<tick, seen>> /\ (port = "linux" => Idle)
        /\ \E to \in {"idle", "claim"} : Handles(s, "idle", to)
    BY <1>2 DEF Fire
  <2>2. PICK to \in {"idle", "claim"} : Handles(s, "idle", to) /\ to \in Places /\ "idle" \in Places
    BY <2>1 DEF Places
  <2>3. Moved(s, "idle", to) /\ StepsOK'
    BY <2>2, HandlerMoves, Zenon
  <2>4. HandlersOK'
    BY <1>1, <2>1, <2>3 DEF HandlersOK, Moved
  <2>5. ASSUME port = "linux" PROVE LinuxInv'
    BY <1>1, <2>1, <2>2, <2>3, <2>5 DEF LinuxInv, Idle, Moved
  <2>6. ASSUME port = "macos" PROVE MacInv'
    BY <1>1, <2>1, <2>2, <2>3, <2>6 DEF MacInv, Moved
  <2>7. OneClockStep
    BY <2>1 DEF OneClockStep
  <2>. QED  BY <1>1, <2>3, <2>4, <2>5, <2>6, <2>7 DEF ClocksInv, Moved
<1>3. CASE Claim(s) \/ LeaveHandler(s)
  <2>1. /\ UNCHANGED <<tick, seen>>
        /\ Handles(s, "claim", "read") \/ Handles(s, "leave", "idle")
    BY <1>3 DEF Claim, LeaveHandler
  <2>2. PICK from \in {"claim", "leave"}, to \in {"read", "idle"} :
          Handles(s, from, to) /\ from \in Places /\ to \in Places
    BY <2>1 DEF Places
  <2>3. Moved(s, from, to) /\ StepsOK'
    BY <2>2, HandlerMoves, Zenon
  <2>4. HandlersOK'
    BY <1>1, <2>1, <2>3 DEF HandlersOK, Moved
  <2>5. ASSUME port = "linux" PROVE LinuxInv'
    BY <1>1, <2>1, <2>2, <2>3, <2>5 DEF LinuxInv, Moved
  <2>6. ASSUME port = "macos" PROVE MacInv'
    BY <1>1, <2>1, <2>2, <2>3, <2>6 DEF MacInv, Moved
  <2>7. OneClockStep
    BY <2>1 DEF OneClockStep
  <2>. QED  BY <1>1, <2>3, <2>4, <2>5, <2>6, <2>7 DEF ClocksInv, Moved
<1>4. CASE ReadTick(s)
  <2>1. tick' = tick /\ seen' = [seen EXCEPT ![s] = tick] /\ Handles(s, "read", "write")
       /\ "read" \in Places /\ "write" \in Places
    BY <1>4 DEF ReadTick, Places
  <2>2. Moved(s, "read", "write") /\ StepsOK'
    BY <2>1, HandlerMoves, Zenon
  <2>3. HandlersOK' /\ seen'[s] = tick
    BY <1>1, <2>1, <2>2 DEF HandlersOK, Moved
  <2>4. ASSUME port = "linux" PROVE LinuxInv'
    BY <1>1, <2>1, <2>2, <2>3, <2>4 DEF LinuxInv, Moved
  <2>5. ASSUME port = "macos" PROVE MacInv'
    BY <1>1, <2>1, <2>2, <2>3, <2>5 DEF MacInv, Moved
  <2>6. OneClockStep
    BY <2>1 DEF OneClockStep
  <2>. QED  BY <1>1, <2>2, <2>3, <2>4, <2>5, <2>6 DEF ClocksInv, Moved
<1>5. CASE WriteTick(s)
  <2>1. tick' = seen[s] + 1 /\ seen' = seen /\ Handles(s, "write", "leave")
       /\ "write" \in Places /\ "leave" \in Places
    BY <1>5 DEF WriteTick, Places
  <2>2. Moved(s, "write", "leave") /\ StepsOK'
    BY <2>1, HandlerMoves, Zenon
  <2>3. HandlersOK'
    BY <1>1, <2>1, <2>2 DEF HandlersOK, Moved
  <2>4. ASSUME port = "linux" PROVE LinuxInv' /\ tick' = tick + 1 /\ ~paused
    BY <1>1, <2>1, <2>2, <2>3, <2>4 DEF LinuxInv, Moved
  <2>5. ASSUME port = "macos" PROVE MacInv' /\ (Len(held) = 1 => tick' = tick + 1) /\ ~Idle
    BY <1>1, <2>1, <2>2, <2>3, <2>5 DEF MacInv, Moved, Idle
  <2>6. OneClockStep
    BY <1>1, <2>4, <2>5 DEF OneClockStep
  <2>. QED  BY <1>1, <2>2, <2>3, <2>4, <2>5, <2>6 DEF ClocksInv, Moved
<1>. QED
  BY <1>2, <1>3, <1>4, <1>5

\* What the step a call is at says of the steps that are left.
StepAt(step) ==
  /\ caller \in {"enable", "suspend", "resume"}
  /\ step = "zero" => caller = "enable" /\ Len(steps) = 3
  /\ caller = "suspend" => Len(steps) <= 2 /\ step = IF Len(steps) = 2 THEN "inactive" ELSE "hold"
  /\ caller = "enable" /\ port = "macos" =>
       Len(steps) <= 5 /\ (Len(steps) = 5 => step = "create") /\ (Len(steps) = 4 => step = "speed")

LEMMA SevenSteps ==
  ASSUME NEW S, NEW a \in S, NEW b \in S, NEW c \in S, NEW d \in S, NEW e \in S, NEW f \in S
  PROVE  <<a, b, c, d, e, c, f>> \in Seq(S)
<1> DEFINE t == <<a, b, c, d, e, c, f>>
<1>1. t = [i \in 1 .. 7 |-> t[i]]
  OBVIOUS
<1>2. t[1] = a /\ t[2] = b /\ t[3] = c /\ t[4] = d /\ t[5] = e /\ t[6] = c /\ t[7] = f
  OBVIOUS
<1> HIDE DEF t
<1>3. \A i \in 1 .. 7 : t[i] \in S
  BY <1>2
<1>4. [i \in 1 .. 7 |-> t[i]] \in Seq(S)
  BY <1>3
<1>5. t \in Seq(S)
  BY <1>1, <1>4
<1>. QED
  BY <1>5 DEF t

LEMMA FiveSteps ==
  ASSUME NEW S, NEW a \in S, NEW b \in S, NEW c \in S, NEW d \in S, NEW e \in S
  PROVE  <<a, b, c, d, e>> \in Seq(S)
OBVIOUS

LEMMA WorkIsSteps ==
  ASSUME NEW function
  PROVE  WorkOf(function) \in Seq(Works) /\ Len(WorkOf(function)) \in Nat
<1>1. EnableSteps \in Seq(Works)
  <2>1. /\ "hold" \in Works /\ "let go" \in Works /\ "create" \in Works
        /\ "speed" \in Works /\ "zero" \in Works /\ "active" \in Works
    BY DEF Works
  <2>2. CASE port = "linux"
    <3>1. <<"hold", "create", "let go", "speed", "zero", "let go", "active">> \in Seq(Works)
      BY <2>1, SevenSteps, Zenon
    <3>. QED  BY <2>2, <3>1 DEF EnableSteps
  <2>3. CASE port # "linux"
    <3>1. <<"create", "speed", "zero", "let go", "active">> \in Seq(Works)
      BY <2>1, FiveSteps, Zenon
    <3>. QED  BY <2>3, <3>1 DEF EnableSteps
  <2>. QED  BY <2>2, <2>3
<1>2. DisableSteps \in Seq(Works) /\ ResumeSteps \in Seq(Works)
  BY DEF DisableSteps, ResumeSteps, Works
<1>3. <<"check">> \in Seq(Works) /\ <<>> \in Seq(Works)
  BY DEF Works
<1>4. WorkOf(function) \in Seq(Works)
  BY <1>1, <1>2, <1>3 DEF WorkOf
<1>. QED
  BY <1>4

LEMMA NextStep ==
  ASSUME StepsOK, port \in {"linux", "macos"}, steps # <<>>, caller # "delay"
  PROVE  /\ Len(steps) \in Nat \ {0} /\ StepAt(Head(steps))
         /\ Tail(steps) \in Seq(Works) /\ Len(Tail(steps)) = Len(steps) - 1
<1> DEFINE work == WorkOf(caller)
<1> DEFINE n == Len(steps)
<1> DEFINE first == Head(steps)
<1>1. /\ steps \in Seq(Works) /\ n <= Len(work) /\ n \in Nat \ {0}
      /\ \A i \in 1 .. n : steps[i] = work[Len(work) - n + i]
  BY DEF StepsOK, LastSteps
<1>2. caller \in {"enable", "suspend", "resume"}
  BY <1>1 DEF WorkOf
<1>3. first = work[Len(work) - n + 1]
  <2>1. first = steps[1] /\ 1 \in 1 .. n
    BY <1>1
  <2> HIDE DEF work, n, first
  <2>. QED  BY <1>1, <2>1
<1>4. StepAt(first)
  <2> HIDE DEF work, n, first
  <2>1. CASE caller = "enable" /\ port = "linux"
    <3>1. Len(work) = 7
      BY <2>1 DEF work, WorkOf, EnableSteps
    <3>2. n \in 1 .. 7
      BY <1>1, <3>1
    <3>3. first = work[8 - n]
      BY <1>3, <3>1, <3>2
    <3>4. /\ work[1] = "hold" /\ work[2] = "create" /\ work[3] = "let go" /\ work[4] = "speed"
          /\ work[5] = "zero" /\ work[6] = "let go" /\ work[7] = "active"
      BY <2>1 DEF work, WorkOf, EnableSteps
    <3>5. \/ n = 1 /\ first = work[7]
          \/ n = 2 /\ first = work[6]
          \/ n = 3 /\ first = work[5]
          \/ n = 4 /\ first = work[4]
          \/ n = 5 /\ first = work[3]
          \/ n = 6 /\ first = work[2]
          \/ n = 7 /\ first = work[1]
      BY <3>2, <3>3
    <3>6. \/ n = 1 /\ first = "active"
          \/ n = 2 /\ first = "let go"
          \/ n = 3 /\ first = "zero"
          \/ n = 4 /\ first = "speed"
          \/ n = 5 /\ first = "let go"
          \/ n = 6 /\ first = "create"
          \/ n = 7 /\ first = "hold"
      BY <3>4, <3>5
    <3>. QED  BY <2>1, <3>6 DEF StepAt, n
  <2>2. CASE caller = "enable" /\ port = "macos"
    <3>1. Len(work) = 5
      BY <2>2 DEF work, WorkOf, EnableSteps
    <3>2. n \in 1 .. 5
      BY <1>1, <3>1
    <3>3. first = work[6 - n]
      BY <1>3, <3>1, <3>2
    <3>4. /\ work[1] = "create" /\ work[2] = "speed" /\ work[3] = "zero" /\ work[4] = "let go"
          /\ work[5] = "active"
      BY <2>2 DEF work, WorkOf, EnableSteps
    <3>5. \/ n = 1 /\ first = work[5]
          \/ n = 2 /\ first = work[4]
          \/ n = 3 /\ first = work[3]
          \/ n = 4 /\ first = work[2]
          \/ n = 5 /\ first = work[1]
      BY <3>2, <3>3
    <3>6. \/ n = 1 /\ first = "active"
          \/ n = 2 /\ first = "let go"
          \/ n = 3 /\ first = "zero"
          \/ n = 4 /\ first = "speed"
          \/ n = 5 /\ first = "create"
      BY <3>4, <3>5
    <3>7. /\ n <= 5 /\ (first = "zero" => n = 3)
          /\ (n = 5 => first = "create") /\ (n = 4 => first = "speed")
      <4>1. n = 1 => n <= 5 /\ n # 5 /\ n # 4
        OBVIOUS
      <4>2. n = 2 => n <= 5 /\ n # 5 /\ n # 4
        OBVIOUS
      <4>3. n = 3 => n <= 5 /\ n # 5 /\ n # 4
        OBVIOUS
      <4>4. n = 4 => n <= 5 /\ n # 5
        OBVIOUS
      <4>5. n = 5 => n <= 5 /\ n # 4
        OBVIOUS
      <4>. QED  BY <3>6, <4>1, <4>2, <4>3, <4>4, <4>5, Zenon
    <3>. QED  BY <2>2, <3>7 DEF StepAt, n
  <2>3. CASE caller = "suspend"
    <3>1. Len(work) = 2
      BY <2>3 DEF work, WorkOf, DisableSteps
    <3>2. n \in 1 .. 2
      BY <1>1, <3>1
    <3>3. first = work[3 - n]
      BY <1>3, <3>1, <3>2
    <3>4. /\ work[1] = "inactive" /\ work[2] = "hold"
      BY <2>3 DEF work, WorkOf, DisableSteps
    <3>5. \/ n = 1 /\ first = work[2]
          \/ n = 2 /\ first = work[1]
      BY <3>2, <3>3
    <3>6. \/ n = 1 /\ first = "hold"
          \/ n = 2 /\ first = "inactive"
      BY <3>4, <3>5
    <3>7. n <= 2 /\ first = (IF n = 2 THEN "inactive" ELSE "hold") /\ first # "zero"
      BY <3>6
    <3>. QED  BY <2>3, <3>7 DEF StepAt, n
  <2>4. CASE caller = "resume"
    <3>1. Len(work) = 2
      BY <2>4 DEF work, WorkOf, ResumeSteps
    <3>2. n \in 1 .. 2
      BY <1>1, <3>1
    <3>3. first = work[3 - n]
      BY <1>3, <3>1, <3>2
    <3>4. /\ work[1] = "let go" /\ work[2] = "active"
      BY <2>4 DEF work, WorkOf, ResumeSteps
    <3>5. \/ n = 1 /\ first = work[2]
          \/ n = 2 /\ first = work[1]
      BY <3>2, <3>3
    <3>6. \/ n = 1 /\ first = "active"
          \/ n = 2 /\ first = "let go"
      BY <3>4, <3>5
    <3>. QED  BY <2>4, <3>6 DEF StepAt, n
  <2>. QED  BY <1>2, <2>1, <2>2, <2>3, <2>4
<1>. QED
  BY <1>1, <1>4

\* What is left after a step are the last steps too.
LEMMA StepsLeft ==
  ASSUME StepsOK, port \in {"linux", "macos"}, steps # <<>>, steps' = Tail(steps),
         UNCHANGED <<port, caller>>
  PROVE  StepsOK'
<1>1. WorkOf(caller)' = WorkOf(caller)
  BY DEF WorkOf, EnableSteps, DisableSteps, ResumeSteps
<1>2. steps \in Seq(Works) /\ Len(steps) \in Nat \ {0} /\ Len(WorkOf(caller)) \in Nat
  BY WorkIsSteps DEF StepsOK, LastSteps
<1>3. /\ steps' \in Seq(Works) /\ Len(steps') = Len(steps) - 1
      /\ \A i \in 1 .. Len(steps') : steps'[i] = steps[i + 1]
  BY <1>2
<1> DEFINE work == WorkOf(caller)
<1>4. /\ Len(steps') <= Len(work)
      /\ \A i \in 1 .. Len(steps') : steps'[i] = work[Len(work) - Len(steps') + i]
  <2>1. /\ Len(steps) <= Len(work)
        /\ \A i \in 1 .. Len(steps) : steps[i] = work[Len(work) - Len(steps) + i]
    BY DEF StepsOK, LastSteps
  <2>2. Len(work) \in Nat
    BY <1>2
  <2> HIDE DEF work
  <2>3. ASSUME NEW i \in 1 .. Len(steps') PROVE steps'[i] = work[Len(work) - Len(steps') + i]
    <3>1. i + 1 \in 1 .. Len(steps) /\ Len(work) - Len(steps) + (i + 1) = Len(work) - Len(steps') + i
      BY <1>2, <1>3, <2>2
    <3>. QED  BY <1>3, <2>1, <3>1
  <2>. QED  BY <1>2, <1>3, <2>1, <2>2, <2>3
<1>. QED
  BY <1>1, <1>3, <1>4 DEF StepsOK, LastSteps

LEMMA NothingHeld ==
  ASSUME held \in Seq(Int), Len(held) = 0, NEW e
  PROVE  [held EXCEPT ![Len(held)] = e] = <<>> /\ held = <<>>
<1>1. held = <<>>
  OBVIOUS
<1>2. [<<>> EXCEPT ![0] = e] = <<>>
  OBVIOUS
<1>. QED
  BY <1>1, <1>2

LEMMA ProgramStep ==
  ASSUME ClocksInv, port # "dos", UNCHANGED dos_vars, TimerStep
  PROVE  ClocksInv' /\ OneClockStep
<1> DEFINE step == Head(steps)
<1>1. /\ HandlersOK /\ StepsOK /\ port \in {"linux", "macos"} /\ steps # <<>> /\ caller # "delay"
      /\ (port = "linux" => LinuxInv /\ Idle)
      /\ (port = "macos" => MacInv)
  BY DEF ClocksInv, TimerStep, ProgramRuns
<1>0. HandlersOK
  BY <1>1
<1>2. Len(steps) \in Nat \ {0} /\ StepAt(step) /\ Len(steps') = Len(steps) - 1
  BY <1>1, NextStep DEF TimerStep
<1>3. StepsOK'
  BY <1>1, StepsLeft DEF TimerStep
<1>4. /\ UNCHANGED <<port, caller>>
      /\ paused' = (paused \/ (caller = "suspend" /\ Len(steps) = 1))
      /\ handler' = IF step = "create" THEN Append(handler, "idle") ELSE handler
      /\ seen' = IF step = "create" THEN Append(seen, 0) ELSE seen
      /\ tick' = IF step = "zero" THEN 0 ELSE tick
      /\ timer_active' = (step = "active" \/ (timer_active /\ step # "inactive"))
  BY DEF TimerStep
<1>5. held' = CASE step = "hold" -> Hold
                [] step = "let go" -> LetGo
                [] step = "create" -> Append(held, 1)
                [] OTHER -> held
  BY DEF TimerStep
<1> HIDE DEF step
<1>6. /\ step = "create" => held' = Append(held, 1)
      /\ step \notin {"create", "hold", "let go"} => held' = held
      /\ step # "create" => held' \in Seq(Int) /\ Len(held') = Len(held)
      /\ step = "hold" /\ port = "linux" => \A s \in DOMAIN held' : held'[s] = 1
  <2>1. held \in Seq(Int)
    BY <1>1 DEF HandlersOK
  <2>2. LetGo \in Seq(Int) /\ Len(LetGo) = Len(held)
    <3>1. CASE port = "linux"
      BY <2>1, <3>1 DEF LetGo
    <3>2. CASE port = "macos" /\ Len(held) # 0
      BY <2>1, <3>2 DEF LetGo
    <3>3. CASE port = "macos" /\ Len(held) = 0
      BY <2>1, <3>3, NothingHeld DEF LetGo
    <3>. QED  BY <1>1, <3>1, <3>2, <3>3
  <2>3. Hold \in Seq(Int) /\ Len(Hold) = Len(held)
    <3>1. CASE port = "linux"
      BY <2>1, <3>1 DEF Hold
    <3>2. CASE port = "macos" /\ Len(held) # 0
      BY <2>1, <3>2 DEF Hold
    <3>3. CASE port = "macos" /\ Len(held) = 0
      BY <2>1, <3>3, NothingHeld DEF Hold
    <3>. QED  BY <1>1, <3>1, <3>2, <3>3
  <2>4. /\ Hold \in Seq(Int) /\ Len(Hold) = Len(held)
        /\ port = "linux" => \A s \in DOMAIN Hold : Hold[s] = 1
    BY <2>1, <2>3 DEF Hold
  <2> HIDE DEF Hold, LetGo
  <2>. QED  BY <1>5, <2>1, <2>2, <2>4
<1>7. HandlersOK'
  <2>1. CASE step = "create"
    <3>1. "idle" \in Places
      BY DEF Places
    <3>2. /\ held' = Append(held, 1) /\ handler' = Append(handler, "idle")
          /\ seen' = Append(seen, 0) /\ tick' = tick
      BY <1>4, <1>6, <2>1
    <3>. QED  BY <1>0, <3>1, <3>2 DEF HandlersOK
  <2>2. CASE step # "create"
    <3>1. /\ held' \in Seq(Int) /\ Len(held') = Len(held) /\ handler' = handler
          /\ seen' = seen /\ tick' \in {tick, 0}
      BY <1>4, <1>6, <2>2
    <3>. QED  BY <1>0, <3>1 DEF HandlersOK
  <2>. QED  BY <2>1, <2>2
<1>8. ASSUME port = "linux" PROVE LinuxInv'
  <2>1. \A s \in DOMAIN handler' : handler'[s] = "idle"
    BY <1>1, <1>4, <1>8 DEF HandlersOK, Idle
  <2>2. ~paused
    BY <1>1, <1>8 DEF LinuxInv
  <2>3. caller = "suspend" /\ Len(steps') = 1 => ~timer_active'
    <3>1. ASSUME caller = "suspend", Len(steps') = 1 PROVE step = "inactive"
      BY <1>2, <3>1 DEF StepAt
    <3>2. step = "inactive" => ~timer_active'
      BY <1>4, Zenon
    <3>. QED  BY <1>4, <3>1, <3>2
  <2>4. ASSUME paused'
        PROVE  /\ steps' = <<>> /\ ~timer_active'
               /\ \A s \in DOMAIN handler' : handler'[s] = "idle" /\ held'[s] # 0
    <3>1. caller = "suspend" /\ Len(steps) = 1 /\ step = "hold"
      <4>1. caller = "suspend" /\ Len(steps) = 1
        BY <1>4, <2>2, <2>4, Zenon
      <4>. QED  BY <1>2, <4>1 DEF StepAt
    <3>2. steps' = <<>>
      BY <1>2, <1>3, <3>1 DEF StepsOK, LastSteps
    <3>3. ~timer_active'
      BY <1>1, <1>4, <1>8, <3>1 DEF LinuxInv
    <3>4. DOMAIN handler' = DOMAIN held'
      BY <1>7 DEF HandlersOK
    <3>. QED  BY <1>6, <1>8, <2>1, <3>1, <3>2, <3>3, <3>4
  <2>. QED  BY <1>4, <2>1, <2>3, <2>4 DEF LinuxInv
<1>9. ASSUME port = "macos" PROVE MacInv'
  <2> SUFFICES ASSUME Len(held') = 1
               PROVE  /\ handler'[1] = "write" => seen'[1] = tick'
                      /\ caller' = "enable" /\ Len(steps') \in {3, 4} =>
                           handler'[1] = "idle" /\ held'[1] # 0
    BY DEF MacInv
  <2>1. CASE step = "create"
    <3>1. Len(held) = 0 /\ held \in Seq(Int) /\ handler \in Seq(Places) /\ Len(handler) = 0
      <4>1. held' = Append(held, 1)
        BY <1>6, <2>1
      <4>. QED  BY <1>0, <4>1 DEF HandlersOK
    <3>2. handler'[1] = "idle" /\ held'[1] = 1
      BY <1>4, <1>6, <2>1, <3>1
    <3>. QED  BY <3>2
  <2>2. CASE step # "create"
    <3>1. Len(held) = 1 /\ handler' = handler /\ seen' = seen
      BY <1>4, <1>6, <2>2
    <3>2. /\ handler[1] = "write" => seen[1] = tick
          /\ caller = "enable" /\ Len(steps) \in {3, 4} => handler[1] = "idle" /\ held[1] # 0
      BY <1>1, <1>9, <3>1 DEF MacInv
    <3>3. handler'[1] = "write" => seen'[1] = tick'
      BY <1>2, <1>4, <3>1, <3>2 DEF StepAt
    <3>4. ASSUME caller' = "enable", Len(steps') \in {3, 4}
          PROVE  handler'[1] = "idle" /\ held'[1] # 0
      <4>1. Len(steps) = 4 /\ step = "speed"
        BY <1>2, <1>4, <1>9, <2>2, <3>4 DEF StepAt
      <4>. QED  BY <1>4, <1>6, <3>1, <3>2, <3>4, <4>1
    <3>. QED  BY <3>3, <3>4
  <2>. QED  BY <2>1, <2>2
<1>10. OneClockStep
  BY <1>2, <1>4 DEF OneClockStep, StepAt
<1>. QED
  BY <1>1, <1>3, <1>4, <1>7, <1>8, <1>9, <1>10 DEF ClocksInv

LEMMA CallStep ==
  ASSUME ClocksInv, UNCHANGED dos_vars, port \in {"linux", "macos"},
         \/ Enable \/ Suspend \/ Resume \/ ChangeSpeed \/ (\E n \in Waits : Delay(n))
         \/ CheckDelay \/ EndDelay
  PROVE  ClocksInv' /\ OneClockStep
<1>1. /\ HandlersOK /\ StepsOK
      /\ (port = "linux" => LinuxInv)
      /\ (port = "macos" => MacInv)
  BY DEF ClocksInv
<1>2. UNCHANGED <<port, tick, timer_active, held, handler, seen>>
  BY DEF Enable, Suspend, Resume, ChangeSpeed, Delay, CheckDelay, EndDelay, Calls
<1>3. /\ steps' = WorkOf(caller') \/ steps' = <<>>
      /\ caller' = "enable" => Len(steps') \in {0, 5, 7}
      /\ caller' = "suspend" => Len(steps') \in {0, 2}
  <2>1. CASE Enable
    BY <2>1 DEF Enable, Calls, WorkOf, EnableSteps
  <2>2. CASE Suspend
    BY <2>2 DEF Suspend, Calls, WorkOf, DisableSteps
  <2>3. CASE Resume
    BY <2>3 DEF Resume, Calls, WorkOf, ResumeSteps
  <2>4. CASE ChangeSpeed \/ (\E n \in Waits : Delay(n))
    BY <2>4 DEF ChangeSpeed, Delay, Calls, WorkOf
  <2>5. CASE CheckDelay \/ EndDelay
    BY <2>5 DEF CheckDelay, EndDelay
  <2>. QED  BY <2>1, <2>2, <2>3, <2>4, <2>5
<1>4. StepsOK'
  <2>1. /\ WorkOf(caller)' = WorkOf(caller')
        /\ WorkOf(caller') \in Seq(Works) /\ Len(WorkOf(caller')) \in Nat
    BY <1>2, WorkIsSteps DEF WorkOf, EnableSteps, DisableSteps, ResumeSteps
  <2>2. steps' \in Seq(Works) /\ Len(steps') <= Len(WorkOf(caller'))
    <3>1. CASE steps' = WorkOf(caller')
      BY <2>1, <3>1
    <3>2. CASE steps' = <<>>
      BY <2>1, <3>2
    <3>. QED  BY <1>3, <3>1, <3>2
  <2>3. \A i \in 1 .. Len(steps') :
          steps'[i] = WorkOf(caller')[Len(WorkOf(caller')) - Len(steps') + i]
    <3>1. CASE steps' = WorkOf(caller')
      BY <2>1, <3>1
    <3>2. CASE steps' = <<>>
      BY <3>2
    <3>. QED  BY <1>3, <3>1, <3>2
  <2>. QED  BY <2>1, <2>2, <2>3 DEF StepsOK, LastSteps
<1>5. HandlersOK'
  BY <1>1, <1>2 DEF HandlersOK
<1>6. paused' => paused /\ (port = "linux" => steps' = <<>>)
  BY <1>1 DEF LinuxInv, Enable, Suspend, Resume, ChangeSpeed, Delay, CheckDelay, EndDelay
<1>7. ASSUME port = "linux" PROVE LinuxInv'
  BY <1>1, <1>2, <1>3, <1>6, <1>7, SMTT(30) DEF LinuxInv
<1>8. ASSUME port = "macos" PROVE MacInv'
  <2>1. MacInv /\ held' = held /\ handler' = handler /\ seen' = seen /\ tick' = tick
    BY <1>1, <1>2, <1>8
  <2>2. caller' = "enable" => Len(steps') \notin {3, 4}
    BY <1>3
  <2>. QED  BY <2>1, <2>2 DEF MacInv
<1>9. OneClockStep
  BY <1>2 DEF OneClockStep
<1>. QED
  BY <1>2, <1>4, <1>5, <1>7, <1>8, <1>9 DEF ClocksInv

\* The timer of Linux is one clock however often it is enabled and however many
\* of its handlers are due: it counts up by one, stands still while it is paused,
\* and goes back only when it is enabled.  That of macOS is one while there is one
\* source, but for a handler that had begun when it was paused, and that of DOS
\* until its handler takes itself for the one before it; nothing is said of them
\* beyond (timer_linux.cpp:200, timer_macos.cpp:424, timer_dos.cpp:133).
THEOREM TimerIsOneClock == HostedSpec => OneClock
<1>1. HostedInit => ClocksInv
  <2>. SUFFICES ASSUME HostedInit PROVE ClocksInv
    OBVIOUS
  <2>1. HandlersOK /\ StepsOK
    BY DEF HostedInit, HandlersOK, StepsOK, LastSteps, WorkOf
  <2>. QED  BY <2>1, HostedAssumption DEF HostedInit, ClocksInv, LinuxInv, MacInv
<1>2. ClocksInv /\ [HostedNext]_hosted_vars =>
        ClocksInv' /\ (OneClockStep \/ UNCHANGED hosted_vars)
  <2>. SUFFICES ASSUME ClocksInv, [HostedNext]_hosted_vars
                PROVE  ClocksInv' /\ (OneClockStep \/ UNCHANGED hosted_vars)
    OBVIOUS
  <2>1. port \in {"linux", "macos", "dos"}
    BY DEF ClocksInv
  <2>2. CASE port # "dos" /\ HostedNext
    <3>1. UNCHANGED dos_vars
      BY <2>2 DEF HostedNext
    <3>2. \/ \E s \in DOMAIN handler : Fire(s) \/ Claim(s) \/ ReadTick(s) \/ WriteTick(s)
                                       \/ LeaveHandler(s)
          \/ TimerStep
          \/ \/ Enable \/ Suspend \/ Resume \/ ChangeSpeed \/ (\E n \in Waits : Delay(n))
             \/ CheckDelay \/ EndDelay
      BY <2>2 DEF HostedNext
    <3>3. port \in {"linux", "macos"}
      BY <2>1, <2>2
    <3>. QED  BY <2>2, <3>1, <3>2, <3>3, HandlerStep, ProgramStep, CallStep
  <2>3. CASE port = "dos" /\ DosNext
    <3>1. port' = port /\ (paused => vector = old_timer)
      BY <2>3 DEF DosNext, ClocksInv
    <3>2. (paused' => vector' = old_timer') /\ OneClockStep
      BY <2>3, <3>1 DEF DosNext, DosEnable, DosResume, DosSuspend, DosChangeSpeed, DosTick,
                        Installs, DosCall, OneClockStep
    <3>. QED  BY <2>3, <3>1, <3>2 DEF ClocksInv
  <2>4. CASE port = "dos" /\ UNCHANGED dos_vars
             /\ ((\E n \in Waits : Delay(n)) \/ CheckDelay \/ EndDelay)
    <3>1. UNCHANGED <<port, tick, paused, vector, old_timer>>
      BY <2>4 DEF dos_vars, Delay, CheckDelay, EndDelay, Calls
    <3>. QED  BY <2>4, <3>1 DEF ClocksInv, OneClockStep
  <2>5. CASE UNCHANGED hosted_vars
    BY <2>5 DEF hosted_vars, dos_vars, ClocksInv, HandlersOK, StepsOK, LastSteps, WorkOf,
                EnableSteps, DisableSteps, ResumeSteps, LinuxInv, MacInv
  <2>. QED  BY <2>2, <2>3, <2>4, <2>5 DEF HostedNext
<1>3. OneClockStep => [ (port = "macos" => Len(held) = 1) /\ (port = "dos" => old_timer = "bios") =>
                          \/ tick' = tick
                          \/ tick' = tick + 1 /\ (paused => port = "macos" /\ ~Idle)
                          \/ tick' = 0 /\ caller' = "enable" ]_hosted_vars
  BY DEF OneClockStep
<1>. QED
  BY <1>1, <1>2, <1>3, PTL DEF HostedSpec, OneClock

-----------------------------------------------------------------------------
(***************************************************************************)
(* The boot sectors.                                                       *)
(***************************************************************************)

\* The sector the active partition starts with, and how many numbers the 32 bits
\* of a sector number give.
Start == firmware.table[FirstActive].start
Numbers == WordRange*WordRange

\* The kernel's sectors have numbers of 32 bits: 1024 sectors behind one below
\* 65535, read 64 at a time.
KernelFits == kernel_size + ChunkSectors + WordRange <= Numbers

MenuInv ==
  /\ downs \in Int /\ boot_entry = downs % 4
  /\ at = "menu" => dl \in Int /\ dl % 4 = downs % 4

SectorsInOrder == Start + 1 < WordRange => \A k \in DOMAIN memory : memory[k] = Start + k

ReadingInv ==
  /\ firmware.table \in Tables
  /\ at = "vbr" => si = FirstActive
  /\ at \notin {"mbr", "halted"} => Start \in Nat
  /\ low \in Int /\ high \in Int /\ remaining \in Int /\ memory \in Seq(Int)
  /\ at \in {"mbr", "vbr", "delay", "menu"} => memory = <<>>
  /\ at \in {"mbr", "vbr", "delay", "menu", "read", "verify"} => remaining = kernel_size - Len(memory)
  /\ at \in {"delay", "menu", "read"} /\ Start + 1 < WordRange =>
       high = 0 /\ low = Start + 1 + Len(memory)
  /\ at = "read" => memory = <<>> \/ remaining > ChunkSectors
  /\ at = "verify" => remaining <= ChunkSectors
  /\ at \in {"read", "verify"} => SectorsInOrder

\* What KernelAsChosen is proved from.
BootInv == MenuInv /\ ReadingInv /\ KernelAsChosen

LEMMA SmallRemainder ==
  ASSUME NEW m \in Nat \ {0}, NEW n \in 0 .. m - 1
  PROVE  n % m = n
OBVIOUS

LEMMA ActiveIsPartition ==
  ASSUME ActivePartitions # {}
  PROVE  FirstActive \in 1 .. 4
<1>1. \E i \in ActivePartitions : \A j \in ActivePartitions : i <= j
  <2>1. ActivePartitions \subseteq 1 .. 4
    BY DEF ActivePartitions
  <2>2. CASE 1 \in ActivePartitions
    BY <2>1, <2>2
  <2>3. CASE 1 \notin ActivePartitions /\ 2 \in ActivePartitions
    BY <2>1, <2>3
  <2>4. CASE 1 \notin ActivePartitions /\ 2 \notin ActivePartitions /\ 3 \in ActivePartitions
    BY <2>1, <2>4
  <2>5. CASE 1 \notin ActivePartitions /\ 2 \notin ActivePartitions
             /\ 3 \notin ActivePartitions /\ 4 \in ActivePartitions
    BY <2>1, <2>5
  <2>6. \/ 1 \in ActivePartitions \/ 2 \in ActivePartitions \/ 3 \in ActivePartitions
        \/ 4 \in ActivePartitions
    <3>1. PICK i : i \in ActivePartitions
      OBVIOUS
    <3>2. i \in {1, 2, 3, 4}
      BY <2>1, <3>1
    <3>. QED  BY <3>1, <3>2
  <2>. QED  BY <2>2, <2>3, <2>4, <2>5, <2>6
<1>2. FirstActive \in ActivePartitions
  BY <1>1 DEF FirstActive
<1>. QED
  BY <1>2 DEF ActivePartitions

LEMMA WordHalves ==
  ASSUME NEW n \in Nat
  PROVE  /\ FirstSector(n).low \in Int /\ FirstSector(n).high \in Int
         /\ n + 1 < WordRange => FirstSector(n).low = n + 1 /\ FirstSector(n).high = 0
<1>1. WordRange \in Nat \ {0}
  BY BootAssumption
<1>2. n % WordRange \in 0 .. WordRange - 1 /\ n \div WordRange \in Int
  BY <1>1
<1>3. ((n % WordRange) + 1) % WordRange \in Int
  BY <1>1, <1>2
<1>4. ASSUME n + 1 < WordRange
      PROVE  n % WordRange = n /\ n \div WordRange = 0 /\ (n + 1) % WordRange = n + 1
  BY <1>1, <1>4
<1>. QED
  BY <1>2, <1>3, <1>4 DEF FirstSector

\* A step of the menu.
LEMMA MenuStep ==
  ASSUME MenuInv, SectorsNext PROVE MenuInv'
<1>1. CASE \E step \in {-1, 0, 1} : MenuKey(step)
  <2>1. PICK step \in {-1, 0, 1} : MenuKey(step)
    BY <1>1
  <2>2. /\ downs' = downs + step /\ dl' = (dl + step) % 256 /\ boot_entry' = dl' % 4
        /\ dl \in Int /\ downs \in Int /\ dl % 4 = downs % 4
    BY <2>1 DEF MenuKey, MenuInv
  <2>3. dl' \in Int /\ downs' \in Int /\ dl' % 4 = downs' % 4
    BY <2>2
  <2>. QED  BY <2>2, <2>3 DEF MenuInv
<1>2. CASE EnterMenu
  BY <1>2 DEF MenuInv, EnterMenu
<1>3. CASE LoadVolumeBootRecord \/ EnterVolumeBootRecord \/ Wait \/ Enter \/ ReadChunk \/ StartKernel
  BY <1>3 DEF MenuInv, LoadVolumeBootRecord, EnterVolumeBootRecord, Wait, Enter, ReadChunk,
              StartKernel, menu_vars, Fails
<1>. QED
  BY <1>1, <1>2, <1>3 DEF SectorsNext

\* The sectors read are those that follow.
LEMMA ChunkRead ==
  ASSUME KernelFits, ReadingInv, ReadChunk, at' # "halted"
  PROVE  ReadingInv' /\ at' \in {"read", "verify"}
<1> DEFINE chunk == [i \in 1 .. ChunkSectors |-> low + i - 1 + high*WordRange*WordRange]
<1>1. /\ at = "read" /\ UNCHANGED <<firmware, si, high>>
      /\ memory' = memory \o chunk
      /\ low' = (low + ChunkSectors) % Numbers
      /\ remaining' = remaining - ChunkSectors
      /\ at' = IF remaining' > ChunkSectors THEN "read" ELSE "verify"
  BY DEF ReadChunk, Fails, Numbers
<1>2. /\ WordRange \in Nat \ {0} /\ ChunkSectors \in Nat \ {0} /\ kernel_size \in Nat
      /\ Numbers \in Nat \ {0}
  BY BootAssumption DEF Numbers
<1>3. /\ firmware.table \in Tables /\ Start \in Nat
      /\ low \in Int /\ high \in Int /\ remaining \in Int /\ memory \in Seq(Int)
      /\ remaining = kernel_size - Len(memory)
      /\ Start + 1 < WordRange => high = 0 /\ low = Start + 1 + Len(memory)
      /\ memory = <<>> \/ remaining > ChunkSectors
      /\ SectorsInOrder
  BY <1>1 DEF ReadingInv
<1>4. Start' = Start
  BY <1>1 DEF Start, FirstActive, ActivePartitions
<1>5. chunk \in Seq(Int) /\ Len(chunk) = ChunkSectors
  <2>1. high*WordRange*WordRange \in Int
    BY <1>2, <1>3
  <2>2. \A i \in 1 .. ChunkSectors : low + i - 1 + high*WordRange*WordRange \in Int
    BY <1>2, <1>3, <2>1
  <2>. QED  BY <1>2, <2>2
<1>6. /\ memory' \in Seq(Int) /\ Len(memory') = Len(memory) + ChunkSectors
      /\ \A k \in 1 .. Len(memory) : memory'[k] = memory[k]
      /\ \A k \in 1 .. ChunkSectors : memory'[Len(memory) + k] = chunk[k]
  <2>1. memory' = memory \o chunk
    BY <1>1
  <2>2. memory \in Seq(Int)
    BY <1>3
  <2> HIDE DEF chunk
  <2>3. /\ memory \o chunk \in Seq(Int) /\ Len(memory \o chunk) = Len(memory) + Len(chunk)
        /\ \A i \in 1 .. Len(memory) + Len(chunk) : (memory \o chunk)[i] =
             IF i <= Len(memory) THEN memory[i] ELSE chunk[i - Len(memory)]
    BY <1>5, <2>2, ConcatProperties, Zenon
  <2>4. Len(memory) \in Nat
    BY <2>2
  <2>. QED  BY <1>2, <1>5, <2>1, <2>3, <2>4
<1>7. low' \in Int /\ high' \in Int /\ remaining' \in Int /\ remaining' = kernel_size - Len(memory')
  BY <1>1, <1>2, <1>3, <1>6
<1>8. ASSUME Start + 1 < WordRange
      PROVE  low' = Start + 1 + Len(memory')
  <2>1. low + ChunkSectors = Start + 1 + Len(memory') /\ Len(memory) \in Nat
    BY <1>2, <1>3, <1>6, <1>8
  <2>2. CASE memory = <<>>
    <3>1. low + ChunkSectors \in Nat /\ low + ChunkSectors < Numbers
      BY <1>2, <1>3, <1>6, <1>8, <2>1, <2>2 DEF KernelFits
    <3>2. low + ChunkSectors \in 0 .. Numbers - 1
      BY <1>2, <3>1
    <3>3. (low + ChunkSectors) % Numbers = low + ChunkSectors
      BY <1>2, <3>2, SmallRemainder, Zenon
    <3>. QED  BY <1>1, <2>1, <3>3
  <2>3. CASE remaining > ChunkSectors
    <3>1. low + ChunkSectors \in Nat /\ low + ChunkSectors < Numbers
      BY <1>2, <1>3, <1>6, <1>8, <2>1, <2>3 DEF KernelFits
    <3>2. low + ChunkSectors \in 0 .. Numbers - 1
      BY <1>2, <3>1
    <3>3. (low + ChunkSectors) % Numbers = low + ChunkSectors
      BY <1>2, <3>2, SmallRemainder, Zenon
    <3>. QED  BY <1>1, <2>1, <3>3
  <2>. QED  BY <1>3, <2>2, <2>3
<1>9. SectorsInOrder'
  <2> SUFFICES ASSUME Start + 1 < WordRange, NEW k \in 1 .. Len(memory')
               PROVE  memory'[k] = Start + k
    BY <1>4, <1>6 DEF SectorsInOrder
  <2>1. CASE k \in 1 .. Len(memory)
    <3>1. memory[k] = Start + k
      BY <1>3, <2>1 DEF SectorsInOrder
    <3>. QED  BY <1>6, <2>1, <3>1
  <2>2. CASE k \notin 1 .. Len(memory)
    <3>1. k - Len(memory) \in 1 .. ChunkSectors /\ k = Len(memory) + (k - Len(memory))
      BY <1>2, <1>3, <1>6, <2>2
    <3>2. memory'[k] = chunk[k - Len(memory)]
      BY <1>6, <3>1
    <3>3. chunk[k - Len(memory)] = low + (k - Len(memory)) - 1 + high*WordRange*WordRange
      BY <3>1
    <3>4. high = 0 /\ high*WordRange*WordRange = 0 /\ low = Start + 1 + Len(memory)
      BY <1>2, <1>3
    <3>. QED  BY <1>3, <3>1, <3>2, <3>3, <3>4
  <2>. QED  BY <2>1, <2>2
<1>10. at' \in {"read", "verify"} /\ (at' = "read" => remaining' > ChunkSectors)
       /\ (at' = "verify" => remaining' <= ChunkSectors)
  BY <1>1, <1>2, <1>7
<1>11. firmware'.table \in Tables /\ Start' \in Nat
  BY <1>1, <1>3, <1>4
<1>12. at' \in {"delay", "menu", "read"} /\ Start' + 1 < WordRange =>
         high' = 0 /\ low' = Start' + 1 + Len(memory')
  BY <1>1, <1>3, <1>4, <1>8
<1>. QED
  BY <1>6, <1>7, <1>9, <1>10, <1>11, <1>12 DEF ReadingInv

\* A step of the boot sectors before the kernel is entered.
LEMMA SectorStep ==
  ASSUME KernelFits, BootInv, SectorsNext PROVE BootInv'
<1>1. MenuInv /\ ReadingInv /\ MenuInv'
  BY MenuStep DEF BootInv
<1>2. CASE at' = "halted"
  <2>1. /\ firmware' = firmware /\ low' \in Int /\ high' \in Int /\ remaining' \in Int
        /\ memory' \in Seq(Int)
    BY <1>1, <1>2 DEF SectorsNext, LoadVolumeBootRecord, EnterVolumeBootRecord, Wait, EnterMenu,
         Enter, MenuKey, ReadChunk, StartKernel, Fails, disk_vars, ReadingInv
  <2>. QED  BY <1>1, <1>2, <2>1 DEF BootInv, ReadingInv, KernelAsChosen
<1>3. CASE ReadChunk /\ at' # "halted"
  BY <1>1, <1>3, ChunkRead DEF BootInv, KernelAsChosen, Booting
<1>4. CASE LoadVolumeBootRecord /\ at' # "halted"
  <2>1. /\ ActivePartitions # {} /\ UNCHANGED disk_vars /\ at = "mbr" /\ at' = "vbr"
        /\ si' = FirstActive
    BY <1>4 DEF LoadVolumeBootRecord, Fails
  <2>2. FirstActive' = FirstActive /\ Start' = Start
    BY <2>1 DEF disk_vars, Start, FirstActive, ActivePartitions
  <2>3. Start \in Nat
    BY <1>1, <2>1, ActiveIsPartition, BootAssumption DEF ReadingInv, Start
  <2>. QED  BY <1>1, <2>1, <2>2, <2>3 DEF BootInv, ReadingInv, KernelAsChosen, Booting, disk_vars
<1>5. CASE EnterVolumeBootRecord
  <2>1. /\ at = "vbr" /\ at' = "delay" /\ UNCHANGED <<firmware, remaining, memory>>
        /\ Start \in Nat /\ si = FirstActive /\ memory = <<>>
        /\ low' = FirstSector(Start).low /\ high' = FirstSector(Start).high
    BY <1>1, <1>5 DEF EnterVolumeBootRecord, ReadingInv, Start
  <2>2. Start' = Start
    BY <2>1 DEF Start, FirstActive, ActivePartitions
  <2>3. /\ low' \in Int /\ high' \in Int
        /\ Start + 1 < WordRange => high' = 0 /\ low' = Start + 1 + Len(memory')
    BY <2>1, WordHalves
  <2>. QED  BY <1>1, <2>1, <2>2, <2>3 DEF BootInv, ReadingInv, KernelAsChosen, Booting
<1>6. CASE Wait \/ EnterMenu \/ Enter \/ \E step \in {-1, 0, 1} : MenuKey(step)
  <2>1. /\ UNCHANGED disk_vars /\ at \in {"delay", "menu"} /\ at' \in {"delay", "menu", "read"}
    BY <1>6 DEF Wait, EnterMenu, Enter, MenuKey
  <2>2. Start' = Start
    BY <2>1 DEF disk_vars, Start, FirstActive, ActivePartitions
  <2>3. SectorsInOrder' /\ memory = <<>>
    BY <1>1, <2>1 DEF SectorsInOrder, ReadingInv, disk_vars
  <2>. QED  BY <1>1, <2>1, <2>2, <2>3 DEF BootInv, ReadingInv, KernelAsChosen, Booting, disk_vars
<1>7. CASE StartKernel /\ at' # "halted"
  <2>1. /\ at = "verify" /\ at' = "enter_16" /\ si' = boot_entry /\ memory[1] \in firmware.kernels
        /\ UNCHANGED <<firmware, low, high, remaining, memory, downs>>
    BY <1>7 DEF StartKernel, Fails, disk_vars, menu_vars
  <2>2. Start' = Start /\ (SectorsInOrder' <=> SectorsInOrder)
    BY <2>1 DEF SectorsInOrder, Start, FirstActive, ActivePartitions
  <2>3. ReadingInv'
    BY <1>1, <2>1, <2>2 DEF ReadingInv
  <2>4. KernelAsChosen'
    <3>1. Len(memory) >= kernel_size - ChunkSectors /\ SectorsInOrder /\ si' = downs % 4
      BY <1>1, <2>1, BootAssumption DEF ReadingInv, MenuInv
    <3>. QED  BY <2>1, <2>2, <3>1 DEF KernelAsChosen, SectorsInOrder, Start
  <2>. QED  BY <1>1, <2>3, <2>4 DEF BootInv
<1>. QED
  BY <1>2, <1>3, <1>4, <1>5, <1>6, <1>7 DEF SectorsNext

\* The kernel is entered only with the sectors behind the active partition's
\* first in memory, in their order and all but the last chunk of them, and with
\* the boot entry that the keys led to, and keeps them to the scheduler: for every
\* partition table, every kernel whose sector numbers fit two words and every
\* series of keys.  Of a partition that starts at the last number of a word or
\* beyond, where the carry goes into the wrong word, only the entry and the number
\* of sectors are claimed (volume_boot_record.S:164, :213, :256).
THEOREM KernelIsTheChosenOne ==
  ASSUME KernelFits PROVE KernelSpec => []KernelAsChosen
<1>1. KernelInit => BootInv
  <2> SUFFICES ASSUME KernelInit PROVE BootInv
    OBVIOUS
  <2>1. /\ at = "mbr" /\ low = 2 /\ high = 0 /\ remaining = kernel_size /\ memory = <<>>
        /\ boot_entry = 0 /\ downs = 0 /\ firmware.table \in Tables
    BY DEF KernelInit, SectorsInit
  <2>. QED  BY <2>1, BootAssumption DEF BootInv, MenuInv, ReadingInv, KernelAsChosen, Booting
<1>2. BootInv /\ [KernelNext]_kernel_vars => BootInv'
  <2> SUFFICES ASSUME BootInv, [KernelNext]_kernel_vars PROVE BootInv'
    OBVIOUS
  <2>1. CASE SectorsNext
    BY <2>1, SectorStep
  <2>2. ASSUME UNCHANGED <<si, disk_vars, menu_vars>>,
               \/ ~Booting /\ at # "halted" /\ ~Booting' /\ at' # "halted"
               \/ at' = at
        PROVE  BootInv'
    <3>1. Start' = Start /\ FirstActive' = FirstActive /\ (SectorsInOrder' <=> SectorsInOrder)
      BY <2>2 DEF disk_vars, SectorsInOrder, Start, FirstActive, ActivePartitions
    <3>2. MenuInv'
      BY <2>2 DEF BootInv, MenuInv, menu_vars, Booting
    <3>3. ReadingInv'
      BY <2>2, <3>1 DEF BootInv, ReadingInv, disk_vars, Booting
    <3>4. KernelAsChosen'
      BY <2>2, <3>1 DEF BootInv, KernelAsChosen, disk_vars, menu_vars, Booting, Start
    <3>. QED  BY <3>2, <3>3, <3>4 DEF BootInv
  <2>3. CASE \/ EnterProtectedMode \/ InitializeMemoryMap \/ A20Check \/ SetupInterrupts
             \/ InitializeParameters \/ InitializeModules \/ InitializeSerialPorts
             \/ InitializeVesa \/ StartTimer \/ InitializeScreen \/ RunScheduler
    BY <2>2, <2>3 DEF EnterProtectedMode, InitializeMemoryMap, A20Check, SetupInterrupts,
         InitializeParameters, InitializeModules, InitializeSerialPorts, InitializeVesa,
         StartTimer, InitializeScreen, RunScheduler, Goes, Booting
  <2>4. CASE UNCHANGED kernel_vars
    BY <2>2, <2>4 DEF kernel_vars, sector_vars
  <2>. QED  BY <2>1, <2>3, <2>4 DEF KernelNext
<1>3. BootInv => KernelAsChosen
  BY DEF BootInv
<1>. QED
  BY <1>1, <1>2, <1>3, PTL DEF KernelSpec

-----------------------------------------------------------------------------
(***************************************************************************)
(* The call stack of a panic.                                              *)
(***************************************************************************)
SymbolNames == Seq(STRING)
Listed == Seq([address : Nat, name : SymbolNames])
Maps == [offtab : Seq([address : Nat, symbol_offset : Nat]), strtab : SymbolNames]

\* The table has an entry for each of the first n functions, and the name of
\* each is in its place among the names, up to where the next one begins.
Tabled(m, listed, n) ==
  /\ m \in Maps /\ Len(m.offtab) = n
  /\ \A i \in 1 .. n :
       LET from == m.offtab[i].symbol_offset
       IN  /\ m.offtab[i].address = listed[i].address
           /\ from + Len(listed[i].name) = IF i = n THEN Len(m.strtab) ELSE m.offtab[i + 1].symbol_offset
           /\ from + Len(listed[i].name) <= Len(m.strtab)
           /\ \A j \in 1 .. Len(listed[i].name) : m.strtab[from + j] = listed[i].name[j]

LEMMA SymbolTyped ==
  ASSUME NEW listed \in Listed, NEW i \in 1 .. Len(listed)
  PROVE  listed[i] \in [address : Nat, name : SymbolNames] /\ listed[i].address \in Nat
         /\ listed[i].name \in Seq(STRING) /\ Len(listed[i].name) \in Nat
<1>1. listed[i] \in [address : Nat, name : SymbolNames]
  <2> DEFINE S == [address : Nat, name : SymbolNames]
  <2>1. listed \in Seq(S)
    BY Zenon DEF Listed
  <2>. HIDE DEF S
  <2>2. listed[i] \in S
    BY <2>1
  <2>. QED  BY <2>2 DEF S
<1>2. listed[i].address \in Nat /\ listed[i].name \in Seq(STRING)
  BY <1>1 DEF SymbolNames
<1>. QED
  BY <1>1, <1>2, LenProperties

LEMMA MapsTyped ==
  ASSUME NEW m \in Maps
  PROVE  /\ m.offtab \in Seq([address : Nat, symbol_offset : Nat]) /\ m.strtab \in Seq(STRING)
         /\ Len(m.offtab) \in Nat /\ Len(m.strtab) \in Nat
         /\ \A i \in 1 .. Len(m.offtab) :
              m.offtab[i].address \in Nat /\ m.offtab[i].symbol_offset \in Nat
<1> DEFINE S == [address : Nat, symbol_offset : Nat]
<1>1. m.offtab \in Seq(S) /\ m.strtab \in Seq(STRING)
  BY DEF Maps, SymbolNames
<1>2. \A e \in S : e.address \in Nat /\ e.symbol_offset \in Nat
  OBVIOUS
<1>. HIDE DEF S
<1>3. \A i \in 1 .. Len(m.offtab) : m.offtab[i] \in S
  BY <1>1
<1>4. Len(m.offtab) \in Nat /\ Len(m.strtab) \in Nat
  BY <1>1
<1>. QED
  BY <1>1, <1>2, <1>3, <1>4 DEF S

LEMMA WithSymbolTyped ==
  ASSUME NEW m \in Maps, NEW symbol \in [address : Nat, name : SymbolNames]
  PROVE  /\ WithSymbol(m, symbol) \in Maps
         /\ WithSymbol(m, symbol).strtab = m.strtab \o symbol.name
         /\ WithSymbol(m, symbol).offtab
              = Append(m.offtab, [address |-> symbol.address, symbol_offset |-> Len(m.strtab)])
<1>1. m.offtab \in Seq([address : Nat, symbol_offset : Nat]) /\ m.strtab \in Seq(STRING)
      /\ Len(m.strtab) \in Nat
  BY MapsTyped
<1>2. symbol.address \in Nat /\ symbol.name \in Seq(STRING)
  BY DEF SymbolNames
<1>3. [address |-> symbol.address, symbol_offset |-> Len(m.strtab)]
        \in [address : Nat, symbol_offset : Nat]
  BY <1>1, <1>2
<1>4. m.strtab \o symbol.name \in Seq(STRING)
  BY <1>1, <1>2
<1>5. Append(m.offtab, [address |-> symbol.address, symbol_offset |-> Len(m.strtab)])
        \in Seq([address : Nat, symbol_offset : Nat])
  BY <1>1, <1>3, AppendProperties
<1>. QED
  BY <1>4, <1>5 DEF WithSymbol, Maps, SymbolNames

\* A function more in the table.
LEMMA WithSymbolTabled ==
  ASSUME NEW listed \in Listed, NEW n \in 0 .. Len(listed) - 1, NEW m, Tabled(m, listed, n)
  PROVE  Tabled(WithSymbol(m, listed[n + 1]), listed, n + 1)
<1> DEFINE symbol == listed[n + 1]
           w == WithSymbol(m, symbol)
           end == Len(m.strtab)
           len == Len(symbol.name)
           e == [address |-> symbol.address, symbol_offset |-> end]
<1>1. Len(listed) \in Nat /\ n \in Nat /\ n + 1 \in 1 .. Len(listed)
  BY DEF Listed
<1>2. symbol \in [address : Nat, name : SymbolNames] /\ symbol.address \in Nat
      /\ symbol.name \in Seq(STRING) /\ len \in Nat
  BY <1>1, SymbolTyped
<1>3. m \in Maps /\ Len(m.offtab) = n
  BY DEF Tabled
<1>4. /\ m.offtab \in Seq([address : Nat, symbol_offset : Nat]) /\ m.strtab \in Seq(STRING)
      /\ end \in Nat
      /\ \A i \in 1 .. n : m.offtab[i].address \in Nat /\ m.offtab[i].symbol_offset \in Nat
  BY <1>3, MapsTyped
<1>5. w \in Maps /\ w.strtab = m.strtab \o symbol.name /\ w.offtab = Append(m.offtab, e)
  BY <1>2, <1>3, WithSymbolTyped, Zenon
<1>6. e \in [address : Nat, symbol_offset : Nat] /\ e.address = symbol.address
      /\ e.symbol_offset = end
  BY <1>2, <1>4
<1>. HIDE DEF w, e, end, len, symbol
<1>7. /\ Len(w.offtab) = n + 1 /\ w.offtab[n + 1] = e
      /\ \A i \in 1 .. n : w.offtab[i] = m.offtab[i]
  BY <1>3, <1>4, <1>5, <1>6, AppendProperties
<1>8. /\ Len(w.strtab) = end + len
      /\ \A j \in 1 .. end : w.strtab[j] = m.strtab[j]
      /\ \A j \in 1 .. len : w.strtab[end + j] = symbol.name[j]
  <2>1. w.strtab = m.strtab \o symbol.name
    BY <1>5
  <2>. QED  BY <1>2, <1>4, <2>1 DEF end, len
<1>9. ASSUME NEW i \in 1 .. n
      PROVE  /\ w.offtab[i].address = listed[i].address
             /\ w.offtab[i].symbol_offset + Len(listed[i].name) = w.offtab[i + 1].symbol_offset
             /\ w.offtab[i].symbol_offset + Len(listed[i].name) <= Len(w.strtab)
             /\ \A j \in 1 .. Len(listed[i].name) :
                  w.strtab[w.offtab[i].symbol_offset + j] = listed[i].name[j]
  <2> DEFINE from == m.offtab[i].symbol_offset
             long == Len(listed[i].name)
  <2>1. i \in 1 .. Len(listed) /\ i \in 1 .. n + 1
    BY <1>1
  <2>2. from \in Nat /\ long \in Nat
    BY <1>4, <2>1, SymbolTyped
  <2>3. /\ m.offtab[i].address = listed[i].address
        /\ from + long = IF i = n THEN end ELSE m.offtab[i + 1].symbol_offset
        /\ from + long <= end
        /\ \A j \in 1 .. long : m.strtab[from + j] = listed[i].name[j]
    BY DEF Tabled, end
  <2>4. w.offtab[i] = m.offtab[i]
    BY <1>7
  <2>5. from + long = w.offtab[i + 1].symbol_offset
    <3>1. CASE i = n
      BY <1>6, <1>7, <2>3, <3>1
    <3>2. CASE i # n
      <4>1. i + 1 \in 1 .. n
        BY <1>1, <3>2
      <4>2. w.offtab[i + 1] = m.offtab[i + 1]
        BY <1>7, <4>1
      <4>. QED  BY <2>3, <3>2, <4>2
    <3>. QED  BY <3>1, <3>2
  <2>. HIDE DEF from, long
  <2>6. from + long <= Len(w.strtab)
    BY <1>2, <1>4, <1>8, <2>2, <2>3 DEF len
  <2>7. \A j \in 1 .. long : w.strtab[from + j] = listed[i].name[j]
    <3>1. \A j \in 1 .. long : from + j \in 1 .. end
      BY <1>4, <2>2, <2>3
    <3>. QED  BY <1>8, <2>3, <3>1
  <2>. QED  BY <2>3, <2>4, <2>5, <2>6, <2>7 DEF from, long
<1>10. /\ w.offtab[n + 1].address = symbol.address
       /\ w.offtab[n + 1].symbol_offset + len = Len(w.strtab)
       /\ \A j \in 1 .. len : w.strtab[w.offtab[n + 1].symbol_offset + j] = symbol.name[j]
  BY <1>6, <1>7, <1>8
<1>11. \A i \in 1 .. n + 1 : i = n + 1 \/ (i \in 1 .. n /\ i # n + 1)
  BY <1>1
<1>12. Len(w.strtab) <= Len(w.strtab)
  BY <1>2, <1>4, <1>8 DEF len
<1>13. ASSUME NEW i \in 1 .. n + 1
       PROVE  LET from == w.offtab[i].symbol_offset
              IN  /\ w.offtab[i].address = listed[i].address
                  /\ from + Len(listed[i].name)
                       = IF i = n + 1 THEN Len(w.strtab) ELSE w.offtab[i + 1].symbol_offset
                  /\ from + Len(listed[i].name) <= Len(w.strtab)
                  /\ \A j \in 1 .. Len(listed[i].name) : w.strtab[from + j] = listed[i].name[j]
  <2>1. CASE i = n + 1
    BY <1>10, <1>12, <2>1, Zenon DEF symbol, len
  <2>2. CASE i \in 1 .. n /\ i # n + 1
    BY <1>9, <2>2, Zenon
  <2>. QED  BY <1>11, <2>1, <2>2
<1>. QED
  BY <1>5, <1>7, <1>13, Zenon DEF Tabled, w, symbol

\* The tool's table.
LEMMA TableMade ==
  ASSUME NEW listed \in Listed
  PROVE  Tabled(SymbolMap(listed), listed, Len(listed))
<1> DEFINE n == Len(listed)
           none == [offtab |-> <<>>, strtab |-> <<>>]
           IsMap(h) == h = [i \in 0 .. n |-> IF i = 0 THEN none ELSE WithSymbol(h[i - 1], listed[i])]
           F == [x \in (1 .. n) \X Maps |-> WithSymbol(x[2], listed[x[1]])]
           map == CHOOSE h : IsMap(h)
<1>1. n \in Nat /\ \A i \in 1 .. n : listed[i] \in [address : Nat, name : SymbolNames]
  BY SymbolTyped, LenProperties DEF Listed
<1>2. none \in Maps /\ Len(none.offtab) = 0
  BY EmptySeq DEF Maps, SymbolNames
<1>. HIDE DEF n, none
<1>3. F \in [(1 .. n) \X Maps -> Maps]
  BY <1>1, WithSymbolTyped
<1>4. \A i \in 1 .. n, x \in Maps : F[<<i, x>>] = WithSymbol(x, listed[i])
  OBVIOUS
<1>. HIDE DEF F
<1>5. PICK h : GoesOn(h, F, none, n, Maps)
  BY <1>1, <1>2, <1>3, RecursionRuns
<1>6. IsMap(h)
  <2>1. ASSUME NEW i \in 0 .. n
        PROVE  h[i] = IF i = 0 THEN none ELSE WithSymbol(h[i - 1], listed[i])
    <3>1. CASE i = 0
      BY <1>5, <3>1 DEF GoesOn
    <3>2. CASE i # 0
      <4>1. i \in 1 .. n /\ i - 1 \in 0 .. n
        BY <1>1, <3>2
      <4>. QED  BY <1>4, <1>5, <3>2, <4>1 DEF GoesOn
    <3>. QED  BY <3>1, <3>2
  <2>2. h = [i \in 0 .. n |-> h[i]]
    BY <1>5 DEF GoesOn
  <2>. QED  BY <2>1, <2>2, Zenon
<1>7. IsMap(map)
  BY <1>6, Zenon
<1>8. SymbolMap(listed) = map[n]
  BY Zenon DEF SymbolMap, map, n, none
<1>. HIDE DEF map
<1>9. \A i \in 0 .. n : map[i] = IF i = 0 THEN none ELSE WithSymbol(map[i - 1], listed[i])
  BY <1>7, Zenon
<1>. HIDE DEF IsMap
<1>10. \A i \in 0 .. n : Tabled(map[i], listed, i)
  <2> DEFINE S == {i \in 0 .. n : Tabled(map[i], listed, i)}
  <2>1. 0 \in S
    <3>1. 0 \in 0 .. n
      BY <1>1
    <3>2. map[0] = none
      BY <1>9, <3>1
    <3>3. Tabled(none, listed, 0)
      BY <1>2 DEF Tabled
    <3>. QED  BY <3>1, <3>2, <3>3
  <2>2. ASSUME NEW k \in 0 .. n - 1, k \in S
        PROVE  k + 1 \in S
    <3>1. k + 1 \in 0 .. n /\ k + 1 # 0 /\ (k + 1) - 1 = k /\ k \in 0 .. Len(listed) - 1
      BY <1>1 DEF n
    <3>2. map[k + 1] = WithSymbol(map[k], listed[k + 1])
      BY <1>9, <3>1
    <3>3. Tabled(map[k], listed, k)
      BY <2>2, Zenon
    <3>4. Tabled(map[k + 1], listed, k + 1)
      BY <3>1, <3>2, <3>3, WithSymbolTabled, Zenon
    <3>. QED  BY <3>1, <3>4
  <2>. HIDE DEF S
  <2>3. \A k \in 0 .. n : k \in S
    BY <1>1, <2>1, <2>2, Upward
  <2>. QED  BY <2>3 DEF S
<1>. QED
  BY <1>1, <1>8, <1>10 DEF n

(***************************************************************************)
(* The search.                                                             *)
(***************************************************************************)
Windows == (0 .. Len(entries)) \X (0 .. Len(entries))
Middle(l, r) == l + (r - l) \div 2

\* What the search of a window finds, when g is what that of a smaller one finds.
Looks(g, value, w) ==
  LET mid == w[1] + (w[2] - w[1]) \div 2
      res == compare_symbols(value, mid + 1)
  IN  IF w[1] >= w[2] THEN 0
      ELSE IF res < 0 THEN g[<<w[1], mid>>]
      ELSE IF res > 0 THEN g[<<mid + 1, w[2]>>]
      ELSE mid + 1

LEMMA Halves ==
  ASSUME NEW n \in Nat, NEW l \in 0 .. n, NEW r \in 0 .. n, l < r
  PROVE  /\ Middle(l, r) \in l .. r - 1 /\ Middle(l, r) \in 0 .. n /\ Middle(l, r) + 1 \in 0 .. n
         /\ Middle(l, r) + 1 \in 1 .. n
         /\ Middle(l, r) - l < r - l /\ r - (Middle(l, r) + 1) < r - l
<1> DEFINE d == r - l
<1>1. d \in Nat /\ d > 0
  OBVIOUS
<1>2. d \div 2 \in Nat /\ d \div 2 < d
  <2>. HIDE DEF d
  <2>. QED  BY <1>1
<1>. QED
  BY <1>1, <1>2 DEF Middle

\* Searches that agree on smaller windows find the same.
LEMMA LooksAlike ==
  ASSUME Len(entries) \in Nat, NEW value, NEW f, NEW g, NEW w \in Windows,
         \A v \in Windows : v[2] - v[1] < w[2] - w[1] => f[v] = g[v]
  PROVE  Looks(f, value, w) = Looks(g, value, w)
<1>1. w[1] \in 0 .. Len(entries) /\ w[2] \in 0 .. Len(entries)
  BY DEF Windows
<1>2. CASE w[1] >= w[2]
  BY <1>2 DEF Looks
<1>3. CASE ~(w[1] >= w[2])
  <2> DEFINE l == w[1]
             r == w[2]
             mid == Middle(l, r)
  <2>1. l \in 0 .. Len(entries) /\ r \in 0 .. Len(entries) /\ l < r
    BY <1>1, <1>3
  <2>2. /\ mid \in 0 .. Len(entries) /\ mid + 1 \in 0 .. Len(entries)
        /\ mid - l < r - l /\ r - (mid + 1) < r - l
    BY <2>1, Halves
  <2>. HIDE DEF mid
  <2>3. <<l, mid>> \in Windows /\ <<l, mid>>[1] = l /\ <<l, mid>>[2] = mid
        /\ <<mid + 1, r>> \in Windows /\ <<mid + 1, r>>[1] = mid + 1 /\ <<mid + 1, r>>[2] = r
    BY <2>1, <2>2 DEF Windows
  <2>4. f[<<l, mid>>] = g[<<l, mid>>] /\ f[<<mid + 1, r>>] = g[<<mid + 1, r>>]
    BY <2>2, <2>3
  <2>. QED  BY <2>4, Zenon DEF Looks, mid, Middle, l, r
<1>. QED
  BY <1>2, <1>3

\* The recursion ends: there is a search of all windows.
LEMMA SearchRuns ==
  ASSUME Len(entries) \in Nat, NEW value
  PROVE  \E g : g = [w \in Windows |-> Looks(g, value, w)]
<1> DEFINE n == Len(entries)
           Runs(g, k) == \A w \in Windows : w[2] - w[1] <= k => g[w] = Looks(g, value, w)
           Ran == {k \in 0 .. n : \E g : g = [w \in Windows |-> g[w]] /\ Runs(g, k)}
<1>1. \A w \in Windows : w[1] \in 0 .. n /\ w[2] \in 0 .. n /\ w[2] - w[1] \in Int
                        /\ w[2] - w[1] <= n
  BY DEF Windows
<1>. HIDE DEF n
<1>2. n \in Nat
  BY DEF n
<1>3. 0 \in Ran
  <2> DEFINE g == [w \in Windows |-> 0]
  <2>1. ASSUME NEW w \in Windows, w[2] - w[1] <= 0
        PROVE  g[w] = Looks(g, value, w)
    <3>1. w[1] >= w[2]
      BY <1>1, <1>2, <2>1
    <3>. QED  BY <3>1 DEF Looks
  <2>2. g = [w \in Windows |-> g[w]]
    OBVIOUS
  <2>3. Runs(g, 0)
    BY <2>1, Zenon
  <2>4. 0 \in 0 .. n
    BY <1>2
  <2>. HIDE DEF g, Runs
  <2>. QED  BY <2>2, <2>3, <2>4, Zenon
<1>4. ASSUME NEW k \in 0 .. n - 1, k \in Ran
      PROVE  k + 1 \in Ran
  <2>1. PICK g : g = [w \in Windows |-> g[w]] /\ Runs(g, k)
    BY <1>4, Zenon
  <2> DEFINE f == [w \in Windows |-> Looks(g, value, w)]
  <2>2. f = [w \in Windows |-> f[w]]
    OBVIOUS
  <2>3. \A w \in Windows : f[w] = Looks(g, value, w)
    OBVIOUS
  <2>. HIDE DEF f
  <2>4. ASSUME NEW w \in Windows, w[2] - w[1] <= k + 1
        PROVE  f[w] = Looks(f, value, w)
    <3>1. ASSUME NEW v \in Windows, v[2] - v[1] < w[2] - w[1]
          PROVE  g[v] = f[v]
      <4>1. v[2] - v[1] <= k
        BY <1>1, <1>2, <2>4, <3>1
      <4>. QED  BY <2>1, <2>3, <4>1
    <3>2. Looks(g, value, w) = Looks(f, value, w)
      BY <1>2, <3>1, LooksAlike DEF n
    <3>. QED  BY <2>3, <3>2
  <2>5. Runs(f, k + 1)
    BY <2>4, Zenon
  <2>6. k + 1 \in 0 .. n
    BY <1>2
  <2>. HIDE DEF Runs
  <2>. QED  BY <2>2, <2>5, <2>6, Zenon
<1>5. n \in Ran
  <2>. HIDE DEF Ran
  <2>1. \A k \in 0 .. n : k \in Ran
    BY <1>2, <1>3, <1>4, Upward
  <2>2. n \in 0 .. n
    BY <1>2
  <2>. QED  BY <2>1, <2>2
<1>6. PICK g : g = [w \in Windows |-> g[w]] /\ Runs(g, n)
  BY <1>5, Zenon
<1>7. \A w \in Windows : g[w] = Looks(g, value, w)
  BY <1>1, <1>6, Zenon
<1>. QED
  BY <1>6, <1>7, Zenon

\* The function i is the one with the byte in front of the address.
CalledFrom(i, value) ==
  i \in 1 .. Len(symbols) - 1 /\ symbols[i].address <= value - 1 /\ value - 1 < symbols[i + 1].address

\* The entries are those of the functions, which go upwards.
Upwards ==
  /\ Len(entries) \in Nat /\ Len(entries) = Len(symbols)
  /\ \A i \in 1 .. Len(entries) : entries[i].address \in Nat /\ entries[i].address = symbols[i].address
  /\ \A i, j \in 1 .. Len(entries) : i < j => entries[i].address < entries[j].address

\* In a window with the function of the address it is found.
LEMMA LooksFind ==
  ASSUME Upwards, NEW value \in Nat, value < CodeEnd, CodeEnd \in Nat, NEW i, CalledFrom(i, value),
         NEW g, NEW w \in Windows, w[1] < i, i <= w[2],
         \A v \in Windows : v[2] - v[1] < w[2] - w[1] /\ v[1] < i /\ i <= v[2] => g[v] = i
  PROVE  Looks(g, value, w) = i
<1> DEFINE n == Len(entries)
           l == w[1]
           r == w[2]
           mid == Middle(l, r)
           a == [k \in 1 .. n |-> entries[k].address]
<1>1. n \in Nat /\ l \in 0 .. n /\ r \in 0 .. n /\ l < r /\ i \in 1 .. n - 1 /\ i \in 1 .. n
      /\ i + 1 \in 1 .. n
  BY DEF Windows, Upwards, CalledFrom
<1>2. /\ \A k \in 1 .. n : a[k] \in Nat /\ a[k] = entries[k].address
      /\ \A k, j \in 1 .. n : k < j => a[k] < a[j]
  BY DEF Upwards
<1>3. a[i] < value /\ value <= a[i + 1]
  <2>1. symbols[i].address = a[i] /\ symbols[i + 1].address = a[i + 1]
    BY <1>1, <1>2 DEF Upwards
  <2>2. a[i] \in Nat /\ a[i + 1] \in Nat
    BY <1>1, <1>2
  <2>. QED  BY <2>1, <2>2 DEF CalledFrom
<1>4. /\ mid \in l .. r - 1 /\ mid \in 0 .. n /\ mid + 1 \in 0 .. n /\ mid + 1 \in 1 .. n
      /\ mid - l < r - l /\ r - (mid + 1) < r - l
  BY <1>1, Halves
<1>. HIDE DEF mid, a, n, l, r
<1>5. compare_symbols(value, mid + 1)
        = IF value <= a[mid + 1] THEN -1
          ELSE IF value > (IF mid + 1 < n THEN a[mid + 2] ELSE CodeEnd) THEN 1 ELSE 0
  <2>1. (mid + 1) + 1 = mid + 2
    BY <1>4
  <2>2. entries[mid + 1].address = a[mid + 1]
    BY <1>2, <1>4
  <2>3. mid + 1 < n => entries[mid + 2].address = a[mid + 2]
    <3>1. mid + 1 < n => mid + 2 \in 1 .. n
      BY <1>1, <1>4
    <3>. QED  BY <1>2, <3>1
  <2>4. NextAddress(mid + 1) = IF mid + 1 < n THEN a[mid + 2] ELSE CodeEnd
    BY <2>1, <2>3 DEF NextAddress, n
  <2>. QED  BY <2>2, <2>4 DEF compare_symbols
<1>6. /\ <<l, mid>> \in Windows /\ <<l, mid>>[1] = l /\ <<l, mid>>[2] = mid
      /\ <<mid + 1, r>> \in Windows /\ <<mid + 1, r>>[1] = mid + 1 /\ <<mid + 1, r>>[2] = r
  BY <1>1, <1>4 DEF Windows, n
<1>7. Looks(g, value, w) = LET res == compare_symbols(value, mid + 1)
                           IN  IF res < 0 THEN g[<<l, mid>>]
                               ELSE IF res > 0 THEN g[<<mid + 1, r>>] ELSE mid + 1
  <2>1. ~(w[1] >= w[2])
    BY <1>1 DEF l, r
  <2>. QED  BY <2>1, Zenon DEF Looks, mid, Middle, l, r
<1>8. l < i /\ i <= r
  BY DEF l, r
<1>9. CASE value <= a[mid + 1]
  <2>1. i <= mid
    <3>1. ~(mid + 1 <= i)
      <4>. SUFFICES ASSUME mid + 1 <= i PROVE FALSE
        OBVIOUS
      <4>1. a[mid + 1] <= a[i]
        BY <1>1, <1>2, <1>4
      <4>2. a[i] \in Nat /\ a[mid + 1] \in Nat
        BY <1>1, <1>2, <1>4
      <4>. QED  BY <1>3, <1>9, <4>1, <4>2
    <3>. QED  BY <1>1, <1>4, <3>1
  <2>2. g[<<l, mid>>] = i
    BY <1>4, <1>6, <1>8, <2>1 DEF l, r
  <2>3. compare_symbols(value, mid + 1) = -1
    BY <1>5, <1>9
  <2>. QED  BY <1>7, <2>2, <2>3
<1>10. CASE ~(value <= a[mid + 1]) /\ i # mid + 1
  <2>1. mid + 1 < i
    <3>1. ~(i < mid + 1)
      <4>. SUFFICES ASSUME i < mid + 1 PROVE FALSE
        OBVIOUS
      <4>1. a[i + 1] <= a[mid + 1]
        BY <1>1, <1>2, <1>4
      <4>2. a[i + 1] \in Nat /\ a[mid + 1] \in Nat
        BY <1>1, <1>2, <1>4
      <4>. QED  BY <1>3, <1>10, <4>1, <4>2
    <3>. QED  BY <1>1, <1>4, <1>10, <3>1
  <2>2. a[mid + 2] <= a[i] /\ mid + 1 < n /\ a[mid + 2] \in Nat /\ a[i] \in Nat
    <3>1. mid + 2 \in 1 .. n /\ (mid + 2 < i \/ mid + 2 = i) /\ mid + 1 < n
      BY <1>1, <1>4, <2>1
    <3>2. a[mid + 2] \in Nat /\ a[i] \in Nat /\ (mid + 2 < i => a[mid + 2] < a[i])
      BY <1>1, <1>2, <3>1, Zenon
    <3>. QED  BY <3>1, <3>2
  <2>3. compare_symbols(value, mid + 1) = 1
    BY <1>3, <1>5, <1>10, <2>2
  <2>4. g[<<mid + 1, r>>] = i
    BY <1>4, <1>6, <1>8, <2>1 DEF l, r
  <2>. QED  BY <1>7, <2>3, <2>4
<1>11. CASE ~(value <= a[mid + 1]) /\ i = mid + 1
  <2>1. mid + 1 < n /\ i + 1 = mid + 2
    BY <1>1, <1>4, <1>11
  <2>2. a[mid + 2] \in Nat /\ value <= a[mid + 2]
    BY <1>1, <1>2, <1>3, <2>1
  <2>3. compare_symbols(value, mid + 1) = 0
    BY <1>5, <1>11, <2>1, <2>2
  <2>. QED  BY <1>7, <1>11, <2>3
<1>. QED
  BY <1>9, <1>10, <1>11

LEMMA SearchFinds ==
  ASSUME Upwards, NEW value \in Nat, value < CodeEnd, CodeEnd \in Nat, NEW i, CalledFrom(i, value)
  PROVE  bsearch(value, 0, Len(entries)) = i
<1> DEFINE n == Len(entries)
           IsSearch(g) == g = [w \in Windows |-> Looks(g, value, w)]
           search == CHOOSE g : IsSearch(g)
           Finds(w) == w[1] < i /\ i <= w[2] => search[w] = i
           Found == {k \in 0 .. n : \A w \in Windows : w[2] - w[1] <= k => Finds(w)}
<1>1. n \in Nat /\ i \in 1 .. n - 1
  BY DEF Upwards, CalledFrom
<1>2. IsSearch(search)
  <2>1. \E g : IsSearch(g)
    BY <1>1, SearchRuns
  <2>. QED  BY <2>1, Zenon
<1>3. bsearch(value, 0, n) = search[<<0, n>>]
  BY Zenon DEF bsearch, search, Looks, Windows, n
<1>. HIDE DEF search
<1>4. \A w \in Windows : search[w] = Looks(search, value, w)
  BY <1>2, Zenon
<1>5. \A w \in Windows : w[1] \in 0 .. n /\ w[2] \in 0 .. n /\ w[2] - w[1] \in Int
  BY DEF Windows
<1>. HIDE DEF IsSearch, n
<1>6. 0 \in Found
  <2>1. ASSUME NEW w \in Windows, w[2] - w[1] <= 0
        PROVE  ~(w[1] < i /\ i <= w[2])
    BY <1>1, <1>5, <2>1
  <2>. QED  BY <1>1, <2>1
<1>7. ASSUME NEW k \in 0 .. n - 1, k \in Found
      PROVE  k + 1 \in Found
  <2>1. ASSUME NEW w \in Windows, w[2] - w[1] <= k + 1, w[1] < i, i <= w[2]
        PROVE  search[w] = i
    <3>1. ASSUME NEW v \in Windows, v[2] - v[1] < w[2] - w[1], v[1] < i, i <= v[2]
          PROVE  search[v] = i
      <4>1. v[2] - v[1] <= k
        BY <1>1, <1>5, <2>1, <3>1
      <4>. QED  BY <1>7, <3>1, <4>1
    <3>2. Looks(search, value, w) = i
      BY <2>1, <3>1, LooksFind
    <3>. QED  BY <1>4, <3>2
  <2>2. k + 1 \in 0 .. n
    BY <1>1
  <2>. QED  BY <2>1, <2>2
<1>8. \A k \in 0 .. n : k \in Found
  <2>. HIDE DEF Found
  <2>. QED  BY <1>1, <1>6, <1>7, Upward
<1>9. <<0, n>> \in Windows /\ <<0, n>>[1] = 0 /\ <<0, n>>[2] = n /\ n - 0 <= n /\ n \in 0 .. n
      /\ 0 < i /\ i <= n
  BY <1>1 DEF Windows, n
<1>10. search[<<0, n>>] = i
  BY <1>8, <1>9
<1>. QED
  BY <1>3, <1>10 DEF n

\* What is printed of a name.
Shortened(name) == SubSeq(name, 1, IF Len(name) > NameRoom THEN NameRoom ELSE Len(name))

\* The name of the function an address is called from is found and printed.
LEMMA NameFound ==
  ASSUME symbols \in SymbolLists, entries = SymbolMap(symbols).offtab, strs = SymbolMap(symbols).strtab,
         NEW value \in Nat, value < CodeEnd, NEW i, CalledFrom(i, value)
  PROVE  SymbolName(bsearch(value, 0, Len(entries))) = Shortened(symbols[i].name)
<1> DEFINE m == SymbolMap(symbols)
           n == Len(symbols)
           from == entries[i].symbol_offset
           len == Len(symbols[i].name)
           shown == IF len > NameRoom THEN NameRoom ELSE len
<1>1. symbols \in Listed /\ NameRoom \in Nat /\ CodeEnd \in Nat
      /\ \A j, k \in DOMAIN symbols : j < k => symbols[j].address < symbols[k].address
  BY CallStackAssumption DEF CallStackAssumption, Listed, SymbolNames
<1>2. n \in Nat /\ DOMAIN symbols = 1 .. n
  BY <1>1, LenProperties DEF Listed
<1>3. Tabled(m, symbols, n)
  BY <1>1, TableMade, Zenon
<1>. HIDE DEF m
<1>4. m.offtab = entries /\ m.strtab = strs
  BY DEF m
<1>5. m \in Maps /\ Len(m.offtab) = n
  BY <1>3 DEF Tabled
<1>6. /\ entries \in Seq([address : Nat, symbol_offset : Nat]) /\ strs \in Seq(STRING)
      /\ Len(entries) = n
      /\ \A j \in 1 .. n : entries[j].address \in Nat /\ entries[j].symbol_offset \in Nat
  BY <1>4, <1>5, MapsTyped
<1>7. \A j \in 1 .. n : entries[j].address = symbols[j].address
  BY <1>3, <1>4 DEF Tabled
<1>8. Upwards
  BY <1>1, <1>2, <1>6, <1>7 DEF Upwards
<1>9. bsearch(value, 0, Len(entries)) = i
  BY <1>1, <1>8, SearchFinds
<1>10. i \in 1 .. n - 1 /\ i \in 1 .. n /\ i + 1 \in 1 .. n /\ i # n /\ i # 0
  BY <1>2 DEF CalledFrom
<1>11. /\ symbols[i].name \in Seq(STRING) /\ len \in Nat
  BY <1>1, <1>10, SymbolTyped
<1>12. /\ from + len = entries[i + 1].symbol_offset
       /\ from + len <= Len(strs)
       /\ \A j \in 1 .. len : strs[from + j] = symbols[i].name[j]
  BY <1>3, <1>4, <1>10 DEF Tabled
<1>13. from \in Nat /\ entries[i + 1].symbol_offset \in Nat
  BY <1>6, <1>10
<1>14. SymbolName(i) = SubSeq(strs, from + 1, from + shown)
  <2>1. entries[i + 1].symbol_offset - entries[i].symbol_offset = len
    BY <1>11, <1>12, <1>13
  <2>2. ~(i = 0 \/ i = Len(entries))
    BY <1>6, <1>10
  <2>. QED  BY <2>1, <2>2, Zenon DEF SymbolName
<1>15. shown \in Nat /\ shown <= len
  BY <1>1, <1>11
<1> DEFINE name == symbols[i].name
<1>. HIDE DEF from, len, shown
<1>16. /\ name \in Seq(STRING) /\ Len(name) = len
       /\ \A j \in 1 .. len : strs[from + j] = name[j]
  BY <1>11, <1>12 DEF len
<1>. HIDE DEF name
<1>17. SubSeq(strs, from + 1, from + shown) = SubSeq(name, 1, shown)
  <2>1. from \in Nat /\ len \in Nat /\ shown \in Nat /\ shown <= len /\ from + len <= Len(strs)
    BY <1>11, <1>12, <1>13, <1>15 DEF len, from, shown
  <2>2. /\ SubSeq(strs, from + 1, from + shown) = [j \in 1 .. shown |-> strs[from + j]]
        /\ SubSeq(name, 1, shown) = [j \in 1 .. shown |-> name[j]]
    <3>1. (from + shown) - (from + 1) + 1 = shown /\ shown - 1 + 1 = shown
      BY <2>1
    <3>2. SubSeq(strs, from + 1, from + shown)
            = [j \in 1 .. (from + shown) - (from + 1) + 1 |-> strs[(from + 1) + j - 1]]
      BY <1>6, <2>1
    <3>3. SubSeq(name, 1, shown) = [j \in 1 .. shown - 1 + 1 |-> name[1 + j - 1]]
      BY <1>16, <2>1
    <3>4. \A j \in 1 .. shown : (from + 1) + j - 1 = from + j /\ 1 + j - 1 = j
      BY <2>1
    <3>. QED  BY <3>1, <3>2, <3>3, <3>4
  <2>3. \A j \in 1 .. shown : strs[from + j] = name[j]
    BY <1>16, <2>1
  <2>. QED  BY <2>2, <2>3
<1>. QED
  BY <1>9, <1>14, <1>17, Zenon DEF Shortened, name, shown, len

\* The code addresses among the first words of a stack.
LEMMA CodesFound ==
  ASSUME NEW words \in Seq(Nat)
  PROVE  /\ CodesIn(words)[0] = <<>>
         /\ \A n \in 1 .. Len(words) :
              CodesIn(words)[n] = IF IsCode(words[n]) THEN Append(CodesIn(words)[n - 1], words[n])
                                  ELSE CodesIn(words)[n - 1]
         /\ \A n \in 0 .. Len(words) : CodesIn(words)[n] \in Seq(Nat)
<1> DEFINE m == Len(words)
           A == Seq(Nat)
           Next(c, i) == IF IsCode(words[i]) THEN Append(c, words[i]) ELSE c
           IsIn(h) == h = [n \in 0 .. m |-> IF n = 0 THEN <<>>
                                             ELSE IF IsCode(words[n]) THEN Append(h[n - 1], words[n])
                                             ELSE h[n - 1]]
           F == [x \in (1 .. m) \X A |-> Next(x[2], x[1])]
           codes == CHOOSE h : IsIn(h)
<1>1. m \in Nat /\ \A i \in 1 .. m : words[i] \in Nat
  OBVIOUS
<1>2. <<>> \in A
  BY EmptySeq
<1>. HIDE DEF m
<1>3. \A i \in 1 .. m, c \in A : Next(c, i) \in A
  BY <1>1, AppendProperties
<1>4. F \in [(1 .. m) \X A -> A]
  <2>. HIDE DEF Next, A
  <2>. QED  BY <1>3
<1>5. \A i \in 1 .. m, c \in A : F[<<i, c>>] = Next(c, i)
  <2>. HIDE DEF Next, A
  <2>. QED  OBVIOUS
<1>. HIDE DEF F, A
<1>6. PICK h : GoesOn(h, F, <<>>, m, A)
  BY <1>1, <1>2, <1>4, RecursionRuns
<1>7. IsIn(h)
  <2>1. ASSUME NEW n \in 0 .. m
        PROVE  h[n] = IF n = 0 THEN <<>> ELSE Next(h[n - 1], n)
    <3>1. CASE n = 0
      BY <1>6, <3>1 DEF GoesOn
    <3>2. CASE n # 0
      <4>1. n \in 1 .. m /\ n - 1 \in 0 .. m
        BY <1>1, <3>2
      <4>. HIDE DEF Next
      <4>. QED  BY <1>5, <1>6, <3>2, <4>1 DEF GoesOn
    <3>. QED  BY <3>1, <3>2
  <2>2. h = [n \in 0 .. m |-> h[n]]
    BY <1>6 DEF GoesOn
  <2>. QED  BY <2>1, <2>2, Zenon
<1>8. IsIn(codes)
  BY <1>7, Zenon
<1>9. CodesIn(words) = codes
  BY Zenon DEF CodesIn, codes, m
<1>. HIDE DEF codes
<1>10. \A n \in 0 .. m : codes[n] = IF n = 0 THEN <<>> ELSE Next(codes[n - 1], n)
  BY <1>8, Zenon
<1>. HIDE DEF IsIn, Next
<1>11. codes[0] = <<>> /\ \A n \in 1 .. m : codes[n] = Next(codes[n - 1], n)
  <2>1. 0 \in 0 .. m /\ \A n \in 1 .. m : n \in 0 .. m /\ n # 0
    BY <1>1
  <2>. QED  BY <1>10, <2>1, Zenon
<1>12. \A n \in 0 .. m : codes[n] \in A
  <2> DEFINE S == {n \in 0 .. m : codes[n] \in A}
  <2>1. 0 \in S
    BY <1>1, <1>2, <1>11
  <2>2. ASSUME NEW k \in 0 .. m - 1, k \in S
        PROVE  k + 1 \in S
    <3>1. k + 1 \in 0 .. m /\ k + 1 \in 1 .. m /\ (k + 1) - 1 = k
      BY <1>1
    <3>2. codes[k + 1] = Next(codes[k], k + 1) /\ codes[k] \in A
      BY <1>11, <2>2, <3>1
    <3>. QED  BY <1>3, <3>1, <3>2
  <2>. HIDE DEF S
  <2>3. \A k \in 0 .. m : k \in S
    BY <1>1, <2>1, <2>2, Upward
  <2>. QED  BY <2>3 DEF S
<1>. QED
  BY <1>9, <1>11, <1>12, Zenon DEF Next, m, A

\* How many words were looked at, and the code addresses among them.
LookedAt == Len(whole_stack) - Len(stack)
CodesSeen == CodesIn(whole_stack)[LookedAt]

\* A line names the function that called.
NamesCaller(line) ==
  \A i : CalledFrom(i, line.value) => line.name = Shortened(symbols[i].name)

\* There is a line for each code address of what was looked at.
Traced ==
  /\ \E S : trace \in Seq(S)
  /\ Len(trace) = Len(CodesSeen)
  /\ \A k \in 1 .. Len(trace) : trace[k].value = CodesSeen[k] /\ NamesCaller(trace[k])

\* What is still to be looked at is the rest of the stack.
RestOfStack ==
  /\ stack \in Seq(Nat) /\ whole_stack \in Seq(Nat) /\ LookedAt \in 0 .. Len(whole_stack)
  /\ \A k \in 1 .. Len(stack) : stack[k] = whole_stack[LookedAt + k]

\* What NamesTheCallers is proved from; the table never changes.
CallStackInv ==
  /\ symbols \in SymbolLists
  /\ entries = SymbolMap(symbols).offtab /\ strs = SymbolMap(symbols).strtab
  /\ ending \in {"running", "panic", "critical", "exit", "halted"}
  /\ RestOfStack
  /\ Traced /\ Len(trace) <= PrintLimit + 1
  /\ ending = "running" => trace = <<>>
  /\ ending \in {"exit", "halted"} => stack = <<>> \/ Len(trace) = PrintLimit + 1

\* A line more.
LEMMA LineMore ==
  ASSUME NEW t, \E S : t \in Seq(S), NEW e
  PROVE  /\ \E S : Append(t, e) \in Seq(S)
         /\ Len(t) \in Nat /\ Len(Append(t, e)) = Len(t) + 1
         /\ \A k \in 1 .. Len(t) : Append(t, e)[k] = t[k]
         /\ Append(t, e)[Len(t) + 1] = e
<1>1. PICK S : t \in Seq(S)
  OBVIOUS
<1> DEFINE U == S \cup {e}
<1>2. t \in Seq(U) /\ e \in U
  <2>1. S \subseteq U
    OBVIOUS
  <2>. QED  BY <1>1, <2>1, SeqMonotonic, Zenon
<1>. HIDE DEF U
<1>3. /\ Append(t, e) \in Seq(U) /\ Len(Append(t, e)) = Len(t) + 1
      /\ \A k \in 1 .. Len(t) : Append(t, e)[k] = t[k]
      /\ Append(t, e)[Len(t) + 1] = e
  BY <1>2, AppendProperties
<1>. QED
  BY <1>2, <1>3, LenProperties

\* With nothing looked at nothing is traced.
LEMMA NothingTraced ==
  ASSUME NEW words \in Seq(Nat)
  PROVE  /\ CodesIn(words)[Len(words) - Len(words)] = <<>>
         /\ Len(words) - Len(words) \in 0 .. Len(words)
         /\ \A k \in 1 .. Len(words) : words[k] = words[Len(words) - Len(words) + k]
<1>1. Len(words) \in Nat
  OBVIOUS
<1>2. Len(words) - Len(words) = 0 /\ \A k \in 1 .. Len(words) : 0 + k = k
  BY <1>1
<1>. QED
  BY <1>1, <1>2, CodesFound

LEMMA CallStackStarts ==
  CallStackInit => CallStackInv
<1>. SUFFICES ASSUME CallStackInit PROVE CallStackInv
  OBVIOUS
<1>1. /\ symbols \in SymbolLists
      /\ entries = SymbolMap(symbols).offtab /\ strs = SymbolMap(symbols).strtab
      /\ ending = "running" /\ stack = <<>> /\ whole_stack = <<>> /\ trace = <<>>
  BY Zenon DEF CallStackInit
<1>2. stack \in Seq(Nat) /\ whole_stack \in Seq(Nat) /\ trace \in Seq(Nat) /\ Len(stack) = 0
      /\ Len(whole_stack) = 0 /\ Len(trace) = 0
  BY <1>1, EmptySeq
<1>3. RestOfStack
  BY <1>1, <1>2, NothingTraced DEF RestOfStack, LookedAt
<1>4. CodesSeen = <<>>
  BY <1>1, <1>2, NothingTraced, Zenon DEF CodesSeen, LookedAt
<1>5. Traced
  BY <1>1, <1>2, <1>4 DEF Traced
<1>6. Len(trace) <= PrintLimit + 1
  BY <1>2, CallStackAssumption DEF CallStackAssumption
<1>. QED
  BY <1>1, <1>3, <1>5, <1>6, Zenon DEF CallStackInv

LEMMA CallStackStep ==
  CallStackInv /\ [CallStackNext]_callstack_vars => CallStackInv'
<1>. SUFFICES ASSUME CallStackInv, [CallStackNext]_callstack_vars PROVE CallStackInv'
  OBVIOUS
<1>1. Stacks \subseteq Seq(Nat) /\ PrintLimit \in Nat /\ CodeEnd \in Nat /\ CodeStart \in Nat
  BY CallStackAssumption DEF CallStackAssumption
<1>2. /\ symbols \in SymbolLists
      /\ entries = SymbolMap(symbols).offtab /\ strs = SymbolMap(symbols).strtab
      /\ RestOfStack /\ Traced /\ Len(trace) <= PrintLimit + 1
      /\ ending \in {"running", "panic", "critical", "exit", "halted"}
      /\ ending = "running" => trace = <<>>
      /\ ending \in {"exit", "halted"} => stack = <<>> \/ Len(trace) = PrintLimit + 1
  BY Zenon DEF CallStackInv
\* The program ends, for one reason or another.
<1>3. ASSUME NEW how \in {"panic", "critical", "exit"}, NEW code, NEW message, NEW stacks,
             stacks \subseteq Seq(Nat), how = "exit" => stacks = {<<>>},
             Ends(how, code, message, stacks)
      PROVE  CallStackInv'
  <2>1. /\ ending = "running" /\ ending' = how /\ symbols' = symbols /\ entries' = entries
        /\ strs' = strs /\ trace' = trace
    BY <1>3, Zenon DEF Ends
  <2>2. PICK s \in stacks : stack' = s /\ whole_stack' = s
    BY <1>3, Zenon DEF Ends
  <2>3. s \in Seq(Nat) /\ trace = <<>>
    BY <1>2, <1>3, <2>1, <2>2
  <2>4. RestOfStack'
    BY <2>2, <2>3, NothingTraced, Zenon DEF RestOfStack, LookedAt
  <2>5. CodesSeen' = <<>>
    BY <2>2, <2>3, NothingTraced, Zenon DEF CodesSeen, LookedAt
  <2>6. Traced'
    <3>1. trace' = <<>> /\ trace' \in Seq(Nat) /\ Len(trace') = 0
      BY <2>1, <2>3, EmptySeq
    <3>. QED  BY <2>5, <3>1 DEF Traced
  <2>7. ending' \in {"exit", "halted"} => stack' = <<>>
    BY <1>3, <2>1, <2>2
  <2>. QED  BY <1>2, <1>3, <2>1, <2>4, <2>6, <2>7 DEF CallStackInv
\* A word of the stack is looked at.
<1>4. CASE DumpStep
  <2> DEFINE v == Head(stack)
             m == Len(whole_stack)
             d == LookedAt
             e == [value |-> v, name |-> SymbolName(bsearch(v, 0, Len(entries)))]
  <2>1. /\ ending \in {"panic", "critical"} /\ stack # <<>> /\ Len(trace) <= PrintLimit
        /\ stack' = Tail(stack) /\ trace' = IF IsCode(v) THEN Append(trace, e) ELSE trace
        /\ symbols' = symbols /\ entries' = entries /\ strs' = strs /\ ending' = ending
        /\ whole_stack' = whole_stack
    BY <1>4, Zenon DEF DumpStep
  <2>2. /\ stack \in Seq(Nat) /\ whole_stack \in Seq(Nat) /\ d \in 0 .. m
        /\ \A k \in 1 .. Len(stack) : stack[k] = whole_stack[d + k]
        /\ Len(stack) \in Nat /\ m \in Nat /\ Len(stack) = m - d
    <3>1. stack \in Seq(Nat) /\ whole_stack \in Seq(Nat) /\ d \in 0 .. m
          /\ \A k \in 1 .. Len(stack) : stack[k] = whole_stack[d + k]
      BY <1>2 DEF RestOfStack
    <3>2. Len(stack) \in Nat /\ m \in Nat
      BY <3>1
    <3>. QED  BY <3>1, <3>2 DEF LookedAt
  <2>. HIDE DEF e, m, d
  <2>3. /\ v \in Nat /\ v = whole_stack[d + 1] /\ Len(stack) > 0 /\ Tail(stack) \in Seq(Nat)
        /\ Len(Tail(stack)) = Len(stack) - 1
        /\ \A k \in 1 .. Len(stack) - 1 : Tail(stack)[k] = stack[k + 1]
    BY <2>1, <2>2
  <2>. HIDE DEF v
  <2>4. LookedAt' = d + 1 /\ d + 1 \in 1 .. m /\ d + 1 \in 0 .. m
    <3>1. LookedAt' = m - Len(Tail(stack))
      BY <2>1, Zenon DEF LookedAt, m
    <3>2. Len(Tail(stack)) = Len(stack) - 1 /\ Len(stack) \in Nat /\ Len(stack) > 0
          /\ Len(stack) = m - d /\ d \in Nat /\ m \in Nat
      BY <2>2, <2>3
    <3>3. m - (Len(stack) - 1) = d + 1 /\ d + 1 \in 1 .. m /\ d + 1 \in 0 .. m
      BY <3>2
    <3>. QED  BY <3>1, <3>2, <3>3, Zenon
  <2>5. RestOfStack'
    <3>1. \A k \in 1 .. Len(Tail(stack)) : Tail(stack)[k] = whole_stack[(d + 1) + k]
      <4>1. \A k \in 1 .. Len(stack) - 1 : k + 1 \in 1 .. Len(stack) /\ d + (k + 1) = (d + 1) + k
        BY <2>2
      <4>. QED  BY <2>2, <2>3, <4>1
    <3>. QED  BY <2>1, <2>2, <2>3, <2>4, <3>1 DEF RestOfStack, m
  <2>6. /\ CodesSeen \in Seq(Nat)
        /\ CodesSeen' = IF IsCode(v) THEN Append(CodesSeen, v) ELSE CodesSeen
    <3>1. CodesIn(whole_stack)[d + 1] = IF IsCode(whole_stack[d + 1])
                                        THEN Append(CodesIn(whole_stack)[(d + 1) - 1], whole_stack[d + 1])
                                        ELSE CodesIn(whole_stack)[(d + 1) - 1]
      BY <2>2, <2>4, CodesFound DEF m
    <3>2. CodesIn(whole_stack)[d] \in Seq(Nat)
      BY <2>2, CodesFound DEF m
    <3>3. (d + 1) - 1 = d
      BY <2>2
    <3>4. CodesSeen = CodesIn(whole_stack)[d] /\ CodesSeen' = CodesIn(whole_stack)[d + 1]
      BY <2>1, <2>4, Zenon DEF CodesSeen, d
    <3>. QED  BY <2>3, <3>1, <3>2, <3>3, <3>4
  <2>7. /\ \E S : trace \in Seq(S)
        /\ Len(trace) = Len(CodesSeen)
        /\ \A k \in 1 .. Len(trace) : trace[k].value = CodesSeen[k] /\ NamesCaller(trace[k])
    BY <1>2, Zenon DEF Traced
  <2>8. CASE IsCode(v)
    <3>1. trace' = Append(trace, e) /\ CodesSeen' = Append(CodesSeen, v)
      BY <2>1, <2>6, <2>8
    <3>2. /\ \E S : Append(trace, e) \in Seq(S)
          /\ Len(trace) \in Nat /\ Len(Append(trace, e)) = Len(trace) + 1
          /\ \A k \in 1 .. Len(trace) : Append(trace, e)[k] = trace[k]
          /\ Append(trace, e)[Len(trace) + 1] = e
      BY <2>7, LineMore
    <3>3. /\ Len(Append(CodesSeen, v)) = Len(CodesSeen) + 1
          /\ \A k \in 1 .. Len(CodesSeen) : Append(CodesSeen, v)[k] = CodesSeen[k]
          /\ Append(CodesSeen, v)[Len(CodesSeen) + 1] = v
      BY <2>3, <2>6, AppendProperties
    <3>4. e.value = v /\ NamesCaller(e)
      <4>1. e.value = v /\ e.name = SymbolName(bsearch(v, 0, Len(entries)))
        BY DEF e
      <4>2. v < CodeEnd
        BY <2>8 DEF IsCode
      <4>3. ASSUME NEW i, CalledFrom(i, v)
            PROVE  SymbolName(bsearch(v, 0, Len(entries))) = Shortened(symbols[i].name)
        BY <1>2, <2>3, <4>2, <4>3, NameFound
      <4>. QED  BY <4>1, <4>3, Zenon DEF NamesCaller
    <3>. HIDE DEF e
    <3>5. ASSUME NEW k \in 1 .. Len(trace')
          PROVE  (trace[k].value = CodesSeen[k] /\ NamesCaller(trace[k]))'
      <4>1. k \in 1 .. Len(trace) \/ k = Len(trace) + 1
        BY <3>1, <3>2
      <4>2. CASE k \in 1 .. Len(trace)
        <5>1. trace'[k] = trace[k] /\ CodesSeen'[k] = CodesSeen[k]
          BY <2>7, <3>1, <3>2, <3>3, <4>2
        <5>2. trace[k].value = CodesSeen[k] /\ NamesCaller(trace[k])
          BY <2>7, <4>2
        <5>. QED  BY <2>1, <5>1, <5>2 DEF NamesCaller, CalledFrom
      <4>3. CASE k = Len(trace) + 1
        <5>1. trace'[k] = e /\ CodesSeen'[k] = v
          BY <2>7, <3>1, <3>2, <3>3, <4>3
        <5>. QED  BY <2>1, <3>4, <5>1 DEF NamesCaller, CalledFrom
      <4>. QED  BY <4>1, <4>2, <4>3
    <3>6. /\ \E S : trace' \in Seq(S)
          /\ Len(trace') = Len(CodesSeen') /\ Len(trace') <= PrintLimit + 1
      BY <1>1, <2>1, <2>7, <3>1, <3>2, <3>3
    <3>7. Traced'
      BY <3>5, <3>6, Zenon DEF Traced
    <3>. QED  BY <1>2, <2>1, <2>5, <3>6, <3>7 DEF CallStackInv
  <2>9. CASE ~IsCode(v)
    <3>1. trace' = trace /\ CodesSeen' = CodesSeen
      BY <2>1, <2>6, <2>9
    <3>2. Traced'
      BY <2>1, <2>7, <3>1, Zenon DEF Traced, NamesCaller, CalledFrom
    <3>. QED  BY <1>2, <2>1, <2>5, <3>1, <3>2 DEF CallStackInv
  <2>. QED  BY <2>8, <2>9
\* Steps that leave the stack and the trace as they are.
<1>5. ASSUME UNCHANGED <<symbols, entries, strs, stack, whole_stack, trace>>,
             \/ ending' = ending
             \/ DumpDone
             \/ ending = "exit" /\ ending' = "halted"
      PROVE  CallStackInv'
  <2>1. RestOfStack' /\ Traced'
    BY <1>2, <1>5, Zenon DEF RestOfStack, Traced, LookedAt, CodesSeen, NamesCaller, CalledFrom
  <2>2. Len(trace) \in Nat
    BY <1>2, LenProperties DEF Traced
  <2>3. /\ ending' \in {"running", "panic", "critical", "exit", "halted"}
        /\ ending' = "running" => trace = <<>>
        /\ ending' \in {"exit", "halted"} => stack = <<>> \/ Len(trace) = PrintLimit + 1
    <3>1. CASE ending' = ending
      BY <1>2, <3>1
    <3>2. CASE DumpDone
      <4>1. (stack = <<>> \/ Len(trace) > PrintLimit) /\ ending' \in {"exit", "halted"}
        BY <3>2 DEF DumpDone
      <4>. QED  BY <1>1, <1>2, <2>2, <4>1
    <3>3. CASE ending = "exit" /\ ending' = "halted"
      BY <1>2, <3>3
    <3>. QED  BY <1>5, <3>1, <3>2, <3>3
  <2>. QED  BY <1>2, <1>5, <2>1, <2>3 DEF CallStackInv
<1>6. ASSUME NEW code \in FaultCodes, Fault(code) \/ k_critical_error(code) \/ Exit(code)
      PROVE  CallStackInv'
  <2>1. {<<>>} \subseteq Seq(Nat)
    BY EmptySeq
  <2>2. CASE Fault(code)
    BY <1>1, <1>3, <2>2 DEF Fault
  <2>3. CASE k_critical_error(code)
    BY <1>1, <1>3, <2>3 DEF k_critical_error
  <2>4. CASE Exit(code)
    BY <1>3, <2>1, <2>4 DEF Exit
  <2>. QED  BY <1>6, <2>2, <2>3, <2>4
<1>7. CASE DumpDone
  BY <1>5, <1>7, Zenon DEF DumpDone
<1>8. CASE Exits
  BY <1>5, <1>8, Zenon DEF Exits
<1>9. CASE UNCHANGED callstack_vars
  BY <1>5, <1>9, Zenon DEF callstack_vars
<1>. QED
  BY <1>4, <1>6, <1>7, <1>8, <1>9, Zenon DEF CallStackNext

\* For every symbol map, whatever is on the stack: the call stack of a panic
\* names the functions that called, in their order, as far as the table goes
\* (exception_handler.cpp:182, utilities.cpp:92).
THEOREM CallersAreNamed == CallStackSpec => []NamesTheCallers
<1>1. CallStackInv => NamesTheCallers
  <2>. SUFFICES ASSUME CallStackInv PROVE NamesTheCallers
    OBVIOUS
  <2>1. /\ \E S : trace \in Seq(S)
        /\ Len(trace) = Len(CodesSeen)
        /\ \A k \in 1 .. Len(trace) : trace[k].value = CodesSeen[k] /\ NamesCaller(trace[k])
        /\ ending \in {"exit", "halted"} => stack = <<>> \/ Len(trace) = PrintLimit + 1
    BY Zenon DEF CallStackInv, Traced
  <2>2. DOMAIN trace = 1 .. Len(trace)
    BY <2>1, LenProperties
  <2>3. ASSUME NEW k \in DOMAIN trace, NEW i \in 1 .. Len(symbols) - 1,
               symbols[i].address <= CodesSeen[k] - 1, CodesSeen[k] - 1 < symbols[i + 1].address
        PROVE  trace[k].name = Shortened(symbols[i].name)
    <3>1. trace[k].value = CodesSeen[k] /\ NamesCaller(trace[k])
      BY <2>1, <2>2
    <3>2. CalledFrom(i, trace[k].value)
      BY <2>3, <3>1 DEF CalledFrom
    <3>. QED  BY <3>1, <3>2 DEF NamesCaller
  <2>. QED  BY <2>1, <2>2, <2>3, Zenon DEF NamesTheCallers, CodesSeen, LookedAt, Shortened
<1>. QED
  BY <1>1, CallStackStarts, CallStackStep, PTL DEF CallStackSpec

-----------------------------------------------------------------------------
(***************************************************************************)
(* The kernel from its first instruction to the scheduler.                 *)
(***************************************************************************)
LEMMA ByteKept ==
  ASSUME NEW n \in -128 .. 127
  PROVE  SignedByte(n) = n
<1>1. n + 128 \in 0 .. 256 - 1
  OBVIOUS
<1>2. (n + 128) % 256 = n + 128
  BY <1>1, SmallRemainder
<1>. QED
  BY <1>2 DEF SignedByte

\* A loop of load_idt adds an entry and a stub for each of its vectors, and changes none.
Loaded(loaded, table, number, eax, count) ==
  /\ loaded.entries \in Seq(Nat) /\ Len(loaded.entries) = number + count
  /\ \A v \in 1 .. number : loaded.entries[v] = table.entries[v]
  /\ \A i \in 0 .. count - 1 : loaded.entries[number + i + 1] = eax + 5*i
  /\ DOMAIN loaded.code = DOMAIN table.code \cup {eax + 5*i : i \in 0 .. count - 1}
  /\ \A a \in DOMAIN table.code : loaded.code[a] = table.code[a]
  /\ \A i \in 0 .. count - 1 : /\ loaded.code[eax + 5*i].push = SignedByte(number + i)
                                /\ loaded.code[eax + 5*i].jump = StubTarget(eax + 5*i, count - i)

FreePlaces(table, eax, count) == \A i \in 0 .. count - 1 : eax + 5*i \notin DOMAIN table.code

LEMMA LoopLoads ==
  ASSUME NEW table, table.entries \in Seq(Nat), NEW eax \in Nat, NEW count \in Nat,
         FreePlaces(table, eax, count)
  PROVE  Loaded(LoadLoop(table, eax, count), table, Len(table.entries), eax, count)
<1> DEFINE loaded == LoadLoop(table, eax, count)
           number == Len(table.entries)
           address == [i \in 1 .. count |-> eax + StubBytes*(i - 1)]
           Stub(a) == LET i == (a - eax) \div StubBytes
                      IN  [push |-> SignedByte(number + i), jump |-> StubTarget(a, count - i)]
           places == {address[i] : i \in 1 .. count}
<1>1. /\ loaded.entries = table.entries \o address
      /\ loaded.code = [a \in DOMAIN table.code \cup places |->
                          IF a \in DOMAIN table.code THEN table.code[a] ELSE Stub(a)]
  BY DEF LoadLoop
<1>2. address \in Seq(Nat) /\ Len(address) = count /\ number \in Nat
      /\ \A i \in 1 .. count : address[i] = eax + 5*(i - 1)
  BY DEF StubBytes
<1>3. places = {eax + 5*i : i \in 0 .. count - 1}
  <2>1. \A i \in 1 .. count : i - 1 \in 0 .. count - 1
    OBVIOUS
  <2>2. \A i \in 0 .. count - 1 : i + 1 \in 1 .. count /\ (i + 1) - 1 = i
    OBVIOUS
  <2>3. places = {address[i] : i \in 1 .. count}
    OBVIOUS
  <2>. HIDE DEF address, places
  <2>. QED  BY <1>2, <2>1, <2>2, <2>3
<1>. HIDE DEF loaded, address, places, number, Stub
<1>4. /\ loaded.entries \in Seq(Nat) /\ Len(loaded.entries) = number + count
      /\ \A k \in 1 .. number + count :
           loaded.entries[k] = IF k <= number THEN table.entries[k] ELSE address[k - number]
  <2>1. /\ table.entries \o address \in Seq(Nat)
        /\ Len(table.entries \o address) = Len(table.entries) + Len(address)
        /\ \A k \in 1 .. Len(table.entries) + Len(address) :
             (table.entries \o address)[k] =
               IF k <= Len(table.entries) THEN table.entries[k] ELSE address[k - Len(table.entries)]
    BY <1>2, ConcatProperties, Zenon
  <2>. QED  BY <1>1, <1>2, <2>1, Zenon DEF number
<1>5. \A v \in 1 .. number : loaded.entries[v] = table.entries[v]
  BY <1>2, <1>4
<1>6. ASSUME NEW i \in 0 .. count - 1
      PROVE  loaded.entries[number + i + 1] = eax + 5*i
  <2>1. /\ number + i + 1 \in 1 .. number + count /\ ~(number + i + 1 <= number)
        /\ (number + i + 1) - number = i + 1 /\ i + 1 \in 1 .. count /\ (i + 1) - 1 = i
    BY <1>2
  <2>2. loaded.entries[number + i + 1] = address[i + 1]
    BY <1>4, <2>1
  <2>. QED  BY <1>2, <2>1, <2>2
<1>7. ASSUME NEW i \in 0 .. count - 1
      PROVE  /\ loaded.code[eax + 5*i].push = SignedByte(number + i)
             /\ loaded.code[eax + 5*i].jump = StubTarget(eax + 5*i, count - i)
  <2>1. eax + 5*i \in places /\ eax + 5*i \notin DOMAIN table.code
    BY <1>3 DEF FreePlaces
  <2>2. ((eax + 5*i) - eax) \div StubBytes = i
    <3>1. (eax + 5*i) - eax = 5*i
      OBVIOUS
    <3>2. (5*i) \div 5 = i
      OBVIOUS
    <3>. QED  BY <3>1, <3>2 DEF StubBytes
  <2>3. loaded.code[eax + 5*i] = Stub(eax + 5*i)
    BY <1>1, <2>1
  <2>4. Stub(eax + 5*i)
          = [push |-> SignedByte(number + i), jump |-> StubTarget(eax + 5*i, count - i)]
    BY <2>2, Zenon DEF Stub
  <2>. QED  BY <2>3, <2>4
<1>8. /\ DOMAIN loaded.code = DOMAIN table.code \cup {eax + 5*i : i \in 0 .. count - 1}
      /\ \A a \in DOMAIN table.code : loaded.code[a] = table.code[a]
  <2>1. DOMAIN loaded.code = DOMAIN table.code \cup places
    BY <1>1, Zenon
  <2>2. \A a \in DOMAIN table.code : loaded.code[a] = table.code[a]
    <3>1. \A a \in DOMAIN table.code \cup places :
            loaded.code[a] = IF a \in DOMAIN table.code THEN table.code[a] ELSE Stub(a)
      BY <1>1, Zenon
    <3>. QED  BY <3>1, Zenon
  <2>. QED  BY <1>3, <2>1, <2>2
<1>. QED
  BY <1>4, <1>5, <1>6, <1>7, <1>8, Zenon DEF Loaded, loaded, number

\* Where a jump from the stub of each vector leads.
LEMMA StubsJump ==
  /\ \A i \in 0 .. 22 : StubTarget(5*i, 23 - i) = 115
  /\ \A i \in 0 .. 24 : StubTarget(117 + 5*i, 25 - i) = 242
<1>1. ASSUME NEW i \in 0 .. 22
      PROVE  StubTarget(5*i, 23 - i) = 115
  <2>1. 5*(23 - i) - 5 \in -128 .. 127
    OBVIOUS
  <2>2. SignedByte(5*(23 - i) - 5) = 5*(23 - i) - 5
    BY <2>1, ByteKept
  <2>3. StubTarget(5*i, 23 - i) = 5*i + 5 + (5*(23 - i) - 5)
    BY <2>2 DEF StubTarget, StubBytes
  <2>. QED  BY <2>3
<1>2. ASSUME NEW i \in 0 .. 24
      PROVE  StubTarget(117 + 5*i, 25 - i) = 242
  <2>1. 5*(25 - i) - 5 \in -128 .. 127
    OBVIOUS
  <2>2. SignedByte(5*(25 - i) - 5) = 5*(25 - i) - 5
    BY <2>1, ByteKept
  <2>3. StubTarget(117 + 5*i, 25 - i) = (117 + 5*i) + 5 + (5*(25 - i) - 5)
    BY <2>2 DEF StubTarget, StubBytes
  <2>. QED  BY <2>3
<1>. QED
  BY <1>1, <1>2

\* What the handler is called with, from an address, with this code.
ReachedFrom(code, address) ==
  IF \/ code[address].jump = generic_isr
     \/ code[address].jump = double_jump /\ code[double_jump].jump = generic_isr
  THEN code[address].push ELSE -1

\* The entry of each vector of the table that is loaded leads to the handler.
LEMMA TableLoaded ==
  \A v \in 0 .. 47 : v + 1 \in DOMAIN load_idt.entries
                     /\ ReachedFrom(load_idt.code, load_idt.entries[v + 1]) = v
<1> DEFINE empty == [entries |-> <<>>,
                     code |-> [a \in {double_jump} |-> [push |-> -1, jump |-> generic_isr]]]
           first == LoadLoop(empty, 0, 23)
           second == LoadLoop(first, 117, 25)
<1>1. double_jump = 115 /\ generic_isr = 242 /\ double_jump + JumpBytes = 117
  BY DEF double_jump, generic_isr, StubBytes, JumpBytes, idt_count_1, idt_count_2
<1>2. load_idt = second
  BY <1>1, Zenon DEF load_idt, idt_count_1, idt_count_2
<1>3. /\ empty.entries \in Seq(Nat) /\ Len(empty.entries) = 0 /\ DOMAIN empty.code = {115}
      /\ empty.code[115].jump = 242
  BY <1>1, EmptySeq
<1>. HIDE DEF empty
<1>4. FreePlaces(empty, 0, 23)
  <2>1. \A i \in 0 .. 23 - 1 : 0 + 5*i # 115
    OBVIOUS
  <2>2. DOMAIN empty.code = {115}
    BY <1>3, Zenon
  <2>. QED  BY <2>1, <2>2, Zenon DEF FreePlaces
<1>5. /\ first.entries \in Seq(Nat) /\ Len(first.entries) = 0 + 23
      /\ \A i \in 0 .. 23 - 1 : first.entries[0 + i + 1] = 0 + 5*i
      /\ DOMAIN first.code = {115} \cup {0 + 5*i : i \in 0 .. 23 - 1}
      /\ first.code[115] = empty.code[115]
      /\ \A i \in 0 .. 23 - 1 : /\ first.code[0 + 5*i].push = SignedByte(0 + i)
                                /\ first.code[0 + 5*i].jump = StubTarget(0 + 5*i, 23 - i)
  <2>. HIDE DEF first
  <2>1. 0 \in Nat /\ 23 \in Nat
    OBVIOUS
  <2>2. Loaded(LoadLoop(empty, 0, 23), empty, Len(empty.entries), 0, 23)
    <3>1. empty.entries \in Seq(Nat)
      BY <1>3, Zenon
    <3>. QED  BY <1>4, <2>1, <3>1, LoopLoads, Zenon
  <2>3. Loaded(first, empty, 0, 0, 23)
    BY <1>3, <2>2, Zenon DEF first
  <2>. QED  BY <1>3, <2>3 DEF Loaded
<1>. HIDE DEF first
<1>6. /\ first.entries \in Seq(Nat) /\ Len(first.entries) = 23
      /\ \A i \in 0 .. 22 : first.entries[i + 1] = 5*i
      /\ DOMAIN first.code = {115} \cup {5*i : i \in 0 .. 22}
      /\ first.code[115].jump = 242
      /\ \A i \in 0 .. 22 : first.code[5*i].push = i /\ first.code[5*i].jump = 115
  <2>1. \A i \in 0 .. 22 : SignedByte(i) = i
    BY ByteKept
  <2>2. \A i \in 0 .. 22 : 0 + i = i /\ 0 + 5*i = 5*i /\ 0 + i + 1 = i + 1
    OBVIOUS
  <2>3. 23 - 1 = 22 /\ 0 + 23 = 23
    OBVIOUS
  <2>. QED  BY <1>3, <1>5, <2>1, <2>2, <2>3, StubsJump
<1>7. FreePlaces(first, 117, 25)
  <2>1. \A i \in 0 .. 25 - 1 : 117 + 5*i # 115 /\ \A j \in 0 .. 22 : 117 + 5*i # 5*j
    OBVIOUS
  <2>. QED  BY <1>6, <2>1 DEF FreePlaces
<1>8. /\ Len(second.entries) = 48 /\ second.entries \in Seq(Nat)
      /\ \A v \in 1 .. 23 : second.entries[v] = first.entries[v]
      /\ \A i \in 0 .. 24 : second.entries[23 + i + 1] = 117 + 5*i
      /\ \A a \in DOMAIN first.code : second.code[a] = first.code[a]
      /\ \A i \in 0 .. 24 : /\ second.code[117 + 5*i].push = 23 + i
                            /\ second.code[117 + 5*i].jump = 242
  <2>. HIDE DEF second
  <2>1. Loaded(second, first, 23, 117, 25)
    <3>1. 117 \in Nat /\ 25 \in Nat
      OBVIOUS
    <3>2. Loaded(LoadLoop(first, 117, 25), first, Len(first.entries), 117, 25)
      <4>1. first.entries \in Seq(Nat)
        BY <1>6, Zenon
      <4>. QED  BY <1>7, <3>1, <4>1, LoopLoads, Zenon
    <3>. QED  BY <1>6, <3>2, Zenon DEF second
  <2>2. \A i \in 0 .. 24 : SignedByte(23 + i) = 23 + i
    BY ByteKept
  <2>3. 25 - 1 = 24 /\ 23 + 25 = 48
    OBVIOUS
  <2>. QED  BY <2>1, <2>2, <2>3, StubsJump DEF Loaded
<1>. HIDE DEF second
<1>9. DOMAIN second.entries = 1 .. 48
  <2>1. second.entries \in Seq(Nat) /\ Len(second.entries) = 48
    BY <1>8, Zenon
  <2>. QED  BY <2>1, LenProperties
<1>10. /\ \A v \in 1 .. 23 : second.entries[v] = first.entries[v]
       /\ \A a \in DOMAIN first.code : second.code[a] = first.code[a]
  BY <1>8, ZenonT(60)
<1>11. \A i \in 0 .. 24 : /\ second.entries[23 + i + 1] = 117 + 5*i
                          /\ second.code[117 + 5*i].push = 23 + i
                          /\ second.code[117 + 5*i].jump = 242
  BY <1>8, ZenonT(60)
<1>12. ASSUME NEW v \in 0 .. 47
       PROVE  v + 1 \in DOMAIN second.entries /\ ReachedFrom(second.code, second.entries[v + 1]) = v
  <2>1. v + 1 \in DOMAIN second.entries
    BY <1>9
  <2>2. CASE v \in 0 .. 22
    <3>1. v + 1 \in 1 .. 23
      BY <2>2
    <3>2. second.entries[v + 1] = 5*v
      <4>1. \A i \in 0 .. 22 : first.entries[i + 1] = 5*i
        BY <1>6, Zenon
      <4>2. first.entries[v + 1] = 5*v
        BY <2>2, <4>1
      <4>3. second.entries[v + 1] = first.entries[v + 1]
        BY <1>10, <3>1, Zenon
      <4>. QED  BY <4>2, <4>3, Zenon
    <3>3. 5*v \in DOMAIN first.code /\ 115 \in DOMAIN first.code
      <4>1. DOMAIN first.code = {115} \cup {5*i : i \in 0 .. 22}
        BY <1>6, Zenon
      <4>. QED  BY <2>2, <4>1
    <3>4. second.code[5*v] = first.code[5*v] /\ second.code[115] = first.code[115]
      BY <1>10, <3>3, Zenon
    <3>5. first.code[5*v].push = v /\ first.code[5*v].jump = 115 /\ first.code[115].jump = 242
      <4>1. \A i \in 0 .. 22 : first.code[5*i].push = i /\ first.code[5*i].jump = 115
        BY <1>6, ZenonT(60)
      <4>2. first.code[115].jump = 242
        BY <1>6, ZenonT(60)
      <4>. QED  BY <2>2, <4>1, <4>2
    <3>6. second.code[5*v].push = v /\ second.code[5*v].jump = 115 /\ second.code[115].jump = 242
      BY <3>4, <3>5
    <3>7. ReachedFrom(second.code, 5*v) = v
      BY <1>1, <3>6 DEF ReachedFrom
    <3>. QED  BY <2>1, <3>2, <3>7, Zenon
  <2>3. CASE v \notin 0 .. 22
    <3> DEFINE i == v - 23
    <3>1. i \in 0 .. 24 /\ 23 + i + 1 = v + 1 /\ 23 + i = v
      BY <2>3
    <3>. HIDE DEF i
    <3>2. /\ second.entries[23 + i + 1] = 117 + 5*i
          /\ second.code[117 + 5*i].push = 23 + i /\ second.code[117 + 5*i].jump = 242
      BY <1>11, <3>1, Zenon
    <3>3. /\ second.entries[v + 1] = 117 + 5*i
          /\ second.code[117 + 5*i].push = v /\ second.code[117 + 5*i].jump = 242
      BY <3>1, <3>2, Zenon
    <3>. QED  BY <1>1, <2>1, <3>3, Zenon DEF ReachedFrom
  <2>. QED  BY <2>2, <2>3, Zenon
<1>. QED
  BY <1>2, <1>12, Zenon

\* How the serial ports among the first drivers are counted.
LEMMA SerialCounted ==
  ASSUME NEW k \in Nat, NEW i \in 1 .. k + 1
  PROVE  /\ Cardinality(SerialDrivers(i, k)) \in Nat
         /\ i = k + 1 => Cardinality(SerialDrivers(i, k)) = 0
         /\ Cardinality(SerialDrivers(i, k + 1)) =
              Cardinality(SerialDrivers(i, k))
                + IF Built[k + 1].class = "SERIAL_DRIVER" THEN 1 ELSE 0
<1> DEFINE T == SerialDrivers(i, k)
<1>1. IsFiniteSet(T)
  <2>1. IsFiniteSet(i .. k)
    BY FS_Interval
  <2>2. T \in SUBSET (i .. k)
    BY DEF SerialDrivers
  <2>. HIDE DEF T
  <2>. QED  BY <2>1, <2>2, FS_Subset
<1>2. i = k + 1 => T = {}
  BY DEF SerialDrivers
<1>3. k + 1 \notin T
  BY DEF SerialDrivers
<1>4. SerialDrivers(i, k + 1) = IF Built[k + 1].class = "SERIAL_DRIVER" THEN T \cup {k + 1} ELSE T
  <2>1. i .. k + 1 = (i .. k) \cup {k + 1}
    OBVIOUS
  <2>. QED  BY <2>1 DEF SerialDrivers
<1>. HIDE DEF T
<1>5. Cardinality(T) \in Nat /\ Cardinality(T \cup {k + 1}) = Cardinality(T) + 1
  BY <1>1, <1>3, FS_CardinalityType, FS_AddElement
<1>6. i = k + 1 => Cardinality(T) = 0
  BY <1>2, FS_EmptySet
<1>7. Cardinality(SerialDrivers(i, k + 1))
        = Cardinality(T) + IF Built[k + 1].class = "SERIAL_DRIVER" THEN 1 ELSE 0
  <2>1. CASE Built[k + 1].class = "SERIAL_DRIVER"
    <3>1. SerialDrivers(i, k + 1) = T \cup {k + 1}
      BY <1>4, <2>1, Zenon
    <3>. QED  BY <1>5, <2>1, <3>1
  <2>2. CASE Built[k + 1].class # "SERIAL_DRIVER"
    <3>1. SerialDrivers(i, k + 1) = T
      BY <1>4, <2>2, Zenon
    <3>. QED  BY <1>5, <2>2, <3>1
  <2>. QED  BY <2>1, <2>2
<1>. QED
  BY <1>5, <1>6, <1>7 DEF T

Drivers == [module_class -> Seq(STRING)]

\* The serial ports among the first drivers are listed, the last of them first.
PortsListed(registered, k) ==
  /\ Len(registered["SERIAL_DRIVER"]) = Cardinality(SerialDrivers(1, k))
  /\ \A i \in SerialDrivers(1, k) :
       /\ Cardinality(SerialDrivers(i, k)) \in 1 .. Len(registered["SERIAL_DRIVER"])
       /\ registered["SERIAL_DRIVER"][Cardinality(SerialDrivers(i, k))] = Built[i].name

LEMMA DriverTyped ==
  /\ Len(Built) \in Nat
  /\ \A i \in 1 .. Len(Built) : Built[i].class \in module_class /\ Built[i].name \in STRING
<1>1. Built \in Seq([class : module_class, name : STRING])
  BY KernelStartAssumption, Zenon
<1>2. /\ Len(Built) \in Nat
      /\ \A i \in 1 .. Len(Built) : Built[i] \in [class : module_class, name : STRING]
  BY <1>1, LenProperties
<1>. QED
  BY <1>2

LEMMA RegisterTyped ==
  ASSUME NEW registered \in Drivers, NEW i \in 1 .. Len(Built)
  PROVE  /\ module_register(registered, Built[i]) \in Drivers
         /\ module_register(registered, Built[i])["SERIAL_DRIVER"]
              = IF Built[i].class = "SERIAL_DRIVER"
                THEN <<Built[i].name>> \o registered["SERIAL_DRIVER"]
                ELSE registered["SERIAL_DRIVER"]
<1> DEFINE c == Built[i].class
           list == <<Built[i].name>> \o registered[c]
<1>1. c \in module_class /\ Built[i].name \in STRING
  BY DriverTyped, Zenon
<1>2. "SERIAL_DRIVER" \in module_class
  BY DEF module_class
<1>3. module_register(registered, Built[i]) = [registered EXCEPT ![c] = list]
  BY Zenon DEF module_register
<1>4. list \in Seq(STRING)
  <2>1. registered[c] \in Seq(STRING)
    BY <1>1 DEF Drivers
  <2>2. <<Built[i].name>> \in Seq(STRING)
    BY <1>1
  <2>. QED  BY <2>1, <2>2, ConcatProperties, Zenon
<1>5. [registered EXCEPT ![c] = list]["SERIAL_DRIVER"]
        = IF c = "SERIAL_DRIVER" THEN <<Built[i].name>> \o registered["SERIAL_DRIVER"]
          ELSE registered["SERIAL_DRIVER"]
  BY <1>1, <1>2 DEF Drivers
<1>6. [registered EXCEPT ![c] = list] \in Drivers
  <2>. HIDE DEF c, list
  <2>. QED  BY <1>1, <1>4 DEF Drivers
<1>7. module_register(registered, Built[i]) \in Drivers
  BY <1>3, <1>6, Zenon
<1>8. module_register(registered, Built[i])["SERIAL_DRIVER"]
        = [registered EXCEPT ![c] = list]["SERIAL_DRIVER"]
  BY <1>3, Zenon
<1>. QED
  BY <1>5, <1>7, <1>8, Zenon

LEMMA RegisterLists ==
  ASSUME NEW registered \in Drivers, NEW k \in 0 .. Len(Built) - 1, PortsListed(registered, k)
  PROVE  PortsListed(module_register(registered, Built[k + 1]), k + 1)
<1> DEFINE next == module_register(registered, Built[k + 1])
           list == registered["SERIAL_DRIVER"]
           list2 == next["SERIAL_DRIVER"]
           name == Built[k + 1].name
           serial == Built[k + 1].class = "SERIAL_DRIVER"
           one == IF serial THEN 1 ELSE 0
<1>1. k \in Nat /\ k + 1 \in 1 .. Len(Built) /\ 1 \in 1 .. k + 1
  BY DriverTyped
<1>2. list2 = IF serial THEN <<name>> \o list ELSE list
  BY <1>1, RegisterTyped, Zenon
<1>3. list \in Seq(STRING)
  BY DEF Drivers, module_class
<1>4. name \in STRING
  BY <1>1, DriverTyped, Zenon
<1>. HIDE DEF next, list, list2, name
<1>5. /\ <<name>> \in Seq(STRING) /\ Len(<<name>>) = 1 /\ <<name>>[1] = name
      /\ Len(list) \in Nat
  <2>1. <<name>> \in Seq(STRING)
    <3>1. \A S : \A x \in S : <<x>> \in Seq(S)
      OBVIOUS
    <3>. QED  BY <1>4, <3>1, Zenon
  <2>2. Len(<<name>>) = 1 /\ <<name>>[1] = name
    OBVIOUS
  <2>3. Len(list) \in Nat
    BY <1>3, LenProperties
  <2>. QED  BY <2>1, <2>2, <2>3, Zenon
<1>6. /\ Len(list2) = Len(list) + one
      /\ serial => list2[1] = name
      /\ \A c \in 1 .. Len(list) : list2[c + one] = list[c]
  <2>1. CASE serial
    <3>1. list2 = <<name>> \o list
      BY <1>2, <2>1, Zenon
    <3>2. /\ Len(list2) = 1 + Len(list)
          /\ \A c \in 1 .. 1 + Len(list) : list2[c] = IF c <= 1 THEN <<name>>[c] ELSE list[c - 1]
      BY <1>3, <1>5, <3>1, ConcatProperties, Zenon
    <3>3. list2[1] = name
      <4>1. 1 \in 1 .. 1 + Len(list) /\ 1 <= 1
        BY <1>5
      <4>. QED  BY <1>5, <3>2, <4>1, Zenon
    <3>4. ASSUME NEW c \in 1 .. Len(list)
          PROVE  list2[c + one] = list[c]
      <4>1. c + 1 \in 1 .. 1 + Len(list) /\ ~(c + 1 <= 1) /\ (c + 1) - 1 = c
        BY <1>5
      <4>2. list2[c + 1] = list[(c + 1) - 1]
        BY <3>2, <4>1, Zenon
      <4>. QED  BY <2>1, <4>1, <4>2
    <3>. QED  BY <1>5, <2>1, <3>2, <3>3, <3>4
  <2>2. CASE ~serial
    <3>1. list2 = list
      BY <1>2, <2>2, Zenon
    <3>. QED  BY <1>5, <2>2, <3>1
  <2>. QED  BY <2>1, <2>2
<1>7. \A i \in 1 .. k + 1 :
        /\ Cardinality(SerialDrivers(i, k)) \in Nat
        /\ i = k + 1 => Cardinality(SerialDrivers(i, k)) = 0
        /\ Cardinality(SerialDrivers(i, k + 1)) = Cardinality(SerialDrivers(i, k)) + one
  BY <1>1, SerialCounted, Zenon
<1>8. /\ Len(list) = Cardinality(SerialDrivers(1, k))
      /\ \A i \in SerialDrivers(1, k) :
           /\ Cardinality(SerialDrivers(i, k)) \in 1 .. Len(list)
           /\ list[Cardinality(SerialDrivers(i, k))] = Built[i].name
  BY Zenon DEF PortsListed, list
<1>9. Len(list2) = Cardinality(SerialDrivers(1, k + 1))
  <2>1. Cardinality(SerialDrivers(1, k + 1)) = Cardinality(SerialDrivers(1, k)) + one
    BY <1>1, <1>7, Zenon
  <2>. QED  BY <1>6, <1>8, <2>1, Zenon
<1>10. one \in {0, 1} /\ (serial => one = 1)
  OBVIOUS
<1>11. ASSUME NEW i \in SerialDrivers(1, k + 1)
       PROVE  /\ Cardinality(SerialDrivers(i, k + 1)) \in 1 .. Len(list2)
              /\ list2[Cardinality(SerialDrivers(i, k + 1))] = Built[i].name
  <2>1. i \in 1 .. k + 1 /\ Built[i].class = "SERIAL_DRIVER" /\ i \in Nat
    BY <1>1 DEF SerialDrivers
  <2> DEFINE c == Cardinality(SerialDrivers(i, k))
             d == Cardinality(SerialDrivers(i, k + 1))
  <2>2. c \in Nat /\ (i = k + 1 => c = 0) /\ d = c + one
    BY <1>7, <2>1, Zenon
  <2>3. CASE i = k + 1
    <3>1. serial
      BY <2>1, <2>3, Zenon
    <3>. HIDE DEF c, d
    <3>2. c = 0 /\ one = 1
      BY <1>10, <2>2, <2>3, <3>1, Zenon
    <3>. HIDE DEF one
    <3>3. d = 1 /\ d \in 1 .. Len(list2)
      BY <1>5, <1>6, <2>2, <3>2
    <3>4. list2[d] = name /\ Built[i].name = name
      BY <1>6, <2>3, <3>1, <3>3, Zenon DEF name
    <3>. QED  BY <3>3, <3>4 DEF d
  <2>4. CASE i # k + 1
    <3>1. i \in SerialDrivers(1, k)
      BY <1>1, <2>1, <2>4 DEF SerialDrivers
    <3>2. c \in 1 .. Len(list) /\ list[c] = Built[i].name
      BY <1>8, <3>1, Zenon
    <3>. HIDE DEF c, d, one
    <3>3. list2[d] = list[c]
      BY <1>6, <2>2, <3>2, Zenon
    <3>4. d \in 1 .. Len(list2)
      BY <1>5, <1>6, <1>10, <2>2, <3>2
    <3>. QED  BY <3>2, <3>3, <3>4 DEF d
  <2>. QED  BY <2>3, <2>4
<1>. QED
  BY <1>9, <1>11, Zenon DEF PortsListed, list2, next

\* The drivers that are registered.
LEMMA PortsRegistered == PortsListed(Registered, Len(Built))
<1> DEFINE n == Len(Built)
           none == [c \in module_class |-> <<>>]
           IsIn(h) == h = [i \in 0 .. n |-> IF i = 0 THEN none
                                            ELSE module_register(h[i - 1], Built[i])]
           F == [x \in (1 .. n) \X Drivers |-> module_register(x[2], Built[x[1]])]
           registered == CHOOSE h : IsIn(h)
<1>1. n \in Nat
  BY DriverTyped, Zenon
<1>2. none \in Drivers /\ none["SERIAL_DRIVER"] = <<>>
  BY EmptySeq DEF Drivers, module_class
<1>. HIDE DEF none
<1>3. \A i \in 1 .. n, x \in Drivers : module_register(x, Built[i]) \in Drivers
  BY RegisterTyped, Zenon DEF n
<1>. HIDE DEF n
<1>4. /\ F \in [(1 .. n) \X Drivers -> Drivers]
      /\ \A i \in 1 .. n, x \in Drivers : F[<<i, x>>] = module_register(x, Built[i])
  BY <1>3
<1>. HIDE DEF F
<1>5. PICK h : GoesOn(h, F, none, n, Drivers)
  BY <1>1, <1>2, <1>4, RecursionRuns
<1>6. IsIn(h)
  <2>1. ASSUME NEW i \in 0 .. n
        PROVE  h[i] = IF i = 0 THEN none ELSE module_register(h[i - 1], Built[i])
    <3>1. CASE i = 0
      BY <1>5, <3>1 DEF GoesOn
    <3>2. CASE i # 0
      <4>1. i \in 1 .. n /\ i - 1 \in 0 .. n
        BY <1>1, <3>2
      <4>. QED  BY <1>4, <1>5, <3>2, <4>1 DEF GoesOn
    <3>. QED  BY <3>1, <3>2
  <2>2. h = [i \in 0 .. n |-> h[i]]
    BY <1>5 DEF GoesOn
  <2>. QED  BY <2>1, <2>2, Zenon
<1>7. IsIn(registered)
  BY <1>6, Zenon
<1>8. Registered = registered[n]
  BY Zenon DEF Registered, registered, n, none
<1>. HIDE DEF registered
<1>9. \A i \in 0 .. n :
        registered[i] = IF i = 0 THEN none ELSE module_register(registered[i - 1], Built[i])
  BY <1>7, Zenon
<1>. HIDE DEF IsIn
<1>10. \A i \in 0 .. n : registered[i] \in Drivers /\ PortsListed(registered[i], i)
  <2> DEFINE S == {i \in 0 .. n : registered[i] \in Drivers /\ PortsListed(registered[i], i)}
  <2>1. 0 \in S
    <3>1. 0 \in 0 .. n
      BY <1>1
    <3>2. registered[0] = none
      BY <1>9, <3>1
    <3>3. SerialDrivers(1, 0) = {} /\ Cardinality(SerialDrivers(1, 0)) = 0
      BY FS_EmptySet DEF SerialDrivers
    <3>4. Len(none["SERIAL_DRIVER"]) = 0
      BY <1>2
    <3>5. PortsListed(none, 0)
      BY <3>3, <3>4, Zenon DEF PortsListed
    <3>. QED  BY <1>2, <3>1, <3>2, <3>5
  <2>2. ASSUME NEW k \in 0 .. n - 1, k \in S
        PROVE  k + 1 \in S
    <3>1. k + 1 \in 0 .. n /\ k + 1 # 0 /\ (k + 1) - 1 = k /\ k + 1 \in 1 .. n
      BY <1>1
    <3>2. registered[k + 1] = module_register(registered[k], Built[k + 1])
      BY <1>9, <3>1
    <3>3. registered[k] \in Drivers /\ PortsListed(registered[k], k)
      BY <2>2, Zenon
    <3>4. registered[k + 1] \in Drivers
      BY <1>3, <3>1, <3>2, <3>3, Zenon
    <3>5. PortsListed(registered[k + 1], k + 1)
      BY <2>2, <3>2, <3>3, RegisterLists, Zenon DEF n
    <3>. QED  BY <3>1, <3>4, <3>5
  <2>. HIDE DEF S
  <2>3. \A k \in 0 .. n : k \in S
    BY <1>1, <2>1, <2>2, Upward
  <2>. QED  BY <2>3 DEF S
<1>. QED
  BY <1>1, <1>8, <1>10 DEF n

\* Of the first modes of a list, none that can be drawn in comes closer than the best.
Modes == [width : Nat, height : Nat, bpp : Nat, linear : BOOLEAN, answers : BOOLEAN]

Best(list, best, i) ==
  /\ best \in 0 .. i
  /\ best # 0 => Usable(list[best])
  /\ \A j \in 1 .. i : Usable(list[j]) => best # 0 /\ Delta(list[best]) <= Delta(list[j])

LEMMA DeltaTyped ==
  ASSUME NEW mode \in Modes
  PROVE  Delta(mode) \in Int
<1>1. /\ mode.width \in Nat /\ mode.height \in Nat /\ mode.bpp \in Nat
      /\ Wanted.width \in Nat /\ Wanted.height \in Nat /\ Wanted.bpp \in Nat
  <2>1. Wanted \in [width : Nat, height : Nat, bpp : Nat]
    BY KernelStartAssumption, Zenon
  <2>. QED  BY <2>1 DEF Modes
<1>2. \A a, b \in Nat : a - b \in Int
  OBVIOUS
<1>3. \A n \in Int : Square(n) \in Int
  <2>1. \A n \in Int : n*n \in Int
    OBVIOUS
  <2>. QED  BY <2>1 DEF Square
<1>4. \A a, b, c \in Int : a + b + c \in Int
  OBVIOUS
<1>5. /\ Square(mode.width - Wanted.width) \in Int
      /\ Square(mode.height - Wanted.height) \in Int
      /\ Square(mode.bpp - Wanted.bpp) \in Int
  BY <1>1, <1>2, <1>3, Zenon
<1>. QED
  BY <1>4, <1>5, Zenon DEF Delta

LEMMA BestKept ==
  ASSUME NEW list \in Seq(Modes), NEW k \in 0 .. Len(list) - 1, NEW best, Best(list, best, k)
  PROVE  Best(list, IF IsBetter(list, k + 1, best) THEN k + 1 ELSE best, k + 1)
<1>1. Len(list) \in Nat /\ \A i \in 1 .. Len(list) : list[i] \in Modes
  BY LenProperties
<1>2. \A i \in 1 .. Len(list) : Delta(list[i]) \in Int
  BY <1>1, DeltaTyped, Zenon
<1>3. k \in Nat /\ best \in 0 .. k /\ k + 1 \in 1 .. Len(list) /\ k + 1 \in 0 .. k + 1
      /\ best \in 0 .. k + 1 /\ k + 1 # 0 /\ (best # 0 => best \in 1 .. Len(list))
      /\ \A j \in 1 .. k + 1 : j # k + 1 => j \in 1 .. k
  BY <1>1 DEF Best
<1>4. \A j \in 1 .. k + 1 : j \in 1 .. Len(list)
  BY <1>1
<1>5. /\ best # 0 => Usable(list[best])
      /\ \A j \in 1 .. k : Usable(list[j]) => best # 0 /\ Delta(list[best]) <= Delta(list[j])
  BY Zenon DEF Best
<1>6. CASE IsBetter(list, k + 1, best)
  <2>1. Usable(list[k + 1]) /\ (best = 0 \/ Delta(list[k + 1]) < Delta(list[best]))
    BY <1>6, Zenon DEF IsBetter
  <2>2. ASSUME NEW j \in 1 .. k + 1, Usable(list[j])
        PROVE  Delta(list[k + 1]) <= Delta(list[j])
    <3>1. CASE j = k + 1
      <4>1. Delta(list[k + 1]) \in Int
        BY <1>2, <1>3, Zenon
      <4>2. \A n \in Int : n <= n
        OBVIOUS
      <4>. QED  BY <3>1, <4>1, <4>2, Zenon
    <3>2. CASE j # k + 1
      <4>1. best # 0 /\ Delta(list[best]) <= Delta(list[j])
        BY <1>3, <1>5, <2>2, <3>2, Zenon
      <4>2. Delta(list[k + 1]) < Delta(list[best])
        BY <2>1, <4>1, Zenon
      <4>3. Delta(list[k + 1]) \in Int /\ Delta(list[best]) \in Int /\ Delta(list[j]) \in Int
        BY <1>2, <1>3, <1>4, <4>1, Zenon
      <4>4. \A a, b, c \in Int : a < b /\ b <= c => a <= c
        OBVIOUS
      <4>. QED  BY <4>1, <4>2, <4>3, <4>4, Zenon
    <3>. QED  BY <3>1, <3>2, Zenon
  <2>3. Best(list, k + 1, k + 1)
    BY <1>3, <2>1, <2>2, Zenon DEF Best
  <2>. QED  BY <1>6, <2>3, Zenon
<1>7. CASE ~IsBetter(list, k + 1, best)
  <2>1. ASSUME NEW j \in 1 .. k + 1, Usable(list[j])
        PROVE  best # 0 /\ Delta(list[best]) <= Delta(list[j])
    <3>1. CASE j = k + 1
      <4>1. best # 0 /\ ~(Delta(list[k + 1]) < Delta(list[best]))
        BY <1>7, <2>1, <3>1, Zenon DEF IsBetter
      <4>2. Delta(list[k + 1]) \in Int /\ Delta(list[best]) \in Int
        BY <1>2, <1>3, <4>1, Zenon
      <4>3. \A a, b \in Int : ~(a < b) => b <= a
        OBVIOUS
      <4>. QED  BY <3>1, <4>1, <4>2, <4>3, Zenon
    <3>2. CASE j # k + 1
      BY <1>3, <1>5, <2>1, <3>2, Zenon
    <3>. QED  BY <3>1, <3>2, Zenon
  <2>2. Best(list, best, k + 1)
    BY <1>3, <1>5, <2>1, Zenon DEF Best
  <2>. QED  BY <1>7, <2>2, Zenon
<1>. QED
  BY <1>6, <1>7, Zenon

LEMMA ModeFound ==
  ASSUME NEW list \in Seq(Modes)
  PROVE  Best(list, findMode(list), ModesRead(list))
<1> DEFINE n == ModesRead(list)
           Better(b, i) == IF IsBetter(list, i, b) THEN i ELSE b
           IsIn(h) == h = [i \in 0 .. n |-> IF i = 0 THEN 0
                             ELSE IF IsBetter(list, i, h[i - 1]) THEN i ELSE h[i - 1]]
           F == [x \in (1 .. n) \X (0 .. n) |-> Better(x[2], x[1])]
           best == CHOOSE h : IsIn(h)
<1>1. n \in Nat /\ n <= Len(list) /\ Len(list) \in Nat
  BY LenProperties, KernelStartAssumption DEF ModesRead
<1>. HIDE DEF n
<1>2. 0 \in 0 .. n /\ \A i \in 1 .. n, b \in 0 .. n : Better(b, i) \in 0 .. n
  BY <1>1
<1>3. \A i \in 1 .. n : \A b : Better(b, i) = IF IsBetter(list, i, b) THEN i ELSE b
  OBVIOUS
<1>. HIDE DEF Better
<1>4. /\ F \in [(1 .. n) \X (0 .. n) -> 0 .. n]
      /\ \A i \in 1 .. n, b \in 0 .. n : F[<<i, b>>] = Better(b, i)
  BY <1>2
<1>. HIDE DEF F
<1>5. PICK h : GoesOn(h, F, 0, n, 0 .. n)
  BY <1>1, <1>2, <1>4, RecursionRuns
<1>6. IsIn(h)
  <2>1. ASSUME NEW i \in 0 .. n
        PROVE  h[i] = IF i = 0 THEN 0 ELSE IF IsBetter(list, i, h[i - 1]) THEN i ELSE h[i - 1]
    <3>1. CASE i = 0
      BY <1>5, <3>1 DEF GoesOn
    <3>2. CASE i # 0
      <4>1. i \in 1 .. n /\ i - 1 \in 0 .. n
        BY <1>1, <3>2
      <4>2. h[i] = Better(h[i - 1], i)
        BY <1>4, <1>5, <4>1 DEF GoesOn
      <4>. QED  BY <1>3, <3>2, <4>1, <4>2, Zenon
    <3>. QED  BY <3>1, <3>2
  <2>2. h = [i \in 0 .. n |-> h[i]]
    BY <1>5 DEF GoesOn
  <2>. QED  BY <2>1, <2>2, Zenon
<1>7. IsIn(best)
  BY <1>6, Zenon
<1>8. findMode(list) = best[n]
  BY Zenon DEF findMode, best, n
<1>. HIDE DEF best
<1>9. \A i \in 0 .. n :
        best[i] = IF i = 0 THEN 0 ELSE IF IsBetter(list, i, best[i - 1]) THEN i ELSE best[i - 1]
  BY <1>7, Zenon
<1>. HIDE DEF IsIn
<1>10. \A i \in 0 .. n : Best(list, best[i], i)
  <2> DEFINE S == {i \in 0 .. n : Best(list, best[i], i)}
  <2>1. 0 \in S
    <3>1. 0 \in 0 .. n /\ 0 \in 0 .. 0 /\ \A j \in 1 .. 0 : FALSE
      BY <1>1
    <3>2. best[0] = 0
      BY <1>9, <3>1, Zenon
    <3>3. Best(list, 0, 0)
      BY <3>1, Zenon DEF Best
    <3>. QED  BY <3>1, <3>2, <3>3
  <2>2. ASSUME NEW k \in 0 .. n - 1, k \in S
        PROVE  k + 1 \in S
    <3>1. k + 1 \in 0 .. n /\ k + 1 # 0 /\ (k + 1) - 1 = k
      BY <1>1
    <3>2. best[k + 1] = IF IsBetter(list, k + 1, best[k]) THEN k + 1 ELSE best[k]
      BY <1>9, <3>1
    <3>3. Best(list, best[k], k)
      BY <2>2, Zenon
    <3>4. k \in 0 .. Len(list) - 1
      BY <1>1
    <3>5. Best(list, best[k + 1], k + 1)
      BY <3>2, <3>3, <3>4, BestKept, Zenon
    <3>. QED  BY <3>1, <3>5
  <2>. HIDE DEF S
  <2>3. \A k \in 0 .. n : k \in S
    BY <1>1, <2>1, <2>2, Upward
  <2>. QED  BY <2>3 DEF S
<1>. QED
  BY <1>1, <1>8, <1>10 DEF n

(***************************************************************************)
(* The inductive invariant: what the start has done when it comes to each  *)
(* of its parts.                                                           *)
(***************************************************************************)
Scheduling == {"run_on_line_scheduler"}
Letting == {"initialize_screen", "initialize_tasks"} \cup Scheduling
WithMode == {"start_timer"} \cup Letting
WithPorts == {"initialize_vesa"} \cup WithMode
WithDrivers == {"initialize_serial_ports"} \cup WithPorts
WithTable == {"initialize_parameters", "initialize_modules"} \cup WithDrivers
InProtectedMode == {"start_32", "a20_check", "setup_interrupts"} \cup WithTable

PortsOpen ==
  /\ Len(opened) = Cardinality(SerialDrivers(1, Len(Built)))
  /\ \A i \in SerialDrivers(1, Len(Built)) :
       opened[Cardinality(SerialDrivers(i, Len(Built)))] = Built[i].name

ModeChosen ==
  /\ \A i \in DOMAIN modes : i <= MaxModes /\ Usable(modes[i]) =>
       fbMode # 0 /\ Delta(modes[fbMode]) <= Delta(modes[i])
  /\ fbMode # 0 => Usable(modes[fbMode])

TableIn == idt = load_idt.entries /\ idt_code = load_idt.code /\ vectors = <<32, 40>>

StartInv ==
  /\ modes \in Seq(Modes)
  /\ unmasked \subseteq Irqs
  /\ interrupts_on => at \in Letting
  /\ at \in InProtectedMode => protected
  /\ at \in WithTable => TableIn
  /\ at \in WithDrivers => modules = Registered
  /\ at \in WithPorts => PortsOpen
  /\ at \in WithMode => ModeChosen /\ unmasked = Irqs
  /\ at \in Scheduling => interrupts_on

LEMMA SectorsBefore ==
  ASSUME SectorsNext
  PROVE  at' \in {"vbr", "delay", "menu", "read", "verify", "halted", "enter_16"}
<1>1. CASE LoadVolumeBootRecord
  BY <1>1 DEF LoadVolumeBootRecord, Fails
<1>2. CASE EnterVolumeBootRecord
  BY <1>2 DEF EnterVolumeBootRecord
<1>3. CASE Wait
  BY <1>3 DEF Wait
<1>4. CASE EnterMenu \/ Enter
  BY <1>4 DEF EnterMenu, Enter
<1>5. CASE \E step \in {-1, 0, 1} : MenuKey(step)
  <2>1. at = "menu" /\ at' = at
    BY <1>5 DEF MenuKey
  <2>. QED  BY <2>1
<1>6. CASE ReadChunk
  BY <1>6 DEF ReadChunk, Fails
<1>7. CASE StartKernel
  BY <1>7 DEF StartKernel, Fails
<1>. QED
  BY <1>1, <1>2, <1>3, <1>4, <1>5, <1>6, <1>7 DEF SectorsNext

LEMMA PortsOpened ==
  ASSUME modules = Registered, opened' = modules["SERIAL_DRIVER"]
  PROVE  PortsOpen'
<1>1. opened' = Registered["SERIAL_DRIVER"]
  BY Zenon
<1>2. /\ Len(Registered["SERIAL_DRIVER"]) = Cardinality(SerialDrivers(1, Len(Built)))
      /\ \A i \in SerialDrivers(1, Len(Built)) :
           Registered["SERIAL_DRIVER"][Cardinality(SerialDrivers(i, Len(Built)))] = Built[i].name
  BY PortsRegistered, Zenon DEF PortsListed
<1>. QED
  BY <1>1, <1>2, Zenon DEF PortsOpen

LEMMA ModeIsChosen ==
  ASSUME modes \in Seq(Modes), fbMode' = findMode(modes), modes' = modes
  PROVE  ModeChosen'
<1>1. Best(modes, fbMode', ModesRead(modes))
  BY ModeFound, Zenon
<1>2. \A i \in DOMAIN modes : i <= MaxModes => i \in 1 .. ModesRead(modes)
  BY LenProperties, KernelStartAssumption DEF ModesRead
<1>3. /\ \A i \in DOMAIN modes : i <= MaxModes /\ Usable(modes[i]) =>
           fbMode' # 0 /\ Delta(modes[fbMode']) <= Delta(modes[i])
      /\ fbMode' # 0 => Usable(modes[fbMode'])
  BY <1>1, <1>2, Zenon DEF Best
<1>. QED
  BY <1>3, Zenon DEF ModeChosen

\* What a step leaves alone.
LEMMA KeptTogether ==
  /\ UNCHANGED opened => (PortsOpen' <=> PortsOpen)
  /\ UNCHANGED <<modes, fbMode>> => (ModeChosen' <=> ModeChosen)
  /\ UNCHANGED <<idt, idt_code, vectors>> => (TableIn' <=> TableIn)
<1>1. ASSUME UNCHANGED opened PROVE PortsOpen' <=> PortsOpen
  BY <1>1 DEF PortsOpen
<1>2. ASSUME UNCHANGED <<modes, fbMode>> PROVE ModeChosen' <=> ModeChosen
  BY <1>2 DEF ModeChosen
<1>3. ASSUME UNCHANGED <<idt, idt_code, vectors>> PROVE TableIn' <=> TableIn
  BY <1>3 DEF TableIn
<1>. QED
  BY <1>1, <1>2, <1>3, Zenon

LEMMA StartInvInit == KernelInit => StartInv
<1>. SUFFICES ASSUME KernelInit PROVE StartInv
  OBVIOUS
<1>1. modes \in Seq(Modes)
  BY KernelStartAssumption, Zenon DEF KernelInit, Modes
<1>2. at = "mbr" /\ ~interrupts_on /\ unmasked = {0, 1}
  BY DEF KernelInit, SectorsInit
<1>. QED
  BY <1>1, <1>2 DEF StartInv, Irqs, InProtectedMode, WithTable, WithDrivers, WithPorts,
                    WithMode,
                    Letting, Scheduling

LEMMA StartInvStep == StartInv /\ [KernelNext]_kernel_vars => StartInv'
<1>. SUFFICES ASSUME StartInv, [KernelNext]_kernel_vars PROVE StartInv'
  OBVIOUS
<1>1. CASE SectorsNext /\ UNCHANGED start_vars
  <2>1. at' \in {"vbr", "delay", "menu", "read", "verify", "halted", "enter_16"}
    BY <1>1, SectorsBefore
  <2>2. UNCHANGED <<modes, unmasked, interrupts_on>> /\ at \notin Letting
    <3>1. UNCHANGED <<modes, unmasked, interrupts_on>>
      BY <1>1 DEF start_vars
    <3>2. Booting
      BY <1>1 DEF SectorsNext, Booting, LoadVolumeBootRecord, EnterVolumeBootRecord, Wait,
                  EnterMenu, Enter,
                  MenuKey, ReadChunk, StartKernel
    <3>. QED  BY <3>1, <3>2 DEF Booting, Letting, Scheduling
  <2>. QED  BY <2>1, <2>2 DEF StartInv, InProtectedMode, WithTable, WithDrivers,
                              WithPorts, WithMode, Letting, Scheduling
<1>2. CASE EnterProtectedMode
  BY <1>2, KeptTogether
  DEF EnterProtectedMode, Goes, StartInv, InProtectedMode, WithTable, WithDrivers,
      WithPorts, WithMode, Letting, Scheduling
<1>3. CASE InitializeMemoryMap
  BY <1>3, KeptTogether
  DEF InitializeMemoryMap, Goes, AskFirmware, StartInv, InProtectedMode, WithTable,
      WithDrivers, WithPorts, WithMode, Letting, Scheduling
<1>4. CASE A20Check
  BY <1>4, KeptTogether
  DEF A20Check, Goes, start_vars, StartInv, InProtectedMode, WithTable, WithDrivers,
      WithPorts, WithMode, Letting, Scheduling
<1>5. CASE SetupInterrupts
  <2>1. TableIn'
    BY <1>5, Zenon DEF SetupInterrupts, TableIn
  <2>. QED  BY <1>5, KeptTogether, <2>1
          DEF SetupInterrupts, Goes, Irqs, StartInv, InProtectedMode, WithTable,
              WithDrivers, WithPorts, WithMode, Letting, Scheduling
<1>6. CASE InitializeParameters
  BY <1>6, KeptTogether
  DEF InitializeParameters, Goes, StartInv, InProtectedMode, WithTable, WithDrivers,
      WithPorts, WithMode, Letting, Scheduling
<1>7. CASE InitializeModules
  BY <1>7, KeptTogether
  DEF InitializeModules, Goes, StartInv, InProtectedMode, WithTable, WithDrivers,
      WithPorts, WithMode, Letting, Scheduling
<1>8. CASE InitializeSerialPorts
  <2>1. PortsOpen'
    BY <1>8, PortsOpened DEF InitializeSerialPorts, Goes, StartInv, WithDrivers
  <2>. QED  BY <1>8, KeptTogether, <2>1
          DEF InitializeSerialPorts, Goes, StartInv, InProtectedMode, WithTable,
              WithDrivers, WithPorts, WithMode, Letting, Scheduling
<1>9. CASE InitializeVesa
  <2>1. ModeChosen'
    BY <1>9, ModeIsChosen DEF InitializeVesa, StartInv
  <2>. QED  BY <1>9, KeptTogether, <2>1
          DEF InitializeVesa, Goes, AskFirmware, StartInv, InProtectedMode, WithTable,
              WithDrivers, WithPorts, WithMode, Letting, Scheduling
<1>10. CASE StartTimer
  BY <1>10, KeptTogether
  DEF StartTimer, Goes, StartInv, InProtectedMode, WithTable, WithDrivers, WithPorts,
      WithMode, Letting, Scheduling
<1>11. CASE InitializeScreen
  BY <1>11, KeptTogether
  DEF InitializeScreen, Goes, AskFirmware, StartInv, InProtectedMode, WithTable,
      WithDrivers, WithPorts, WithMode, Letting, Scheduling
<1>12. CASE RunScheduler
  BY <1>12, KeptTogether
  DEF RunScheduler, Goes, StartInv, InProtectedMode, WithTable, WithDrivers, WithPorts,
      WithMode, Letting, Scheduling
<1>13. CASE UNCHANGED kernel_vars
  BY <1>13, KeptTogether
  DEF kernel_vars, sector_vars, start_vars, StartInv, InProtectedMode, WithTable,
      WithDrivers, WithPorts, WithMode, Letting, Scheduling
<1>. QED
  BY <1>1, <1>2, <1>3, <1>4, <1>5, <1>6, <1>7, <1>8, <1>9, <1>10, <1>11, <1>12,
     <1>13 DEF KernelNext

\* Where interrupts are let in, their vectors lead to the handler.
LEMMA InterruptsReach == StartInv => InterruptsReachHandler
<1>. SUFFICES ASSUME StartInv, interrupts_on PROVE InterruptsReachHandler
  BY DEF InterruptsReachHandler
<1>1. protected /\ TableIn /\ unmasked \subseteq Irqs
  BY DEF StartInv, InProtectedMode, WithTable, WithDrivers, WithPorts, WithMode
<1>2. ASSUME NEW irq \in unmasked
      PROVE  Vector(irq) \in 0 .. 47
  <2>1. irq \in 0 .. 15
    BY <1>1 DEF Irqs
  <2>2. vectors[1] = 32 /\ vectors[2] = 40
    BY <1>1 DEF TableIn
  <2>. QED  BY <2>1, <2>2 DEF Vector
<1>3. ASSUME NEW v \in 0 .. 47
      PROVE  v + 1 \in DOMAIN idt /\ Handled(idt[v + 1]) = v
  <2>1. v + 1 \in DOMAIN load_idt.entries
        /\ ReachedFrom(load_idt.code, load_idt.entries[v + 1]) = v
    BY TableLoaded, Zenon
  <2>2. \A a : Handled(a) = ReachedFrom(idt_code, a)
    BY Zenon DEF Handled, ReachedFrom
  <2>3. idt = load_idt.entries /\ idt_code = load_idt.code
    BY <1>1, Zenon DEF TableIn
  <2>. QED  BY <2>1, <2>2, <2>3, Zenon
<1>4. \A v \in 0 .. 31 \cup {Vector(irq) : irq \in unmasked} : v \in 0 .. 47
  BY <1>2
<1>. QED
  BY <1>1, <1>3, <1>4, Zenon DEF InterruptsReachHandler

(***************************************************************************)
(* The kernel that runs the scheduler has interrupts, which reach the      *)
(* handler under their own numbers, every serial port open in its order,   *)
(* and the mode closest to the wanted among the first MaxModes: for any    *)
(* drivers, and any modes and memory the firmware reports (entry.cpp:272). *)
(***************************************************************************)
THEOREM KernelIsReady == KernelSpec => []ReadyToSchedule
<1>1. StartInv => ReadyToSchedule
  <2>. SUFFICES ASSUME StartInv PROVE ReadyToSchedule
    OBVIOUS
  <2>1. InterruptsReachHandler
    BY InterruptsReach
  <2>2. ASSUME at = "run_on_line_scheduler"
        PROVE  interrupts_on /\ 0 \in unmasked /\ PortsOpen /\ ModeChosen
    BY <2>2 DEF StartInv, WithPorts, WithMode, Letting, Scheduling, Irqs
  <2>. QED  BY <2>1, <2>2, Zenon DEF ReadyToSchedule, PortsOpen, ModeChosen
<1>. QED
  BY <1>1, StartInvInit, StartInvStep, PTL DEF KernelSpec

-----------------------------------------------------------------------------
(***************************************************************************)
(* The machine.                                                            *)
(***************************************************************************)
FunctionPlaces == BusNumbers \X (0 .. DeviceRange - 1) \X (0 .. FunctionRange - 1)

\* What is known of the machine.
MachineKnown ==
  /\ DOMAIN machine.functions \subseteq FunctionPlaces
  /\ \A f \in DOMAIN machine.functions : machine.functions[f].secondary \in BusNumbers
  /\ machine.from \in BusNumbers /\ machine.to \in BusNumbers
  /\ machine.entries \in Seq([type : Nat, id : CoreIds])
  /\ machine.bsp \in CoreIds /\ CoreIds \subseteq Nat

\* The elements of two sequences joined.
LEMMA JoinedElements ==
  ASSUME NEW A, NEW s \in Seq(A), NEW t \in Seq(A)
  PROVE  /\ s \o t \in Seq(A)
         /\ \A x : x \in ToSet(s \o t) <=> x \in ToSet(s) \/ x \in ToSet(t)
<1>3. \A q \in Seq(A) : \A x : x \in ToSet(q) <=> \E i \in 1 .. Len(q) : x = q[i]
  <2>1. \A q \in Seq(A) : DOMAIN q = 1 .. Len(q)
    BY LenProperties
  <2>. QED  BY <2>1 DEF ToSet
<1>4. s \o t \in Seq(A)
  BY ConcatProperties
<1>5. ASSUME NEW x
      PROVE  x \in ToSet(s \o t) <=> x \in ToSet(s) \/ x \in ToSet(t)
  <2>1. /\ s \o t \in Seq(A) /\ Len(s \o t) = Len(s) + Len(t)
        /\ \A i \in 1 .. Len(s) + Len(t) : (s \o t)[i] = IF i <= Len(s) THEN s[i] ELSE t[i - Len(s)]
    BY ConcatProperties, Zenon
  <2>2. Len(s) \in Nat /\ Len(t) \in Nat
    BY LenProperties
  <2>3. ASSUME x \in ToSet(s \o t) PROVE x \in ToSet(s) \/ x \in ToSet(t)
    <3>1. PICK i \in 1 .. Len(s) + Len(t) : x = (s \o t)[i]
      <4>1. \E i \in 1 .. Len(s \o t) : x = (s \o t)[i]
        <5>1. s \o t \in Seq(A)
          BY <1>4, Zenon
        <5>2. \A y : y \in ToSet(s \o t) <=> \E i \in 1 .. Len(s \o t) : y = (s \o t)[i]
          BY <1>3, <5>1, Zenon
        <5>. QED  BY <2>3, <5>2, Zenon
      <4>. QED  BY <2>1, <4>1, Zenon
    <3>2. CASE i <= Len(s)
      <4>1. i \in 1 .. Len(s) /\ x = s[i]
        BY <2>1, <2>2, <3>1, <3>2
      <4>. QED  BY <1>3, <4>1, Zenon
    <3>3. CASE ~(i <= Len(s))
      <4>1. i - Len(s) \in 1 .. Len(t) /\ x = t[i - Len(s)]
        BY <2>1, <2>2, <3>1, <3>3
      <4>. QED  BY <1>3, <4>1, Zenon
    <3>. QED  BY <3>2, <3>3
  <2>4. ASSUME x \in ToSet(s) PROVE x \in ToSet(s \o t)
    <3>1. PICK i \in 1 .. Len(s) : x = s[i]
      BY <1>3, <2>4, Zenon
    <3>2. i \in 1 .. Len(s) + Len(t) /\ x = (s \o t)[i]
      BY <2>1, <2>2, <3>1
    <3>. QED  BY <1>3, <2>1, <3>2, Zenon
  <2>5. ASSUME x \in ToSet(t) PROVE x \in ToSet(s \o t)
    <3>1. PICK i \in 1 .. Len(t) : x = t[i]
      BY <1>3, <2>5, Zenon
    <3>2. /\ i + Len(s) \in 1 .. Len(s) + Len(t) /\ ~(i + Len(s) <= Len(s))
          /\ (i + Len(s)) - Len(s) = i
      BY <2>2
    <3>3. x = (s \o t)[i + Len(s)]
      BY <2>1, <3>1, <3>2
    <3>. QED  BY <1>3, <2>1, <3>2, <3>3, Zenon
  <2>. QED  BY <2>3, <2>4, <2>5, Zenon
<1>. QED
  BY <1>4, <1>5, Zenon

\* What is joined of the first i sequences is h[i].
FlattensBy(h, seqs, A) ==
  /\ h \in [0 .. Len(seqs) -> Seq(A)] /\ h[0] = <<>>
  /\ \A i \in 1 .. Len(seqs) : h[i] = h[i - 1] \o seqs[i]
  /\ FlattenSeq(seqs) = h[Len(seqs)]

\* Sequences are joined one after the other.
LEMMA FlattenRuns ==
  ASSUME NEW A, NEW seqs \in Seq(Seq(A))
  PROVE  \E h : FlattensBy(h, seqs, A)
<1> DEFINE n == Len(seqs)
           IsIn(h) == h = [i \in 1 .. n |-> IF i = 1 THEN seqs[i] ELSE h[i - 1] \o seqs[i]]
           F == [x \in (1 .. n) \X Seq(A) |-> x[2] \o seqs[x[1]]]
           flatten == CHOOSE h : IsIn(h)
<1>1. n \in Nat /\ \A i \in 1 .. n : seqs[i] \in Seq(A)
  BY LenProperties
<1>. HIDE DEF n
<1>2. <<>> \in Seq(A)
  BY EmptySeq
<1>4. \A s, t \in Seq(A) : s \o t \in Seq(A)
  BY JoinedElements, Zenon
<1>5. /\ F \in [(1 .. n) \X Seq(A) -> Seq(A)]
      /\ \A i \in 1 .. n, s \in Seq(A) : F[<<i, s>>] = s \o seqs[i]
  BY <1>1, <1>4
<1>. HIDE DEF F
<1>6. PICK h : GoesOn(h, F, <<>>, n, Seq(A))
  BY <1>1, <1>2, <1>5, RecursionRuns
<1>7. /\ h \in [0 .. n -> Seq(A)] /\ h[0] = <<>> /\ \A i \in 0 .. n : h[i] \in Seq(A)
      /\ \A i \in 1 .. n : h[i] = F[<<i, h[i - 1]>>]
  BY <1>6 DEF GoesOn
<1>8. \A i \in 1 .. n : i - 1 \in 0 .. n /\ h[i] = h[i - 1] \o seqs[i]
  <2>1. \A i \in 1 .. n : i - 1 \in 0 .. n
    BY <1>1
  <2>. QED  BY <1>5, <1>7, <2>1, Zenon
<1>9. CASE n = 0
  <2>1. seqs = <<>>
    BY <1>9, EmptySeq DEF n
  <2>2. FlattenSeq(seqs) = seqs
    BY <1>9, Zenon DEF FlattenSeq, n
  <2>3. FlattenSeq(seqs) = h[n]
    BY <1>7, <1>9, <2>1, <2>2, Zenon
  <2>. QED  BY <1>7, <1>8, <2>3, Zenon DEF FlattensBy, n
<1>10. CASE n # 0
  <2> DEFINE g == [i \in 1 .. n |-> h[i]]
  <2>1. IsIn(g)
    <3>1. ASSUME NEW i \in 1 .. n
          PROVE  g[i] = IF i = 1 THEN seqs[i] ELSE g[i - 1] \o seqs[i]
      <4>1. CASE i = 1
        <5>1. h[1] = <<>> \o seqs[1]
          <6>1. 1 \in 1 .. n /\ 1 - 1 = 0
            BY <4>1
          <6>2. h[1] = h[1 - 1] \o seqs[1]
            BY <1>8, <6>1, Zenon
          <6>. QED  BY <1>7, <6>1, <6>2
        <5>2. <<>> \o seqs[1] = seqs[1]
          BY <1>1, <4>1, ConcatEmptySeq
        <5>. QED  BY <4>1, <5>1, <5>2
      <4>2. CASE i # 1
        <5>1. i - 1 \in 1 .. n
          BY <1>1, <4>2
        <5>. QED  BY <1>8, <4>2, <5>1
      <4>. QED  BY <4>1, <4>2
    <3>2. g = [i \in 1 .. n |-> g[i]]
      OBVIOUS
    <3>. HIDE DEF g
    <3>. QED  BY <3>1, <3>2, Zenon
  <2>2. IsIn(flatten)
    BY <2>1, Zenon
  <2>3. FlattenSeq(seqs) = flatten[n]
    BY <1>10, Zenon DEF FlattenSeq, flatten, n
  <2>. HIDE DEF flatten
  <2>4. \A i \in 1 .. n : flatten[i] = IF i = 1 THEN seqs[i] ELSE flatten[i - 1] \o seqs[i]
    BY <2>2, Zenon
  <2>. HIDE DEF IsIn
  <2> DEFINE S == {k \in 0 .. n : k # 0 => flatten[k] = h[k]}
  <2>5. 0 \in S
    BY <1>1
  <2>6. ASSUME NEW k \in 0 .. n - 1, k \in S
        PROVE  k + 1 \in S
    <3>1. k + 1 \in 1 .. n /\ k + 1 \in 0 .. n /\ (k + 1) - 1 = k
      BY <1>1
    <3>2. h[k + 1] = h[k] \o seqs[k + 1]
      BY <1>8, <3>1
    <3>3. CASE k = 0
      <4>1. flatten[1] = seqs[1] /\ h[1] = <<>> \o seqs[1]
        <5>1. k + 1 = 1 /\ 1 \in 1 .. n
          BY <3>1, <3>3
        <5>2. h[1] = h[0] \o seqs[1]
          BY <3>2, <3>3, <5>1, Zenon
        <5>. QED  BY <1>7, <2>4, <5>1, <5>2, Zenon
      <4>2. <<>> \o seqs[1] = seqs[1]
        BY <1>1, <3>1, <3>3, ConcatEmptySeq
      <4>. QED  BY <3>1, <3>3, <4>1, <4>2
    <3>4. CASE k # 0
      <4>1. k + 1 # 1
        BY <1>1, <3>4
      <4>2. flatten[k + 1] = flatten[(k + 1) - 1] \o seqs[k + 1]
        BY <2>4, <3>1, <4>1, Zenon
      <4>3. flatten[k] = h[k]
        BY <2>6, <3>4, Zenon
      <4>4. flatten[k + 1] = h[k + 1]
        BY <3>1, <3>2, <4>2, <4>3, Zenon
      <4>. QED  BY <3>1, <4>4, Zenon
    <3>. QED  BY <3>3, <3>4
  <2>. HIDE DEF S
  <2>7. \A k \in 0 .. n : k \in S
    BY <1>1, <2>5, <2>6, Upward
  <2>8. n \in 0 .. n
    BY <1>1
  <2>9. flatten[n] = h[n]
    BY <1>10, <2>7, <2>8, Zenon DEF S
  <2>. QED  BY <1>7, <1>8, <2>3, <2>9, Zenon DEF FlattensBy, n
<1>. QED
  BY <1>9, <1>10

\* The elements of a sequence of sequences.
LEMMA FlattenJoins ==
  ASSUME NEW A, NEW seqs \in Seq(Seq(A))
  PROVE  /\ FlattenSeq(seqs) \in Seq(A)
         /\ \A x : x \in ToSet(FlattenSeq(seqs)) <=>
                     \E i \in 1 .. Len(seqs) : x \in ToSet(seqs[i])
<1> DEFINE n == Len(seqs)
           Joins(s, k) == \A x : x \in ToSet(s) <=> \E i \in 1 .. k : x \in ToSet(seqs[i])
<1>1. n \in Nat /\ \A i \in 1 .. n : seqs[i] \in Seq(A)
  BY LenProperties
<1>2. PICK h : FlattensBy(h, seqs, A)
  BY FlattenRuns, Zenon
<1>3. /\ h[0] = <<>> /\ FlattenSeq(seqs) = h[n] /\ \A i \in 0 .. n : h[i] \in Seq(A)
      /\ \A i \in 1 .. n : h[i] = h[i - 1] \o seqs[i]
  BY <1>2 DEF FlattensBy
<1>. HIDE DEF n
<1>4. ToSet(<<>>) = {}
  BY DEF ToSet
<1>5. \A s, t \in Seq(A) : \A x : x \in ToSet(s \o t) <=> x \in ToSet(s) \/ x \in ToSet(t)
  BY JoinedElements, Zenon
<1> DEFINE S == {k \in 0 .. n : Joins(h[k], k)}
<1>6. 0 \in S
  BY <1>1, <1>3, <1>4
<1>7. ASSUME NEW k \in 0 .. n - 1, k \in S
      PROVE  k + 1 \in S
  <2>1. /\ k \in 0 .. n /\ k + 1 \in 1 .. n /\ k + 1 \in 0 .. n /\ (k + 1) - 1 = k
        /\ \A i : i \in 1 .. k + 1 <=> i \in 1 .. k \/ i = k + 1
    BY <1>1
  <2>2. h[k + 1] = h[k] \o seqs[k + 1]
    BY <1>3, <2>1
  <2>3. \A x : x \in ToSet(h[k + 1]) <=> x \in ToSet(h[k]) \/ x \in ToSet(seqs[k + 1])
    BY <1>1, <1>3, <1>5, <2>1, <2>2, Zenon
  <2>4. Joins(h[k + 1], k + 1)
    BY <1>7, <2>1, <2>3, Zenon
  <2>. QED  BY <2>1, <2>4, Zenon
<1>. HIDE DEF S
<1>8. \A k \in 0 .. n : k \in S
  BY <1>1, <1>6, <1>7, Upward
<1>9. n \in 0 .. n
  BY <1>1
<1>10. h[n] \in Seq(A) /\ Joins(h[n], n)
  BY <1>3, <1>8, <1>9, Zenon DEF S
<1>. QED
  BY <1>3, <1>10, Zenon DEF n

(***************************************************************************)
(* What the search finds on a bus, when g is what it finds on those behind *)
(* its bridges.                                                            *)
(***************************************************************************)
OfFunction(g, bus, device, function) ==
  LET f == <<bus, device, function>>
  IN  IF ~Checked(bus, device, function) THEN <<>>
      ELSE <<f>> \o IF Bridge(f) /\ machine.functions[f].secondary > bus
                    THEN g[machine.functions[f].secondary] ELSE <<>>
OfDevice(g, bus, device) ==
  FlattenSeq([n \in 1 .. FunctionRange |-> OfFunction(g, bus, device, n - 1)])
OfBus(g, bus) == FlattenSeq([n \in 1 .. DeviceRange |-> OfDevice(g, bus, n - 1)])

\* The functions looked at on a bus, and the buses they lead to.
OnBus(bus) == {f \in FunctionPlaces : f[1] = bus /\ Checked(f[1], f[2], f[3])}
Leads(f, to) == Bridge(f) /\ machine.functions[f].secondary = to /\ to > f[1]

LEMMA PlacesTyped ==
  ASSUME NEW bus \in BusNumbers, NEW device \in 0 .. DeviceRange - 1,
         NEW function \in 0 .. FunctionRange - 1
  PROVE  /\ <<bus, device, function>> \in FunctionPlaces
         /\ <<bus, device, function>>[1] = bus /\ <<bus, device, function>>[2] = device
         /\ <<bus, device, function>>[3] = function
BY DEF FunctionPlaces

LEMMA PlacesSplit ==
  ASSUME NEW f \in FunctionPlaces
  PROVE  /\ f[1] \in BusNumbers /\ f[2] \in 0 .. DeviceRange - 1 /\ f[3] \in 0 .. FunctionRange - 1
         /\ f = <<f[1], f[2], f[3]>>
BY DEF FunctionPlaces

\* What is found above a bus are functions.
FindsAbove(g, bus) == \A b \in BusNumbers : b > bus => g[b] \in Seq(FunctionPlaces)

LEMMA FunctionFinds ==
  ASSUME MachineKnown, NEW bus \in BusNumbers, NEW g, FindsAbove(g, bus),
         NEW device \in 0 .. DeviceRange - 1, NEW function \in 0 .. FunctionRange - 1
  PROVE  /\ OfFunction(g, bus, device, function) \in Seq(FunctionPlaces)
         /\ \A x : x \in ToSet(OfFunction(g, bus, device, function)) <=>
              /\ Checked(bus, device, function)
              /\ \/ x = <<bus, device, function>>
                 \/ \E to \in BusNumbers :
                      Leads(<<bus, device, function>>, to) /\ x \in ToSet(g[to])
<1> DEFINE f == <<bus, device, function>>
           to == machine.functions[f].secondary
           behind == Bridge(f) /\ to > bus
           rest == IF behind THEN g[to] ELSE <<>>
<1>1. f \in FunctionPlaces /\ f[1] = bus
  BY PlacesTyped, Zenon
<1>2. ToSet(<<>>) = {} /\ <<>> \in Seq(FunctionPlaces)
  BY EmptySeq DEF ToSet
<1>3. OfFunction(g, bus, device, function) = IF ~Checked(bus, device, function) THEN <<>> ELSE <<f>> \o rest
  BY Zenon DEF OfFunction
<1>4. CASE ~Checked(bus, device, function)
  BY <1>2, <1>3, <1>4, Zenon
<1>5. CASE Checked(bus, device, function)
  <2>1. to \in BusNumbers
    BY <1>5, Zenon DEF MachineKnown, Checked, Present
  <2>. HIDE DEF f
  <2>2. rest \in Seq(FunctionPlaces)
    BY <1>2, <2>1, Zenon DEF FindsAbove
  <2>3. <<f>> \in Seq(FunctionPlaces) /\ \A x : x \in ToSet(<<f>>) <=> x = f
    BY <1>1 DEF ToSet
  <2>4. OfFunction(g, bus, device, function) = <<f>> \o rest
    BY <1>3, <1>5, Zenon
  <2>5. \A x : x \in ToSet(rest) <=> \E b \in BusNumbers : Leads(f, b) /\ x \in ToSet(g[b])
    <3>1. CASE behind
      <4>1. \A b : Leads(f, b) <=> b = to
        BY <1>1, <3>1, Zenon DEF Leads
      <4>2. rest = g[to]
        BY <3>1, Zenon
      <4>. HIDE DEF to, rest
      <4>. QED  BY <2>1, <4>1, <4>2, Zenon
    <3>2. CASE ~behind
      <4>1. \A b : ~Leads(f, b)
        BY <1>1, <3>2, Zenon DEF Leads
      <4>. QED  BY <1>2, <3>2, <4>1, Zenon
    <3>. QED  BY <3>1, <3>2, Zenon
  <2>. HIDE DEF rest
  <2>6. <<f>> \o rest \in Seq(FunctionPlaces)
        /\ \A x : x \in ToSet(<<f>> \o rest) <=> x \in ToSet(<<f>>) \/ x \in ToSet(rest)
    BY <2>2, <2>3, JoinedElements, Zenon
  <2>. QED  BY <1>5, <2>3, <2>4, <2>5, <2>6, Zenon DEF f
<1>. QED
  BY <1>4, <1>5, Zenon

LEMMA DeviceFinds ==
  ASSUME MachineKnown, NEW bus \in BusNumbers, NEW g, FindsAbove(g, bus),
         NEW device \in 0 .. DeviceRange - 1
  PROVE  /\ OfDevice(g, bus, device) \in Seq(FunctionPlaces)
         /\ \A x : x \in ToSet(OfDevice(g, bus, device)) <=>
              \E function \in 0 .. FunctionRange - 1 : x \in ToSet(OfFunction(g, bus, device, function))
<1> DEFINE seqs == [n \in 1 .. FunctionRange |-> OfFunction(g, bus, device, n - 1)]
<1>1. FunctionRange \in Nat
  BY DiscoveryAssumption
<1>2. /\ \A n \in 1 .. FunctionRange : n - 1 \in 0 .. FunctionRange - 1
      /\ \A n \in 0 .. FunctionRange - 1 : n + 1 \in 1 .. FunctionRange /\ (n + 1) - 1 = n
  BY <1>1
<1>3. \A n \in 1 .. FunctionRange : OfFunction(g, bus, device, n - 1) \in Seq(FunctionPlaces)
  BY <1>2, FunctionFinds, Zenon
<1>4. seqs \in Seq(Seq(FunctionPlaces)) /\ Len(seqs) = FunctionRange
      /\ \A n \in 1 .. FunctionRange : seqs[n] = OfFunction(g, bus, device, n - 1)
  BY <1>1, <1>3
<1>5. OfDevice(g, bus, device) = FlattenSeq(seqs)
  BY Zenon DEF OfDevice
<1>. HIDE DEF seqs
<1>6. /\ FlattenSeq(seqs) \in Seq(FunctionPlaces)
      /\ \A x : x \in ToSet(FlattenSeq(seqs)) <=> \E n \in 1 .. FunctionRange : x \in ToSet(seqs[n])
  BY <1>4, FlattenJoins, Zenon
<1>7. \A x : (\E n \in 1 .. FunctionRange : x \in ToSet(seqs[n])) <=>
             \E function \in 0 .. FunctionRange - 1 : x \in ToSet(OfFunction(g, bus, device, function))
  BY <1>2, <1>4, Zenon
<1>. QED
  BY <1>5, <1>6, <1>7, Zenon

LEMMA BusFinds ==
  ASSUME MachineKnown, NEW bus \in BusNumbers, NEW g, FindsAbove(g, bus)
  PROVE  /\ OfBus(g, bus) \in Seq(FunctionPlaces)
         /\ \A x : x \in ToSet(OfBus(g, bus)) <=>
              \/ x \in OnBus(bus)
              \/ \E f \in OnBus(bus), to \in BusNumbers : Leads(f, to) /\ x \in ToSet(g[to])
<1> DEFINE seqs == [n \in 1 .. DeviceRange |-> OfDevice(g, bus, n - 1)]
<1>1. DeviceRange \in Nat
  BY DiscoveryAssumption
<1>2. /\ \A n \in 1 .. DeviceRange : n - 1 \in 0 .. DeviceRange - 1
      /\ \A n \in 0 .. DeviceRange - 1 : n + 1 \in 1 .. DeviceRange /\ (n + 1) - 1 = n
  BY <1>1
<1>3. \A n \in 1 .. DeviceRange : OfDevice(g, bus, n - 1) \in Seq(FunctionPlaces)
  BY <1>2, DeviceFinds, Zenon
<1>4. seqs \in Seq(Seq(FunctionPlaces)) /\ Len(seqs) = DeviceRange
      /\ \A n \in 1 .. DeviceRange : seqs[n] = OfDevice(g, bus, n - 1)
  BY <1>1, <1>3
<1>5. OfBus(g, bus) = FlattenSeq(seqs)
  BY Zenon DEF OfBus
<1>. HIDE DEF seqs
<1>6. /\ FlattenSeq(seqs) \in Seq(FunctionPlaces)
      /\ \A x : x \in ToSet(FlattenSeq(seqs)) <=> \E n \in 1 .. DeviceRange : x \in ToSet(seqs[n])
  BY <1>4, FlattenJoins, Zenon
<1>7. \A x : (\E n \in 1 .. DeviceRange : x \in ToSet(seqs[n])) <=>
             \E device \in 0 .. DeviceRange - 1 : x \in ToSet(OfDevice(g, bus, device))
  BY <1>2, <1>4, Zenon
<1>8. ASSUME NEW x
      PROVE  (\E device \in 0 .. DeviceRange - 1 : x \in ToSet(OfDevice(g, bus, device)))
              <=> \/ x \in OnBus(bus)
                  \/ \E f \in OnBus(bus), to \in BusNumbers : Leads(f, to) /\ x \in ToSet(g[to])
  <2>1. ASSUME NEW device \in 0 .. DeviceRange - 1, x \in ToSet(OfDevice(g, bus, device))
        PROVE  \/ x \in OnBus(bus)
               \/ \E f \in OnBus(bus), to \in BusNumbers : Leads(f, to) /\ x \in ToSet(g[to])
    <3>1. PICK function \in 0 .. FunctionRange - 1 : x \in ToSet(OfFunction(g, bus, device, function))
      BY <2>1, DeviceFinds, Zenon
    <3>2. /\ Checked(bus, device, function)
          /\ \/ x = <<bus, device, function>>
             \/ \E to \in BusNumbers : Leads(<<bus, device, function>>, to) /\ x \in ToSet(g[to])
      BY <3>1, FunctionFinds, Zenon
    <3>3. <<bus, device, function>> \in OnBus(bus)
      BY <3>2, PlacesTyped, Zenon DEF OnBus
    <3>. QED  BY <3>2, <3>3, Zenon
  <2>2. ASSUME NEW f \in OnBus(bus), x = f \/ \E to \in BusNumbers : Leads(f, to) /\ x \in ToSet(g[to])
        PROVE  \E device \in 0 .. DeviceRange - 1 : x \in ToSet(OfDevice(g, bus, device))
    <3>1. /\ f[2] \in 0 .. DeviceRange - 1 /\ f[3] \in 0 .. FunctionRange - 1
          /\ f = <<bus, f[2], f[3]>> /\ Checked(bus, f[2], f[3])
      BY PlacesSplit, Zenon DEF OnBus
    <3>2. x \in ToSet(OfFunction(g, bus, f[2], f[3]))
      BY <2>2, <3>1, FunctionFinds, Zenon
    <3>3. x \in ToSet(OfDevice(g, bus, f[2]))
      BY <3>1, <3>2, DeviceFinds, Zenon
    <3>. QED  BY <3>1, <3>3, Zenon
  <2>. QED  BY <2>1, <2>2, Zenon
<1>. QED
  BY <1>5, <1>6, <1>7, <1>8, Zenon

\* It depends on the buses above alone.
LEMMA BusAlike ==
  ASSUME MachineKnown, NEW bus \in BusNumbers, NEW g, NEW h,
         \A b \in BusNumbers : b > bus => g[b] = h[b]
  PROVE  OfBus(g, bus) = OfBus(h, bus)
<1>1. ASSUME NEW device, NEW function
      PROVE  OfFunction(g, bus, device, function) = OfFunction(h, bus, device, function)
  <2> DEFINE f == <<bus, device, function>>
             to == machine.functions[f].secondary
             behind == Bridge(f) /\ to > bus
  <2>1. Checked(bus, device, function) => to \in BusNumbers
    BY Zenon DEF MachineKnown, Checked, Present
  <2>2. Checked(bus, device, function) =>
          (IF behind THEN g[to] ELSE <<>>) = (IF behind THEN h[to] ELSE <<>>)
    BY <2>1, Zenon
  <2>3. /\ OfFunction(g, bus, device, function)
             = IF ~Checked(bus, device, function) THEN <<>>
               ELSE <<f>> \o (IF behind THEN g[to] ELSE <<>>)
        /\ OfFunction(h, bus, device, function)
             = IF ~Checked(bus, device, function) THEN <<>>
               ELSE <<f>> \o (IF behind THEN h[to] ELSE <<>>)
    BY Zenon DEF OfFunction
  <2>. HIDE DEF behind, to, f
  <2>. QED  BY <2>2, <2>3
<1>2. ASSUME NEW device PROVE OfDevice(g, bus, device) = OfDevice(h, bus, device)
  <2>1. [n \in 1 .. FunctionRange |-> OfFunction(g, bus, device, n - 1)]
          = [n \in 1 .. FunctionRange |-> OfFunction(h, bus, device, n - 1)]
    BY <1>1, Zenon
  <2>. QED  BY <2>1, Zenon DEF OfDevice
<1>3. [n \in 1 .. DeviceRange |-> OfDevice(g, bus, n - 1)]
        = [n \in 1 .. DeviceRange |-> OfDevice(h, bus, n - 1)]
  BY <1>2, Zenon
<1>. QED
  BY <1>3, Zenon DEF OfBus

\* What holds of a bus when it holds of those above it, holds of all of them.
LEMMA FromAbove ==
  ASSUME NEW S,
         \A b \in BusNumbers : (\A c \in BusNumbers : c > b => c \in S) => b \in S
  PROVE  \A b \in BusNumbers : b \in S
<1> DEFINE K == {k \in 0 .. BusRange : \A b \in BusNumbers : b >= BusRange - k => b \in S}
<1>1. BusRange \in Nat /\ \A b \in BusNumbers : b \in Nat /\ b < BusRange
  BY DiscoveryAssumption DEF BusNumbers
<1>2. 0 \in K
  BY <1>1
<1>3. ASSUME NEW k \in 0 .. BusRange - 1, k \in K
      PROVE  k + 1 \in K
  <2>1. \A b \in BusNumbers : b >= BusRange - k => b \in S
    BY <1>3
  <2>2. ASSUME NEW b \in BusNumbers, b >= BusRange - (k + 1) PROVE b \in S
    <3>1. \A c \in BusNumbers : c > b => c >= BusRange - k
      BY <1>1, <2>2
    <3>. QED  BY <2>1, <3>1, Zenon
  <2>. QED  BY <1>1, <2>2
<1>. HIDE DEF K
<1>4. \A k \in 0 .. BusRange : k \in K
  BY <1>1, <1>2, <1>3, Upward
<1>5. BusRange \in K
  BY <1>1, <1>4
<1>. QED
  BY <1>1, <1>5 DEF K

\* The search ends, so that there is something it finds on each bus.
LEMMA CheckRuns ==
  ASSUME MachineKnown
  PROVE  \E g : g = [bus \in BusNumbers |-> OfBus(g, bus)]
<1> DEFINE T == [BusNumbers -> Seq(FunctionPlaces)]
           F == [x \in (1 .. BusRange) \X T |-> [x[2] EXCEPT ![BusRange - x[1]] = OfBus(x[2], BusRange - x[1])]]
           start == [bus \in BusNumbers |-> <<>>]
<1>1. /\ BusRange \in Nat /\ \A b \in BusNumbers : b \in Nat /\ b < BusRange
      /\ \A k \in 1 .. BusRange : BusRange - k \in BusNumbers
  BY DiscoveryAssumption DEF BusNumbers
<1>2. start \in T
  <2>1. <<>> \in Seq(FunctionPlaces)
    BY EmptySeq
  <2>. QED  BY <2>1
<1>3. ASSUME NEW g \in T, NEW b \in BusNumbers
      PROVE  OfBus(g, b) \in Seq(FunctionPlaces)
  <2>1. FindsAbove(g, b)
    BY DEF FindsAbove
  <2>. QED  BY <2>1, BusFinds, Zenon
<1>4. \A g \in T, b \in BusNumbers : [g EXCEPT ![b] = OfBus(g, b)] \in T
  BY <1>3
<1>5. /\ \A k \in 1 .. BusRange, g \in T :
           F[<<k, g>>] = [g EXCEPT ![BusRange - k] = OfBus(g, BusRange - k)]
      /\ F \in [(1 .. BusRange) \X T -> T]
  <2>1. ASSUME NEW x \in (1 .. BusRange) \X T
        PROVE  [x[2] EXCEPT ![BusRange - x[1]] = OfBus(x[2], BusRange - x[1])] \in T
    <3>1. x[1] \in 1 .. BusRange /\ x[2] \in T
      OBVIOUS
    <3>. HIDE DEF T
    <3>. QED  BY <1>1, <1>4, <3>1, Zenon
  <2>. HIDE DEF T
  <2>2. F \in [(1 .. BusRange) \X T -> T]
    BY <2>1, Zenon
  <2>3. ASSUME NEW k \in 1 .. BusRange, NEW g \in T
        PROVE  F[<<k, g>>] = [g EXCEPT ![BusRange - k] = OfBus(g, BusRange - k)]
    <3>1. <<k, g>> \in (1 .. BusRange) \X T /\ <<k, g>>[1] = k /\ <<k, g>>[2] = g
      BY Zenon
    <3>. QED  BY <3>1, Zenon
  <2>. QED  BY <2>2, <2>3, Zenon
<1>. HIDE DEF F, start
<1>6. PICK h : GoesOn(h, F, start, BusRange, T)
  <2>. HIDE DEF T
  <2>. QED  BY <1>1, <1>2, <1>5, RecursionRuns
<1>7. /\ \A k \in 0 .. BusRange : h[k] \in T
      /\ \A k \in 1 .. BusRange : h[k] = F[<<k, h[k - 1]>>]
  BY <1>6, Zenon DEF GoesOn
<1> DEFINE K == {k \in 0 .. BusRange : \A b \in BusNumbers : b >= BusRange - k => h[k][b] = OfBus(h[k], b)}
<1>8. 0 \in K
  BY <1>1
<1>9. ASSUME NEW k \in 0 .. BusRange - 1, k \in K
      PROVE  k + 1 \in K
  <2> DEFINE new == BusRange - (k + 1)
  <2>1. /\ k + 1 \in 1 .. BusRange /\ k + 1 \in 0 .. BusRange /\ (k + 1) - 1 = k /\ k \in 0 .. BusRange
        /\ new \in BusNumbers
        /\ \A b \in BusNumbers : b > new <=> b >= BusRange - k
        /\ \A b \in BusNumbers : b >= new <=> b = new \/ b > new
        /\ \A b \in BusNumbers : b > new => b # new
        /\ \A b, c \in BusNumbers : b > c /\ c > new => b > new
    BY <1>1 DEF BusNumbers
  <2>2. h[k] \in T /\ h[k + 1] = [h[k] EXCEPT ![new] = OfBus(h[k], new)]
    <3>1. h[k] \in T /\ h[k + 1] = F[<<k + 1, h[k]>>]
      <4>1. h[k + 1] = F[<<k + 1, h[(k + 1) - 1]>>]
        BY <1>7, <2>1, Zenon
      <4>2. (k + 1) - 1 = k /\ h[k] \in T
        BY <1>7, <2>1, Zenon
      <4>. HIDE DEF T, new
      <4>. QED  BY <4>1, <4>2, Zenon
    <3>. HIDE DEF T
    <3>. QED  BY <1>5, <2>1, <3>1, Zenon
  <2>3. \A b \in BusNumbers : b >= BusRange - k => h[k][b] = OfBus(h[k], b)
    BY <1>9
  <2>. HIDE DEF new
  <2>4. /\ h[k + 1][new] = OfBus(h[k], new)
        /\ \A b \in BusNumbers : b # new => h[k + 1][b] = h[k][b]
    BY <2>1, <2>2
  <2>5. ASSUME NEW b \in BusNumbers, b >= new
        PROVE  h[k + 1][b] = OfBus(h[k + 1], b)
    <3>1. \A c \in BusNumbers : c > b => h[k][c] = h[k + 1][c]
      <4>1. \A c \in BusNumbers : c > b => c > new
        BY <2>1, <2>5, Zenon
      <4>. QED  BY <2>1, <2>4, <4>1, Zenon
    <3>2. OfBus(h[k], b) = OfBus(h[k + 1], b)
      BY <3>1, BusAlike, Zenon
    <3>3. CASE b = new
      BY <2>4, <3>2, <3>3, Zenon
    <3>4. CASE b > new
      <4>1. h[k][b] = OfBus(h[k], b) /\ b # new
        BY <2>1, <2>3, <3>4, Zenon
      <4>. QED  BY <2>4, <3>2, <4>1, Zenon
    <3>. QED  BY <2>1, <2>5, <3>3, <3>4, Zenon
  <2>. QED  BY <2>1, <2>5, Zenon DEF new
<1>. HIDE DEF K
<1>10. \A k \in 0 .. BusRange : k \in K
  BY <1>1, <1>8, <1>9, Upward
<1>11. BusRange \in K /\ BusRange \in 0 .. BusRange
  BY <1>1, <1>10
<1>12. \A b \in BusNumbers : b >= BusRange - BusRange
  BY <1>1
<1>13. \A b \in BusNumbers : h[BusRange][b] = OfBus(h[BusRange], b)
  BY <1>11, <1>12, Zenon DEF K
<1>14. h[BusRange] = [bus \in BusNumbers |-> h[BusRange][bus]]
  BY <1>7, <1>11
<1>15. h[BusRange] = [bus \in BusNumbers |-> OfBus(h[BusRange], bus)]
  BY <1>13, <1>14, Zenon
<1>. QED
  BY <1>15, Zenon

LEMMA BusChecked ==
  ASSUME MachineKnown, NEW bus \in BusNumbers
  PROVE  /\ checkBus[bus] \in Seq(FunctionPlaces)
         /\ \A x : x \in ToSet(checkBus[bus]) <=>
              \/ x \in OnBus(bus)
              \/ \E f \in OnBus(bus), to \in BusNumbers : Leads(f, to) /\ x \in ToSet(checkBus[to])
<1> DEFINE IsCheck(g) == g = [b \in BusNumbers |-> OfBus(g, b)]
<1>1. checkBus = CHOOSE g : IsCheck(g)
  BY Zenon DEF checkBus, OfBus, OfDevice, OfFunction
<1>2. \E g : IsCheck(g)
  BY CheckRuns, Zenon
<1>3. IsCheck(checkBus)
  BY <1>1, <1>2, Zenon
<1>4. \A b \in BusNumbers : checkBus[b] = OfBus(checkBus, b)
  BY <1>3, Zenon
<1>. HIDE DEF IsCheck
<1> DEFINE S == {b \in BusNumbers : checkBus[b] \in Seq(FunctionPlaces)}
<1>5. ASSUME NEW b \in BusNumbers, \A c \in BusNumbers : c > b => c \in S
      PROVE  b \in S
  <2>1. FindsAbove(checkBus, b)
    BY <1>5, Zenon DEF FindsAbove
  <2>2. OfBus(checkBus, b) \in Seq(FunctionPlaces)
    BY <2>1, BusFinds, Zenon
  <2>. QED  BY <1>4, <2>2, Zenon
<1>6. \A b \in BusNumbers : b \in S
  <2>. HIDE DEF S
  <2>. QED  BY <1>5, FromAbove, Zenon
<1>7. FindsAbove(checkBus, bus)
  BY <1>6, Zenon DEF FindsAbove
<1>8. \A x : x \in ToSet(OfBus(checkBus, bus)) <=>
        \/ x \in OnBus(bus)
        \/ \E f \in OnBus(bus), to \in BusNumbers : Leads(f, to) /\ x \in ToSet(checkBus[to])
  BY <1>7, BusFinds, Zenon
<1>. QED
  BY <1>4, <1>6, <1>8, Zenon

\* What is found on the buses of the range.
LEMMA FirstChecked ==
  ASSUME MachineKnown
  PROVE  /\ FirstBuses \subseteq BusNumbers
         /\ checkAllBuses \in Seq(FunctionPlaces)
         /\ \A x : x \in ToSet(checkAllBuses) <=> \E b \in FirstBuses : x \in ToSet(checkBus[b])
<1> DEFINE from == machine.from
           last == IF ManyHosts \/ machine.to <= machine.from THEN machine.to ELSE machine.from + 1
           seqs == [n \in 1 .. last - from |-> checkBus[from + n - 1]]
<1>1. /\ from \in Nat /\ machine.to \in Nat /\ from \in BusNumbers /\ machine.to \in BusNumbers
      /\ \A b \in from .. machine.to - 1 : b \in BusNumbers
      /\ last \in Nat
  <2>1. from \in BusNumbers /\ machine.to \in BusNumbers
    BY Zenon DEF MachineKnown
  <2>2. last = machine.to \/ last = from + 1
    BY Zenon
  <2>. HIDE DEF from, last
  <2>. QED  BY <2>1, <2>2, DiscoveryAssumption DEF BusNumbers
<1>2. FirstBuses \subseteq BusNumbers
  BY <1>1, Zenon DEF FirstBuses
<1>3. \A b : b \in FirstBuses <=> \E n \in 1 .. last - from : b = from + n - 1
  <2>1. \A b : b \in FirstBuses <=> b \in from .. machine.to - 1 /\ (ManyHosts \/ b = from)
    BY Zenon DEF FirstBuses
  <2>2. CASE machine.to <= from
    <3>1. last = machine.to
      BY <2>2, Zenon
    <3>2. \A b : b \notin from .. machine.to - 1
      BY <1>1, <2>2
    <3>3. \A n : n \notin 1 .. last - from
      BY <1>1, <2>2, <3>1
    <3>. QED  BY <2>1, <3>2, <3>3, Zenon
  <2>3. CASE ~(machine.to <= from) /\ ManyHosts
    <3>1. last = machine.to
      BY <2>3, Zenon
    <3>2. \A b \in from .. machine.to - 1 : b - from + 1 \in 1 .. last - from /\ b = from + (b - from + 1) - 1
      BY <1>1, <3>1
    <3>3. \A n \in 1 .. last - from : from + n - 1 \in from .. machine.to - 1
      BY <1>1, <3>1
    <3>. HIDE DEF last, from
    <3>. QED  BY <2>1, <2>3, <3>2, <3>3, Zenon
  <2>4. CASE ~(machine.to <= from) /\ ~ManyHosts
    <3>1. last = from + 1
      BY <2>4, Zenon
    <3>2. from \in from .. machine.to - 1
      BY <1>1, <2>4
    <3>3. \A n : n \in 1 .. last - from <=> n = 1
      BY <1>1, <3>1
    <3>. HIDE DEF last, from
    <3>4. \A b : (\E n \in 1 .. last - from : b = from + n - 1) <=> b = from
      BY <1>1, <3>3
    <3>. QED  BY <2>1, <2>4, <3>2, <3>4, Zenon
  <2>. QED  BY <2>2, <2>3, <2>4, Zenon
<1>4. \A n \in 1 .. last - from : from + n - 1 \in FirstBuses /\ from + n - 1 \in BusNumbers
  BY <1>2, <1>3, Zenon
<1>5. checkAllBuses = FlattenSeq(seqs)
  BY Zenon DEF checkAllBuses
<1>6. \A n \in 1 .. last - from : checkBus[from + n - 1] \in Seq(FunctionPlaces)
  BY <1>4, BusChecked, Zenon
<1>. HIDE DEF last, from
<1>7. /\ seqs \in Seq(Seq(FunctionPlaces))
      /\ \A n : n \in 1 .. Len(seqs) <=> n \in 1 .. last - from
      /\ \A n \in 1 .. last - from : seqs[n] = checkBus[from + n - 1]
  <2>1. CASE last - from \in Nat
    <3>1. Len(seqs) = last - from
      BY <2>1
    <3>2. seqs \in Seq(Seq(FunctionPlaces))
      BY <1>6, <2>1
    <3>3. \A n \in 1 .. last - from : seqs[n] = checkBus[from + n - 1]
      BY Zenon
    <3>. QED  BY <3>1, <3>2, <3>3, Zenon
  <2>2. CASE last - from \notin Nat
    <3>1. 1 .. last - from = {}
      BY <1>1, <2>2
    <3>2. seqs = <<>>
      BY <3>1
    <3>3. <<>> \in Seq(Seq(FunctionPlaces)) /\ Len(<<>>) = 0 /\ 1 .. 0 = {}
      BY EmptySeq
    <3>. HIDE DEF seqs
    <3>. QED  BY <3>1, <3>2, <3>3
  <2>. QED  BY <2>1, <2>2, Zenon
<1>. HIDE DEF seqs
<1>8. /\ FlattenSeq(seqs) \in Seq(FunctionPlaces)
      /\ \A x : x \in ToSet(FlattenSeq(seqs)) <=> \E n \in 1 .. Len(seqs) : x \in ToSet(seqs[n])
  BY <1>7, FlattenJoins, Zenon
<1>9. \A x : (\E n \in 1 .. Len(seqs) : x \in ToSet(seqs[n])) <=> \E b \in FirstBuses : x \in ToSet(checkBus[b])
  BY <1>3, <1>7, Zenon
<1>. QED
  BY <1>2, <1>5, <1>8, <1>9, Zenon

\* The functions on the buses that can be reached.
OnReached ==
  {f \in DOMAIN machine.functions :
     /\ f[1] \in Reached
     /\ Present(<<f[1], f[2], 0>>)
     /\ f[3] = 0 \/ Multi(<<f[1], f[2], 0>>)}

\* The search finds what is on the buses that can be reached, and nothing else:
\* a set of buses that holds the first and those behind its own holds all buses
\* looked at, and the buses of which everything is found are such a set.
LEMMA AllFound ==
  ASSUME MachineKnown
  PROVE  ToSet(checkAllBuses) = OnReached
<1> DEFINE Closed(buses) ==
             buses \in SUBSET BusNumbers /\ FirstBuses \subseteq buses /\ Behind(buses) \subseteq buses
<1>1. \A b : b \in Reached <=> b \in BusNumbers /\ \A buses : Closed(buses) => b \in buses
  BY Zenon DEF Reached
<1>2. \A b, x : x \in OnBus(b) <=> x \in FunctionPlaces /\ x[1] = b /\ Checked(x[1], x[2], x[3])
  BY Zenon DEF OnBus
<1>3. \A f \in FunctionPlaces :
        Checked(f[1], f[2], f[3]) <=>
          /\ f \in DOMAIN machine.functions /\ Present(<<f[1], f[2], 0>>)
          /\ f[3] = 0 \/ Multi(<<f[1], f[2], 0>>)
  BY PlacesSplit, Zenon DEF Checked, Present
<1>4. \A x : x \in OnReached <=> \E b \in Reached : x \in OnBus(b)
  <2>1. DOMAIN machine.functions \subseteq FunctionPlaces
    BY Zenon DEF MachineKnown
  <2>. QED  BY <1>2, <1>3, <2>1, Zenon DEF OnReached
<1>5. \A f, to, buses, b : f \in OnBus(b) /\ b \in buses /\ Leads(f, to) => to \in Behind(buses) /\ to > b
  <2>1. ASSUME NEW f, NEW to, NEW buses, NEW b, f \in OnBus(b), b \in buses, Leads(f, to)
        PROVE  to \in Behind(buses) /\ to > b
    <3>1. f \in DOMAIN machine.functions /\ Checked(f[1], f[2], f[3]) /\ f[1] = b
      BY <1>2, <1>3, <2>1, Zenon
    <3>. QED  BY <2>1, <3>1, Zenon DEF Behind, Leads
  <2>. QED  BY <2>1, Zenon
<1>6. ASSUME NEW buses, NEW to \in Behind(buses)
      PROVE  \E b \in buses : \E f \in OnBus(b) : Leads(f, to) /\ b \in BusNumbers /\ to \in BusNumbers
  <2>1. PICK f \in DOMAIN machine.functions :
               /\ to = machine.functions[f].secondary
               /\ f[1] \in buses /\ Bridge(f) /\ Checked(f[1], f[2], f[3])
               /\ machine.functions[f].secondary > f[1]
    BY <1>6, Zenon DEF Behind
  <2>2. f \in FunctionPlaces /\ to \in BusNumbers
    BY <2>1, Zenon DEF MachineKnown
  <2>3. f[1] \in BusNumbers
    BY <2>2, PlacesSplit, Zenon
  <2>. QED  BY <1>2, <2>1, <2>2, <2>3, Zenon DEF Leads
<1>7. ASSUME NEW x, x \in ToSet(checkAllBuses) PROVE x \in OnReached
  <2>1. ASSUME NEW buses, Closed(buses)
        PROVE  x[1] \in buses /\ x[1] \in BusNumbers /\ x \in OnBus(x[1])
    <3> DEFINE S == {b \in BusNumbers : b \in buses /\ x \in ToSet(checkBus[b])
                                         => x[1] \in buses /\ x[1] \in BusNumbers /\ x \in OnBus(x[1])}
    <3>1. ASSUME NEW b \in BusNumbers, \A c \in BusNumbers : c > b => c \in S
          PROVE  b \in S
      <4>1. ASSUME b \in buses, x \in ToSet(checkBus[b])
            PROVE  x[1] \in buses /\ x[1] \in BusNumbers /\ x \in OnBus(x[1])
        <5>1. CASE x \in OnBus(b)
          BY <1>2, <4>1, <5>1, Zenon
        <5>2. CASE \E f \in OnBus(b), to \in BusNumbers : Leads(f, to) /\ x \in ToSet(checkBus[to])
          <6>1. PICK f \in OnBus(b), to \in BusNumbers : Leads(f, to) /\ x \in ToSet(checkBus[to])
            BY <5>2, Zenon
          <6>2. to \in Behind(buses) /\ to > b
            BY <1>5, <4>1, <6>1, Zenon
          <6>3. to \in buses /\ to \in S
            BY <2>1, <3>1, <6>2, Zenon
          <6>. QED  BY <6>1, <6>3, Zenon
        <5>. QED  BY <4>1, <5>1, <5>2, BusChecked, Zenon
      <4>. QED  BY <4>1, Zenon
    <3>. HIDE DEF S
    <3>2. \A b \in BusNumbers : b \in S
      BY <3>1, FromAbove, Zenon
    <3>3. PICK b \in FirstBuses : x \in ToSet(checkBus[b])
      BY <1>7, FirstChecked, Zenon
    <3>4. b \in buses /\ b \in BusNumbers
      BY <2>1, <3>3, FirstChecked, Zenon
    <3>. QED  BY <3>2, <3>3, <3>4, Zenon DEF S
  <2>2. Closed(BusNumbers)
    <3>1. Behind(BusNumbers) \subseteq BusNumbers
      BY <1>6, Zenon
    <3>. QED  BY <3>1, FirstChecked, Zenon
  <2>. QED  BY <1>1, <1>4, <2>1, <2>2, Zenon
<1>8. ASSUME NEW x, x \in OnReached PROVE x \in ToSet(checkAllBuses)
  <2> DEFINE B == {b \in BusNumbers : ToSet(checkBus[b]) \subseteq ToSet(checkAllBuses)}
  <2>1. FirstBuses \subseteq B
    BY FirstChecked, Zenon
  <2>2. Behind(B) \subseteq B
    <3>1. ASSUME NEW to \in Behind(B) PROVE to \in B
      <4>1. PICK b \in B : \E f \in OnBus(b) : Leads(f, to) /\ b \in BusNumbers /\ to \in BusNumbers
        BY <1>6, <3>1, Zenon
      <4>2. ToSet(checkBus[to]) \subseteq ToSet(checkBus[b])
        BY <4>1, BusChecked, Zenon
      <4>. QED  BY <4>1, <4>2, Zenon
    <3>. QED  BY <3>1, Zenon
  <2>3. Closed(B)
    BY <2>1, <2>2, Zenon
  <2>4. PICK b \in Reached : x \in OnBus(b)
    BY <1>4, <1>8, Zenon
  <2>5. b \in B /\ b \in BusNumbers
    BY <1>1, <2>3, <2>4, Zenon
  <2>. QED  BY <2>4, <2>5, BusChecked, Zenon
<1>. QED
  BY <1>7, <1>8, Zenon

\* What can be reached depends on the machine alone.
LEMMA SameMachine ==
  ASSUME machine' = machine
  PROVE  OnReached' = OnReached /\ (find_acpi' <=> find_acpi) /\ (MachineKnown' <=> MachineKnown)
<1>1. /\ \A f : Present(f)' <=> Present(f)
      /\ \A f : Multi(f)' <=> Multi(f)
      /\ \A f : Bridge(f)' <=> Bridge(f)
  BY Zenon DEF Present, Multi, Bridge
<1>2. /\ \A b, d, f : Checked(b, d, f)' <=> Checked(b, d, f)
      /\ ManyHosts' <=> ManyHosts
  BY <1>1, Zenon DEF Checked, ManyHosts
<1>3. FirstBuses' = FirstBuses
  BY <1>2, Zenon DEF FirstBuses
<1>4. \A buses : Behind(buses)' = Behind(buses)
  BY <1>1, <1>2, Zenon DEF Behind
<1>5. Reached' = Reached
  BY <1>3, <1>4, Zenon DEF Reached
<1>6. OnReached' = OnReached
  BY <1>1, <1>5, Zenon DEF OnReached
<1>7. find_acpi' <=> find_acpi
  BY DEF find_acpi, Scanned
<1>8. MachineKnown' <=> MachineKnown
  BY Zenon DEF MachineKnown
<1>. QED
  BY <1>6, <1>7, <1>8, Zenon

\* The ids of the processors are those of entries.
LEMMA IdsTyped ==
  ASSUME NEW I, NEW items \in Seq([type : Nat, id : I])
  PROVE  LocalIds(items) \in Seq(I)
<1> DEFINE m == Len(items)
           A == Seq(I)
           Next(c, i) == IF items[i].type = 0 THEN Append(c, items[i].id) ELSE c
           IsIn(h) == h = [n \in 0 .. m |-> IF n = 0 THEN <<>>
                                             ELSE IF items[n].type = 0 THEN Append(h[n - 1], items[n].id)
                                             ELSE h[n - 1]]
           F == [x \in (1 .. m) \X A |-> Next(x[2], x[1])]
           ids == CHOOSE h : IsIn(h)
<1>1. m \in Nat /\ \A i \in 1 .. m : items[i].id \in I
  <2>1. m \in Nat /\ \A i \in 1 .. m : items[i] \in [type : Nat, id : I]
    BY LenProperties, Zenon
  <2>2. \A e \in [type : Nat, id : I] : e.id \in I
    OBVIOUS
  <2>. QED  BY <2>1, <2>2, Zenon
<1>2. <<>> \in A
  BY EmptySeq
<1>. HIDE DEF m
<1>3. \A i \in 1 .. m, c \in A : Next(c, i) \in A
  BY <1>1, AppendProperties
<1>4. F \in [(1 .. m) \X A -> A]
  <2>. HIDE DEF Next, A
  <2>. QED  BY <1>3
<1>5. \A i \in 1 .. m, c \in A : F[<<i, c>>] = Next(c, i)
  <2>. HIDE DEF Next, A
  <2>. QED  OBVIOUS
<1>. HIDE DEF F, A
<1>6. PICK h : GoesOn(h, F, <<>>, m, A)
  BY <1>1, <1>2, <1>4, RecursionRuns
<1>7. IsIn(h)
  <2>1. ASSUME NEW n \in 0 .. m
        PROVE  h[n] = IF n = 0 THEN <<>> ELSE Next(h[n - 1], n)
    <3>1. CASE n = 0
      BY <1>6, <3>1 DEF GoesOn
    <3>2. CASE n # 0
      <4>1. n \in 1 .. m /\ n - 1 \in 0 .. m
        BY <1>1, <3>2
      <4>. HIDE DEF Next
      <4>. QED  BY <1>5, <1>6, <3>2, <4>1 DEF GoesOn
    <3>. QED  BY <3>1, <3>2
  <2>2. h = [n \in 0 .. m |-> h[n]]
    BY <1>6 DEF GoesOn
  <2>. QED  BY <2>1, <2>2, Zenon
<1>8. IsIn(ids)
  BY <1>7, Zenon
<1>9. LocalIds(items) = ids[m]
  BY Zenon DEF LocalIds, ids, m
<1>. HIDE DEF ids
<1>10. \A n \in 0 .. m : ids[n] = IF n = 0 THEN <<>> ELSE Next(ids[n - 1], n)
  BY <1>8, Zenon
<1>. HIDE DEF IsIn, Next
<1> DEFINE S == {n \in 0 .. m : ids[n] \in A}
<1>11. 0 \in S
  BY <1>1, <1>2, <1>10
<1>12. ASSUME NEW k \in 0 .. m - 1, k \in S PROVE k + 1 \in S
  <2>1. k + 1 \in 1 .. m /\ k + 1 \in 0 .. m /\ k + 1 # 0 /\ (k + 1) - 1 = k
    BY <1>1
  <2>2. ids[k + 1] = Next(ids[(k + 1) - 1], k + 1)
    BY <1>10, <2>1, Zenon
  <2>3. ids[k + 1] = Next(ids[k], k + 1)
    BY <2>1, <2>2
  <2>. QED  BY <1>3, <1>12, <2>1, <2>3
<1>. HIDE DEF S
<1>13. \A n \in 0 .. m : n \in S
  BY <1>1, <1>11, <1>12, Upward
<1>14. m \in S
  BY <1>1, <1>13
<1>. QED
  BY <1>9, <1>14, Zenon DEF S, A

\* The ids are the numbers of the entries.
CountedFromZero(ids) == Len(ids) > 0 /\ \A i \in 1 .. Len(ids) : ids[i] = i - 1

LEMMA NumberedMeans ==
  ASSUME NEW A, NEW ids \in Seq(A)
  PROVE  /\ (ids # <<>> /\ ids = [i \in 1 .. Len(ids) |-> i - 1]) <=> CountedFromZero(ids)
         /\ CountedFromZero(ids) => /\ \A id : id \in ToSet(ids) <=> id \in 0 .. Len(ids) - 1
                                    /\ ids[1] = 0
<1>1. Len(ids) \in Nat /\ DOMAIN ids = 1 .. Len(ids) /\ (Len(ids) = 0 <=> ids = <<>>)
  BY EmptySeq, LenProperties
<1>2. ids = [i \in 1 .. Len(ids) |-> ids[i]]
  <2>1. ids \in [1 .. Len(ids) -> A]
    BY LenProperties, Zenon
  <2>. QED  BY <2>1, Zenon
<1>3. (ids # <<>> /\ ids = [i \in 1 .. Len(ids) |-> i - 1]) => CountedFromZero(ids)
  <2>1. ASSUME ids # <<>>, ids = [i \in 1 .. Len(ids) |-> i - 1] PROVE CountedFromZero(ids)
    <3>1. \A i \in 1 .. Len(ids) : ids[i] = i - 1
      BY <2>1, Zenon
    <3>. QED  BY <1>1, <2>1, <3>1 DEF CountedFromZero
  <2>. QED  BY <2>1, Zenon
<1>4. CountedFromZero(ids) => ids # <<>> /\ ids = [i \in 1 .. Len(ids) |-> i - 1]
  <2>1. ASSUME CountedFromZero(ids) PROVE ids # <<>> /\ ids = [i \in 1 .. Len(ids) |-> i - 1]
    <3>1. Len(ids) # 0 /\ \A i \in 1 .. Len(ids) : ids[i] = i - 1
      BY <1>1, <2>1 DEF CountedFromZero
    <3>. QED  BY <1>1, <1>2, <3>1, Zenon
  <2>. QED  BY <2>1, Zenon
<1>5. ASSUME CountedFromZero(ids)
      PROVE  (\A id : id \in ToSet(ids) <=> id \in 0 .. Len(ids) - 1) /\ ids[1] = 0
  <2>1. \A id : id \in ToSet(ids) <=> \E i \in 1 .. Len(ids) : ids[i] = id
    BY <1>1 DEF ToSet
  <2>2. Len(ids) > 0 /\ \A i \in 1 .. Len(ids) : ids[i] = i - 1
    BY <1>5 DEF CountedFromZero
  <2>3. \A id : (\E i \in 1 .. Len(ids) : ids[i] = id) <=> \E i \in 1 .. Len(ids) : i - 1 = id
    BY <2>2, Zenon
  <2>4. \A id : (\E i \in 1 .. Len(ids) : i - 1 = id) <=> id \in 0 .. Len(ids) - 1
    <3>1. ASSUME NEW id \in 0 .. Len(ids) - 1 PROVE id + 1 \in 1 .. Len(ids) /\ (id + 1) - 1 = id
      BY <1>1
    <3>2. ASSUME NEW i \in 1 .. Len(ids) PROVE i - 1 \in 0 .. Len(ids) - 1
      BY <1>1
    <3>. QED  BY <3>1, <3>2, Zenon
  <2>5. ids[1] = 0
    BY <1>1, <2>2
  <2>. QED  BY <2>1, <2>3, <2>4, <2>5, Zenon
<1>. QED
  BY <1>3, <1>4, <1>5, Zenon

-----------------------------------------------------------------------------
(***************************************************************************)
(* initialize_acpi: once the buses are checked it has found what is on     *)
(* those that can be reached; of processors numbered from 0 the one that   *)
(* runs this does so, those that were sent an INIT are reset, and those    *)
(* that were sent a STARTUP run.                                           *)
(***************************************************************************)
Entered == LocalIds(machine.entries)

Starting ==
  CountedFromZero(core_ids) =>
    /\ processor[machine.bsp] = "runs"
    /\ stage_of = "init" =>
         \A id \in DOMAIN processor : id # machine.bsp /\ id < core => processor[id] = "reset"
    /\ stage_of = "startup" =>
         \A id \in DOMAIN processor :
           processor[id] = IF id = machine.bsp \/ id < core THEN "runs" ELSE "reset"
    /\ stage_of = "done" => \A id \in DOMAIN processor : processor[id] = "runs"

DiscoveryInv ==
  /\ MachineKnown
  /\ stage_of \in {"scan", "buses", "apics", "init", "startup", "done", "overrun"}
  /\ core_ids \in Seq(CoreIds)
  /\ stage_of \in {"scan", "buses", "apics", "overrun"} => core_ids = <<>>
  /\ core_ids = <<>> => processor[machine.bsp] = "runs"
  /\ core_ids # <<>> => ToSet(Entered) \subseteq ToSet(core_ids)
  /\ core \in 0 .. Len(core_ids)
  /\ DOMAIN processor = Ids
  /\ stage_of \in {"apics", "init", "startup"} \/ (stage_of = "done" /\ find_acpi)
       => ToSet(found) = OnReached
  /\ Starting

LEMMA NotCounted == ~CountedFromZero(<<>>)
BY EmptySeq DEF CountedFromZero

LEMMA DiscoveryStarts ==
  DiscoveryInit => DiscoveryInv
<1>. SUFFICES ASSUME DiscoveryInit PROVE DiscoveryInv
  OBVIOUS
<1>1. /\ machine \in Machines /\ stage_of = "scan" /\ core_ids = <<>> /\ core = 0
      /\ processor = [id \in Ids |-> IF id = machine.bsp THEN "runs" ELSE "waits"]
  BY Zenon DEF DiscoveryInit
<1>2. MachineKnown
  BY <1>1, DiscoveryAssumption, Zenon DEF MachineKnown, FunctionPlaces
<1>3. processor[machine.bsp] = "runs" /\ DOMAIN processor = Ids
  <2>1. machine.bsp \in Ids
    BY DEF Ids
  <2>. QED  BY <1>1, <2>1, Zenon
<1>4. Starting
  BY <1>1, NotCounted, Zenon DEF Starting
<1>5. core_ids \in Seq(CoreIds) /\ core \in 0 .. Len(core_ids)
  <2>1. Len(<<>>) = 0 /\ 0 \in 0 .. 0 /\ <<>> \in Seq(CoreIds)
    BY EmptySeq
  <2>. QED  BY <1>1, <2>1
<1>. QED
  BY <1>1, <1>2, <1>3, <1>4, <1>5 DEF DiscoveryInv

LEMMA DiscoveryStep ==
  DiscoveryInv /\ [DiscoveryNext]_discovery_vars => DiscoveryInv'
<1>. SUFFICES ASSUME DiscoveryInv, [DiscoveryNext]_discovery_vars PROVE DiscoveryInv'
  OBVIOUS
<1> DEFINE bsp == machine.bsp
<1>1. /\ MachineKnown
      /\ core_ids \in Seq(CoreIds)
      /\ stage_of \in {"scan", "buses", "apics", "overrun"} => core_ids = <<>>
      /\ core_ids = <<>> => processor[bsp] = "runs"
      /\ core_ids # <<>> => ToSet(Entered) \subseteq ToSet(core_ids)
      /\ core \in 0 .. Len(core_ids)
      /\ DOMAIN processor = Ids
      /\ stage_of \in {"apics", "init", "startup"} \/ (stage_of = "done" /\ find_acpi)
           => ToSet(found) = OnReached
      /\ Starting
      /\ stage_of \in {"scan", "buses", "apics", "init", "startup", "done", "overrun"}
  BY Zenon DEF DiscoveryInv
<1>2. machine' = machine
  BY Zenon DEF DiscoveryNext, Scan, CheckBuses, CheckAPICs, SendInit, AllReset, SendStartup,
               Discovered, StageGoes, discovery_vars
<1>3. /\ OnReached' = OnReached /\ (find_acpi' <=> find_acpi) /\ MachineKnown'
      /\ Entered' = Entered /\ Ids' = Ids /\ bsp' = bsp
  BY <1>1, <1>2, SameMachine, Zenon DEF Entered, Ids
<1>4. /\ Entered \in Seq(CoreIds) /\ Len(core_ids) \in Nat
      /\ bsp \in Nat /\ CoreIds \subseteq Nat
  <2>1. Entered \in Seq(CoreIds)
    BY <1>1, IdsTyped, Zenon DEF MachineKnown, Entered
  <2>2. bsp \in Nat /\ CoreIds \subseteq Nat
    BY <1>1 DEF MachineKnown
  <2>. QED  BY <1>1, <2>1, <2>2, LenProperties, Zenon
<1>5. \A id \in DOMAIN processor : id \in Nat
  <2>1. \A id \in ToSet(Entered) : id \in CoreIds
    <3>1. \A i \in DOMAIN Entered : Entered[i] \in CoreIds
      BY <1>4
    <3>. QED  BY <3>1 DEF ToSet
  <2>. QED  BY <1>1, <1>4, <2>1 DEF Ids, Entered
<1>6. CountedFromZero(core_ids) =>
        /\ \A id \in DOMAIN processor : id # bsp => id \in 0 .. Len(core_ids) - 1
        /\ \A i \in 1 .. Len(core_ids) : core_ids[i] = i - 1
  <2>1. ASSUME CountedFromZero(core_ids), NEW id \in DOMAIN processor, id # bsp
        PROVE  id \in 0 .. Len(core_ids) - 1
    <3>1. core_ids # <<>>
      BY <2>1, NotCounted
    <3>2. id \in ToSet(Entered)
      BY <1>1, <2>1 DEF Ids, Entered
    <3>3. id \in ToSet(core_ids)
      BY <1>1, <3>1, <3>2
    <3>. QED  BY <1>1, <2>1, <3>3, NumberedMeans, Zenon
  <2>. QED  BY <2>1, Zenon DEF CountedFromZero
<1>7. CountedFromZero(core_ids) =>
        /\ processor[bsp] = "runs"
        /\ stage_of = "init" => \A id \in DOMAIN processor : id # bsp /\ id < core => processor[id] = "reset"
        /\ stage_of = "startup" =>
             \A id \in DOMAIN processor : processor[id] = IF id = bsp \/ id < core THEN "runs" ELSE "reset"
        /\ stage_of = "done" => \A id \in DOMAIN processor : processor[id] = "runs"
  BY <1>1, Zenon DEF Starting
<1>. HIDE DEF bsp
<1>8. ASSUME core_ids' = core_ids, DOMAIN processor' = DOMAIN processor, core' \in 0 .. Len(core_ids),
             stage_of' \in {"init", "startup", "done"}, ToSet(found)' = OnReached', core_ids # <<>>, Starting'
      PROVE  DiscoveryInv'
  <2>1. /\ stage_of' \in {"scan", "buses", "apics", "init", "startup", "done", "overrun"}
        /\ ~(stage_of' \in {"scan", "buses", "apics", "overrun"})
    BY <1>8
  <2>2. core' \in 0 .. Len(core_ids')
    BY <1>8, Zenon
  <2>3. core_ids' \in Seq(CoreIds) /\ ToSet(Entered)' \subseteq ToSet(core_ids)'
    BY <1>1, <1>3, <1>8
  <2>4. DOMAIN processor' = Ids'
    BY <1>1, <1>3, <1>8
  <2>. QED  BY <1>1, <1>3, <1>8, <2>1, <2>2, <2>3, <2>4, Zenon DEF DiscoveryInv
<1>9. ASSUME Starting', processor' = processor, core_ids' = core_ids, core' = core,
             stage_of' \in {"scan", "buses", "apics", "init", "startup", "done", "overrun"},
             stage_of' \in {"scan", "buses", "apics", "overrun"} => core_ids = <<>>,
             stage_of' \in {"apics", "init", "startup"} \/ (stage_of' = "done" /\ find_acpi)
               => ToSet(found)' = OnReached
      PROVE  DiscoveryInv'
  <2>1. core_ids' = <<>> => processor'[machine'.bsp] = "runs"
    BY <1>1, <1>2, <1>9 DEF bsp
  <2>2. core' \in 0 .. Len(core_ids') /\ core_ids' \in Seq(CoreIds) /\ DOMAIN processor' = Ids'
        /\ (core_ids' # <<>> => ToSet(Entered)' \subseteq ToSet(core_ids)')
    BY <1>1, <1>3, <1>9
  <2>. QED  BY <1>1, <1>3, <1>9, <2>1, <2>2, Zenon DEF DiscoveryInv
<1>10. CASE Scan
  <2>1. /\ stage_of = "scan" /\ (stage_of' = "buses" \/ (stage_of' = "done" /\ ~find_acpi))
        /\ core_ids' = core_ids /\ core' = core /\ processor' = processor
    BY <1>10, Zenon DEF Scan, StageGoes
  <2>2. core_ids = <<>> /\ Starting'
    BY <1>1, <2>1, NotCounted DEF Starting
  <2>3. /\ stage_of' \in {"scan", "buses", "apics", "init", "startup", "done", "overrun"}
        /\ ~(stage_of' \in {"apics", "init", "startup"}) /\ (stage_of' = "done" => ~find_acpi)
    BY <2>1
  <2>. QED  BY <1>9, <2>1, <2>2, <2>3, Zenon
<1>11. CASE CheckBuses
  <2>1. /\ stage_of = "buses" /\ stage_of' \in {"apics", "done"} /\ found' = checkAllBuses
        /\ core_ids' = core_ids /\ core' = core /\ processor' = processor
    BY <1>11, Zenon DEF CheckBuses, StageGoes
  <2>2. ToSet(found)' = OnReached
    BY <1>1, <2>1, AllFound, Zenon
  <2>3. core_ids = <<>> /\ Starting'
    BY <1>1, <2>1, NotCounted DEF Starting
  <2>4. stage_of' \in {"scan", "buses", "apics", "init", "startup", "done", "overrun"}
    BY <2>1
  <2>. QED  BY <1>9, <2>1, <2>2, <2>3, <2>4, Zenon
<1>12. CASE CheckAPICs
  <2>1. /\ stage_of = "apics" /\ found' = found /\ core' = 0 /\ processor' = processor
        /\ \/ stage_of' = "overrun" /\ core_ids' = <<>>
           \/ stage_of' = "init" /\ Entered = <<>> /\ \E id \in CoreIds : core_ids' = <<id>>
           \/ stage_of' = "init" /\ Entered # <<>> /\ core_ids' = Entered
    BY <1>12 DEF CheckAPICs, StageGoes, Entered
  <2>2. /\ core_ids = <<>> /\ processor[bsp] = "runs"
    BY <1>1, <2>1
  <2>3. core_ids' \in Seq(CoreIds) /\ 0 \in 0 .. Len(core_ids')
    <3>1. <<>> \in Seq(CoreIds) /\ \A id \in CoreIds : <<id>> \in Seq(CoreIds)
      OBVIOUS
    <3>2. core_ids' \in Seq(CoreIds)
      BY <1>4, <2>1, <3>1, Zenon
    <3>. QED  BY <3>2, LenProperties
  <2>4. core_ids' # <<>> => ToSet(Entered) \subseteq ToSet(core_ids')
    BY <2>1 DEF ToSet
  <2>5. \A id \in DOMAIN processor : ~(id < 0)
    BY <1>5
  <2>6. Starting'
    BY <1>3, <2>1, <2>2, <2>5 DEF Starting, bsp
  <2>7. ToSet(found)' = OnReached
    BY <1>1, <2>1
  <2>8. /\ stage_of' \in {"init", "overrun"}
        /\ stage_of' \in {"scan", "buses", "apics", "overrun"} => core_ids' = <<>>
    BY <2>1
  <2>9. core_ids' = <<>> => processor'[machine'.bsp] = "runs"
    BY <1>2, <2>1, <2>2 DEF bsp
  <2>10. core' \in 0 .. Len(core_ids') /\ DOMAIN processor' = Ids'
    BY <1>1, <1>3, <2>1, <2>3
  <2>11. stage_of' \in {"scan", "buses", "apics", "init", "startup", "done", "overrun"}
    BY <2>8
  <2>12. core_ids' # <<>> => ToSet(Entered)' \subseteq ToSet(core_ids)'
    BY <1>3, <2>4
  <2>. QED  BY <1>3, <2>3, <2>6, <2>7, <2>8, <2>9, <2>10, <2>11, <2>12, Zenon DEF DiscoveryInv
<1>13. CASE SendInit
  <2>1. /\ stage_of = "init" /\ stage_of' = "init" /\ found' = found /\ core_ids' = core_ids
        /\ core < Len(core_ids) /\ core' = core + 1
        /\ processor' = IF core_ids[core + 1] = bsp THEN processor ELSE Sent(core, "reset")
    BY <1>13, Zenon DEF SendInit, StageGoes, bsp
  <2>2. core \in 0 .. Len(core_ids) - 1 /\ core_ids # <<>>
    BY <1>1, <1>4, <2>1, EmptySeq
  <2>3. DOMAIN processor' = DOMAIN processor
    BY <2>1 DEF Sent
  <2>4. Starting'
    <3>1. ASSUME CountedFromZero(core_ids)
          PROVE  /\ processor'[bsp] = "runs"
                 /\ \A id \in DOMAIN processor' : id # bsp /\ id < core' => processor'[id] = "reset"
      <4>1. core_ids[core + 1] = core
        <5>1. core + 1 \in 1 .. Len(core_ids) /\ (core + 1) - 1 = core
          BY <1>4, <2>2
        <5>. QED  BY <1>6, <3>1, <5>1
      <4>2. processor' = IF core = bsp \/ core \notin DOMAIN processor THEN processor
                         ELSE [processor EXCEPT ![core] = "reset"]
        BY <2>1, <4>1, Zenon DEF Sent
      <4>3. processor'[bsp] = "runs"
        BY <1>7, <3>1, <4>2
      <4>4. \A id \in DOMAIN processor : id # bsp /\ id < core => processor[id] = "reset"
        BY <1>7, <2>1, <3>1, Zenon
      <4>5. ASSUME NEW id \in DOMAIN processor, id # bsp, id < core + 1
            PROVE  processor'[id] = "reset"
        <5>1. id = core \/ id < core
          BY <1>5, <2>2, <4>5
        <5>. QED  BY <4>2, <4>4, <4>5, <5>1
      <4>. QED  BY <2>1, <2>3, <4>3, <4>5, Zenon
    <3>2. stage_of' # "startup" /\ stage_of' # "done"
      BY <2>1
    <3>. QED  BY <1>3, <2>1, <3>1, <3>2, Zenon DEF Starting, bsp
  <2>5. core' \in 0 .. Len(core_ids)
    BY <1>4, <2>1, <2>2
  <2>6. ToSet(found)' = OnReached'
    BY <1>1, <1>3, <2>1
  <2>. QED  BY <1>8, <2>1, <2>2, <2>3, <2>4, <2>5, <2>6, Zenon
<1>14. CASE AllReset
  <2>1. /\ stage_of = "init" /\ stage_of' = "startup" /\ found' = found /\ core_ids' = core_ids
        /\ core = Len(core_ids) /\ core' = 0 /\ processor' = processor
    BY <1>14, Zenon DEF AllReset, StageGoes
  <2>2. Starting'
    <3>1. ASSUME CountedFromZero(core_ids), NEW id \in DOMAIN processor
          PROVE  processor[id] = IF id = bsp \/ id < 0 THEN "runs" ELSE "reset"
      <4>1. id = bsp \/ (id < core /\ ~(id < 0) /\ id # bsp)
        BY <1>4, <1>6, <2>1, <3>1
      <4>2. ~(id < 0)
        BY <1>5
      <4>. QED  BY <1>7, <2>1, <3>1, <4>1, <4>2, Zenon
    <3>2. stage_of' # "init" /\ stage_of' # "done"
      BY <2>1
    <3>. QED  BY <1>3, <1>7, <2>1, <3>1, <3>2, Zenon DEF Starting, bsp
  <2>3. core' \in 0 .. Len(core_ids)
    BY <1>4, <2>1
  <2>4. ToSet(found)' = OnReached'
    BY <1>1, <1>3, <2>1
  <2>5. core_ids = <<>> => Starting' /\ DiscoveryInv'
    BY <1>1, <1>3, <1>9, <2>1, <2>2, <2>4, EmptySeq
  <2>. QED  BY <1>8, <2>1, <2>2, <2>3, <2>4, <2>5, Zenon
<1>15. CASE SendStartup
  <2>1. /\ stage_of = "startup" /\ stage_of' = "startup" /\ found' = found /\ core_ids' = core_ids
        /\ core < Len(core_ids) /\ core' = core + 1
        /\ processor' = IF core \in DOMAIN processor /\ processor[core] = "reset"
                        THEN Sent(core, "runs") ELSE processor
    BY <1>15, Zenon DEF SendStartup, StageGoes
  <2>2. core \in 0 .. Len(core_ids) - 1 /\ core_ids # <<>>
    BY <1>1, <1>4, <2>1, EmptySeq
  <2>3. DOMAIN processor' = DOMAIN processor
    BY <2>1 DEF Sent
  <2>4. Starting'
    <3>1. ASSUME CountedFromZero(core_ids)
          PROVE  /\ processor'[bsp] = "runs"
                 /\ \A id \in DOMAIN processor' :
                      processor'[id] = IF id = bsp \/ id < core' THEN "runs" ELSE "reset"
      <4>1. \A id \in DOMAIN processor : processor[id] = IF id = bsp \/ id < core THEN "runs" ELSE "reset"
        BY <1>7, <2>1, <3>1, Zenon
      <4>2. processor' = IF core \in DOMAIN processor /\ processor[core] = "reset"
                         THEN [processor EXCEPT ![core] = "runs"] ELSE processor
        BY <2>1, Zenon DEF Sent
      <4>3. processor'[bsp] = "runs"
        BY <1>7, <3>1, <4>2
      <4>4. ASSUME NEW id \in DOMAIN processor
            PROVE  processor'[id] = IF id = bsp \/ id < core + 1 THEN "runs" ELSE "reset"
        <5>1. id < core + 1 <=> id = core \/ id < core
          BY <1>5, <2>2
        <5>2. CASE id = core
          <6>1. processor[id] = "runs" \/ processor[id] = "reset"
            BY <4>1, Zenon
          <6>2. processor'[id] = "runs"
            BY <4>2, <5>2, <6>1
          <6>. QED  BY <5>1, <5>2, <6>2, Zenon
        <5>3. CASE id # core
          <6>1. processor'[id] = processor[id]
            BY <4>2, <5>3
          <6>. QED  BY <4>1, <5>1, <5>3, <6>1, Zenon
        <5>. QED  BY <5>2, <5>3, Zenon
      <4>. QED  BY <2>1, <2>3, <4>3, <4>4, Zenon
    <3>2. stage_of' # "init" /\ stage_of' # "done"
      BY <2>1
    <3>. QED  BY <1>3, <2>1, <3>1, <3>2, Zenon DEF Starting, bsp
  <2>5. core' \in 0 .. Len(core_ids)
    BY <1>4, <2>1, <2>2
  <2>6. ToSet(found)' = OnReached'
    BY <1>1, <1>3, <2>1
  <2>. QED  BY <1>8, <2>1, <2>2, <2>3, <2>4, <2>5, <2>6, Zenon
<1>16. CASE Discovered
  <2>1. /\ stage_of = "startup" /\ stage_of' = "done" /\ found' = found /\ core_ids' = core_ids
        /\ core = Len(core_ids) /\ core' = core /\ processor' = processor
    BY <1>16, Zenon DEF Discovered, StageGoes
  <2>2. Starting'
    <3>1. ASSUME CountedFromZero(core_ids), NEW id \in DOMAIN processor
          PROVE  processor[id] = "runs"
      <4>1. id = bsp \/ id < core
        BY <1>4, <1>6, <2>1, <3>1
      <4>. QED  BY <1>7, <2>1, <3>1, <4>1, Zenon
    <3>2. stage_of' # "init" /\ stage_of' # "startup"
      BY <2>1
    <3>. QED  BY <1>3, <1>7, <2>1, <3>1, <3>2, Zenon DEF Starting, bsp
  <2>3. ToSet(found)' = OnReached
    BY <1>1, <2>1
  <2>4. /\ stage_of' \in {"scan", "buses", "apics", "init", "startup", "done", "overrun"}
        /\ ~(stage_of' \in {"scan", "buses", "apics", "overrun"})
    BY <2>1
  <2>. QED  BY <1>9, <2>1, <2>2, <2>3, <2>4, Zenon
<1>17. CASE UNCHANGED discovery_vars
  <2>1. /\ stage_of' = stage_of /\ found' = found /\ core_ids' = core_ids
        /\ core' = core /\ processor' = processor
    BY <1>17, Zenon DEF discovery_vars
  <2>2. Starting'
    BY <1>1, <1>2, <2>1, Zenon DEF Starting
  <2>. QED  BY <1>1, <1>9, <2>1, <2>2, Zenon
<1>. QED
  BY <1>10, <1>11, <1>12, <1>13, <1>14, <1>15, <1>16, <1>17, Zenon DEF DiscoveryNext

\* The functions of the machine's devices are found, and its processors run:
\* however its bridges lead from bus to bus, every function on a bus that can be
\* reached is found and nothing else; and where the table has no more processors
\* than there is room for and numbers them from 0 in its order, the one that
\* runs this is never reset and all of them run in the end (pcie.cpp:27,
\* acpi.cpp:97).
THEOREM MachineIsFound ==
  DiscoverySpec => []FindsTheMachine
<1>1. DiscoveryInit => DiscoveryInv
  BY DiscoveryStarts
<1>2. DiscoveryInv /\ [DiscoveryNext]_discovery_vars => DiscoveryInv'
  BY DiscoveryStep
<1>3. DiscoveryInv => FindsTheMachine
  <2>. SUFFICES ASSUME DiscoveryInv PROVE FindsTheMachine
    OBVIOUS
  <2>1. /\ Starting /\ core_ids \in Seq(CoreIds)
        /\ core_ids = <<>> => processor[machine.bsp] = "runs"
        /\ stage_of = "done" /\ find_acpi => ToSet(found) = OnReached
    BY Zenon DEF DiscoveryInv
  <2>2. Numbered => core_ids = <<>> \/ CountedFromZero(core_ids)
    BY <2>1, NumberedMeans, Zenon DEF Numbered
  <2>3. Numbered => processor[machine.bsp] = "runs"
    BY <2>1, <2>2, Zenon DEF Starting
  <2>4. stage_of = "done" /\ core_ids # <<>> /\ Numbered => \A id \in DOMAIN processor : processor[id] = "runs"
    BY <2>1, <2>2, Zenon DEF Starting
  <2>. QED  BY <2>1, <2>3, <2>4, Zenon DEF FindsTheMachine, OnReached
<1>. QED
  BY <1>1, <1>2, <1>3, PTL DEF DiscoverySpec

-----------------------------------------------------------------------------
(***************************************************************************)
(* Sequences.                                                              *)
(***************************************************************************)
\* One element alone.
LEMMA OneElement ==
  ASSUME NEW A, NEW x \in A
  PROVE  <<x>> \in Seq(A)
OBVIOUS

\* The last element replaced.
LEMMA LastReplaced ==
  ASSUME NEW A, NEW s \in Seq(A), Len(s) > 0, NEW x \in A
  PROVE  /\ [s EXCEPT ![Len(s)] = x] \in Seq(A) /\ Len([s EXCEPT ![Len(s)] = x]) = Len(s)
         /\ [s EXCEPT ![Len(s)] = x][Len(s)] = x
         /\ \A j \in 1 .. Len(s) : j # Len(s) => [s EXCEPT ![Len(s)] = x][j] = s[j]
<1>1. Len(s) \in 1 .. Len(s)
  OBVIOUS
<1>. QED
  BY <1>1

-----------------------------------------------------------------------------
(***************************************************************************)
(* The lines of a file, as fgets gives them.                               *)
(***************************************************************************)
Lines == Seq(Seq(STRING))
IsNewline(ch) == ch = "\n"

\* The lines after each of the characters.
ReadsTo(h, file) ==
  /\ h \in [0 .. Len(Contents[file]) -> Lines]
  /\ h[0] = <<>>
  /\ \A i \in 1 .. Len(Contents[file]) : h[i] = fgets(file, h[i - 1], Contents[file][i])
  /\ ReadLines(file) = h[Len(Contents[file])]

LEMMA ReadRuns ==
  ASSUME NEW file \in DOMAIN Contents
  PROVE  \E h : ReadsTo(h, file)
<1> DEFINE c == Contents[file]
           m == Len(c)
           Step(i, lines) == fgets(file, lines, c[i])
           Is(h) == h = [i \in 0 .. m |-> IF i = 0 THEN <<>> ELSE Step(i, h[i - 1])]
           F == [x \in (1 .. m) \X Lines |-> Step(x[1], x[2])]
           run == CHOOSE h : Is(h)
<1>1. c \in Seq(STRING)
  BY ShellAssumption
<1>2. m \in Nat /\ \A i \in 1 .. m : c[i] \in STRING
  BY <1>1
<1>3. <<>> \in Lines
  BY DEF Lines
<1>4. ASSUME NEW i \in 1 .. m, NEW lines \in Lines PROVE Step(i, lines) \in Lines
  <2> DEFINE ch == c[i]
  <2>1. ch \in STRING
    BY <1>2
  <2>. HIDE DEF ch, c
  <2>2. <<ch>> \in Seq(STRING)
    BY <2>1, OneElement, Zenon
  <2>3. Append(lines, <<ch>>) \in Lines
    BY <2>2, AppendProperties, Zenon DEF Lines
  <2>4. ASSUME lines # <<>> PROVE [lines EXCEPT ![Len(lines)] = Append(@, ch)] \in Lines
    <3> DEFINE longer == Append(lines[Len(lines)], ch)
    <3>1. Len(lines) > 0 /\ lines[Len(lines)] \in Seq(STRING)
      BY <2>4 DEF Lines
    <3>2. longer \in Seq(STRING)
      BY <2>1, <3>1, AppendProperties, Zenon
    <3>. HIDE DEF longer
    <3>3. [lines EXCEPT ![Len(lines)] = longer] \in Lines
      BY <3>1, <3>2, LastReplaced, Zenon DEF Lines
    <3>. QED  BY <3>3, Zenon DEF longer
  <2>. QED  BY <2>3, <2>4, Zenon DEF fgets, ch
<1>5. ReadLines(file) = run[m]
  BY Zenon DEF ReadLines, run, Is, Step, m, c
<1>. HIDE DEF c, m, Lines, Step
<1>6. F \in [(1 .. m) \X Lines -> Lines] /\ \A i \in 1 .. m, x \in Lines : F[<<i, x>>] = Step(i, x)
  BY <1>4
<1>. HIDE DEF F
<1>7. PICK h : GoesOn(h, F, <<>>, m, Lines)
  BY <1>2, <1>3, <1>6, RecursionRuns
<1>8. h \in [0 .. m -> Lines] /\ h[0] = <<>> /\ \A i \in 1 .. m : h[i] = Step(i, h[i - 1])
  <2>1. ASSUME NEW i \in 1 .. m PROVE h[i] = Step(i, h[i - 1])
    <3>1. i - 1 \in 0 .. m
      BY <1>2
    <3>. QED  BY <1>6, <1>7, <3>1 DEF GoesOn
  <2>. QED  BY <1>7, <2>1 DEF GoesOn
<1>9. Is(h)
  <2>1. \A i \in 0 .. m : h[i] = IF i = 0 THEN <<>> ELSE Step(i, h[i - 1])
    BY <1>2, <1>8
  <2>2. h = [i \in 0 .. m |-> h[i]]
    BY <1>8
  <2>. QED  BY <2>1, <2>2, Zenon
<1>10. Is(run)
  BY <1>9, Zenon
<1>. HIDE DEF run
<1>11. \A i \in 0 .. m : run[i] = IF i = 0 THEN <<>> ELSE Step(i, run[i - 1])
  BY <1>10, Zenon
<1>. HIDE DEF Is
<1>12. run[m] = h[m]
  <2>1. run[0] = h[0]
    BY <1>2, <1>8, <1>11
  <2>2. ASSUME NEW i \in 1 .. m, run[i - 1] = h[i - 1] PROVE run[i] = h[i]
    <3>1. i \in 0 .. m /\ i # 0
      BY <1>2
    <3>. QED  BY <1>8, <1>11, <2>2, <3>1, Zenon
  <2>. QED  BY <1>2, <2>1, <2>2, AgreeUpTo
<1>. QED
  BY <1>5, <1>8, <1>12, Zenon DEF ReadsTo, Step, m, c

\* The characters from the one behind a up to b make a line: only its last one may
\* be a newline; and one that ends there, because of it or as the buffer is full.
OneLine(c, a, b, file) ==
  /\ a < b
  /\ \A p \in a + 1 .. b - 1 : ~IsNewline(c[p])
  /\ file # Typed => b - a <= Chunk
EndsLine(c, a, b, file) == IsNewline(c[b]) \/ (file # Typed /\ b - a = Chunk)

\* The first i characters in lines: line j ends with character e[j].
CutAt(lines, e, file, i) ==
  /\ lines \in Lines
  /\ e \in [0 .. Len(lines) -> 0 .. i] /\ e[0] = 0 /\ e[Len(lines)] = i
  /\ \A j \in 1 .. Len(lines) :
       /\ OneLine(Contents[file], e[j - 1], e[j], file)
       /\ lines[j] = SubSeq(Contents[file], e[j - 1] + 1, e[j])
       /\ j < Len(lines) => EndsLine(Contents[file], e[j - 1], e[j], file)

\* What the last character of a line, and its length, say of it.
LEMMA WholeLine ==
  ASSUME NEW file, NEW c \in Seq(STRING), NEW a \in Nat, NEW b \in 1 .. Len(c), a < b
  PROVE  IsWhole(file, SubSeq(c, a + 1, b)) <=> EndsLine(c, a, b, file)
<1> DEFINE line == SubSeq(c, a + 1, b)
<1>1. Len(line) = b - a /\ line[b - a] = c[b]
  BY SubSeqProperties
<1>. HIDE DEF line
<1>2. IsWhole(file, line) <=> EndsLine(c, a, b, file)
  BY <1>1, Zenon DEF IsWhole, EndsLine, IsNewline
<1>. QED
  BY <1>2, Zenon DEF line

\* A character more: it begins a line or is added to the last one.
LEMMA CutGrows ==
  ASSUME NEW file \in DOMAIN Contents, NEW i \in Nat, i < Len(Contents[file]),
         NEW lines, NEW e, CutAt(lines, e, file, i)
  PROVE  \E f : CutAt(fgets(file, lines, Contents[file][i + 1]), f, file, i + 1)
<1> DEFINE c == Contents[file]
           ch == c[i + 1]
           L == Len(lines)
           fresh == lines = <<>> \/ IsWhole(file, lines[L])
           new == fgets(file, lines, ch)
<1>1. c \in Seq(STRING) /\ Chunk \in Nat \ {0} /\ i + 1 \in 1 .. Len(c) /\ ch \in STRING
  BY ShellAssumption
<1>2. /\ lines \in Lines /\ L \in Nat
      /\ e \in [0 .. L -> 0 .. i] /\ e[0] = 0 /\ e[L] = i
      /\ \A j \in 1 .. L : OneLine(c, e[j - 1], e[j], file) /\ lines[j] = SubSeq(c, e[j - 1] + 1, e[j])
      /\ \A j \in 1 .. L : j < L => EndsLine(c, e[j - 1], e[j], file)
  BY DEF CutAt, Lines
<1>3. L > 0 => /\ L \in 1 .. L /\ L - 1 \in 0 .. L /\ e[L - 1] \in 0 .. i
               /\ OneLine(c, e[L - 1], i, file) /\ lines[L] = SubSeq(c, e[L - 1] + 1, i)
               /\ e[L - 1] < i
  <2>1. L > 0 => L \in 1 .. L /\ L - 1 \in 0 .. L
    BY <1>2
  <2>. HIDE DEF c, L
  <2>2. L > 0 => /\ e[L - 1] \in 0 .. i /\ OneLine(c, e[L - 1], e[L], file)
                 /\ lines[L] = SubSeq(c, e[L - 1] + 1, e[L])
    BY <1>2, <2>1
  <2>3. L > 0 => e[L - 1] < i
    BY <1>2, <2>2, Zenon DEF OneLine
  <2>. QED  BY <1>2, <2>1, <2>2, <2>3, Zenon
<1>4. L > 0 => (IsWhole(file, lines[L]) <=> EndsLine(c, e[L - 1], i, file))
  <2>1. SUFFICES ASSUME L > 0 PROVE IsWhole(file, lines[L]) <=> EndsLine(c, e[L - 1], i, file)
    OBVIOUS
  <2>2. e[L - 1] \in Nat /\ i \in 1 .. Len(c)
    BY <1>1, <1>3, <2>1
  <2>3. IsWhole(file, SubSeq(c, e[L - 1] + 1, i)) <=> EndsLine(c, e[L - 1], i, file)
    BY <1>1, <1>3, <2>1, <2>2, WholeLine
  <2>. QED  BY <1>3, <2>1, <2>3
<1>. HIDE DEF c, ch, L
<1>5. CASE fresh
  <2> DEFINE f == [j \in 0 .. L + 1 |-> IF j = L + 1 THEN i + 1 ELSE e[j]]
  <2>1. new = Append(lines, <<ch>>)
    BY <1>5, Zenon DEF fgets, L
  <2>2. new \in Lines /\ Len(new) = L + 1 /\ new[L + 1] = <<ch>> /\ \A j \in 1 .. L : new[j] = lines[j]
    <3>1. <<ch>> \in Seq(STRING) /\ lines \in Seq(Seq(STRING))
      BY <1>1, <1>2, OneElement, Zenon DEF Lines
    <3>2. /\ Append(lines, <<ch>>) \in Lines /\ Len(Append(lines, <<ch>>)) = L + 1
          /\ Append(lines, <<ch>>)[L + 1] = <<ch>>
          /\ \A j \in 1 .. L : Append(lines, <<ch>>)[j] = lines[j]
      <4> DEFINE A == Seq(STRING)
                 x == <<ch>>
      <4>1. x \in A /\ lines \in Seq(A)
        BY <3>1
      <4>. HIDE DEF A, x
      <4>2. /\ Append(lines, x) \in Seq(A) /\ Len(Append(lines, x)) = Len(lines) + 1
            /\ Append(lines, x)[Len(lines) + 1] = x
            /\ \A j \in 1 .. Len(lines) : Append(lines, x)[j] = lines[j]
        BY <4>1, AppendProperties
      <4>. QED  BY <4>2, Zenon DEF A, x, Lines, L
    <3>. HIDE DEF new
    <3>. QED  BY <2>1, <3>2, Zenon
  <2>3. f \in [0 .. L + 1 -> 0 .. i + 1] /\ f[0] = 0 /\ f[L + 1] = i + 1 /\ f[L] = i
        /\ \A j \in 1 .. L : f[j - 1] = e[j - 1] /\ f[j] = e[j]
    BY <1>2
  <2>. HIDE DEF f, new
  <2>4. ASSUME NEW j \in 1 .. L + 1
        PROVE  /\ OneLine(c, f[j - 1], f[j], file)
               /\ new[j] = SubSeq(c, f[j - 1] + 1, f[j])
               /\ j < L + 1 => EndsLine(c, f[j - 1], f[j], file)
    <3>1. CASE j = L + 1
      <4>1. j - 1 = L /\ f[j - 1] = i /\ f[j] = i + 1
        BY <1>2, <2>3, <3>1
      <4>2. OneLine(c, i, i + 1, file)
        BY <1>1 DEF OneLine
      <4>3. SubSeq(c, i + 1, i + 1) = <<ch>>
        <5> DEFINE s == SubSeq(c, i + 1, i + 1)
        <5>1. i + 1 \in Int /\ \A p \in i + 1 .. i + 1 : c[p] \in STRING
          BY <1>1
        <5>2. /\ s \in Seq(STRING)
              /\ Len(s) = IF i + 1 <= i + 1 THEN (i + 1) - (i + 1) + 1 ELSE 0
              /\ \A p \in 1 .. (i + 1) - (i + 1) + 1 : s[p] = c[(i + 1) + p - 1]
          BY <5>1, SubSeqProperties
        <5>3. Len(s) = 1 /\ s[1] = ch
          BY <5>2 DEF ch
        <5>. HIDE DEF s
        <5>4. s = <<ch>>
          BY <5>2, <5>3
        <5>. QED  BY <5>4 DEF s
      <4>4. ~(j < L + 1)
        BY <1>2, <3>1
      <4>. QED  BY <2>2, <3>1, <4>1, <4>2, <4>3, <4>4, Zenon
    <3>2. CASE j # L + 1
      <4>1. j \in 1 .. L
        BY <1>2, <3>2
      <4>2. j < L \/ j = L
        BY <1>2, <4>1
      <4>3. j = L => EndsLine(c, e[L - 1], e[L], file)
        <5>1. j = L => L > 0 /\ lines # <<>>
          BY <1>2, <4>1 DEF L
        <5>. QED  BY <1>2, <1>4, <1>5, <5>1
      <4>4. EndsLine(c, e[j - 1], e[j], file)
        BY <1>2, <4>1, <4>2, <4>3
      <4>. QED  BY <1>2, <2>2, <2>3, <4>1, <4>4
    <3>. QED  BY <3>1, <3>2
  <2>5. CutAt(new, f, file, i + 1)
    BY <2>2, <2>3, <2>4, Zenon DEF CutAt, c
  <2>. QED  BY <2>5, Zenon DEF new, ch, c
<1>6. CASE ~fresh
  <2> DEFINE f == [e EXCEPT ![L] = i + 1]
             a == e[L - 1]
  <2>1. L > 0
    <3>1. L = 0 => lines = <<>>
      BY <1>2 DEF L, Lines
    <3>. QED  BY <1>2, <1>6, <3>1
  <2>2. new = [lines EXCEPT ![L] = Append(@, ch)]
    BY <1>6, Zenon DEF fgets, L
  <2>3. a \in 0 .. i /\ a < i /\ lines[L] = SubSeq(c, a + 1, i) /\ OneLine(c, a, i, file)
    BY <1>3, <2>1
  <2>4. Append(lines[L], ch) = SubSeq(c, a + 1, i + 1)
    <3>. HIDE DEF a
    <3>1. SubSeq(c, a + 1, i + 1) = SubSeq(c, a + 1, (i + 1) - 1) \o <<c[i + 1]>>
      <4>1. a + 1 \in 1 .. Len(c) /\ i + 1 \in a + 1 .. Len(c)
        BY <1>1, <2>3
      <4>. QED  BY <1>1, <4>1, SubSeqRecursiveSecond
    <3>2. (i + 1) - 1 = i /\ SubSeq(c, a + 1, i) \in Seq(STRING)
      BY <1>1, <2>3
    <3>3. Append(SubSeq(c, a + 1, i), ch) = SubSeq(c, a + 1, i) \o <<ch>>
      BY <1>1, <3>2, AppendIsConcat, Zenon
    <3>. QED  BY <2>3, <3>1, <3>2, <3>3, Zenon DEF ch
  <2>5. Append(lines[L], ch) \in Seq(STRING)
    <3>1. lines[L] \in Seq(STRING)
      BY <1>2, <1>3, <2>1 DEF Lines, L
    <3>. QED  BY <1>1, <3>1, AppendProperties, Zenon
  <2>6. new \in Lines /\ Len(new) = L /\ new[L] = Append(lines[L], ch)
        /\ \A j \in 1 .. L : j # L => new[j] = lines[j]
    <3> DEFINE longer == Append(lines[L], ch)
    <3>1. longer \in Seq(STRING) /\ new = [lines EXCEPT ![L] = longer]
      BY <2>2, <2>5, Zenon
    <3>. HIDE DEF longer, new
    <3>2. new \in Seq(Seq(STRING)) /\ Len(new) = L /\ new[L] = longer
          /\ \A j \in 1 .. L : j # L => new[j] = lines[j]
      <4> DEFINE A == Seq(STRING)
      <4>1. longer \in A /\ lines \in Seq(A) /\ Len(lines) > 0
        BY <1>2, <2>1, <3>1, Zenon DEF Lines, L
      <4>. HIDE DEF A
      <4>2. /\ [lines EXCEPT ![Len(lines)] = longer] \in Seq(A)
            /\ Len([lines EXCEPT ![Len(lines)] = longer]) = Len(lines)
            /\ [lines EXCEPT ![Len(lines)] = longer][Len(lines)] = longer
            /\ \A j \in 1 .. Len(lines) :
                 j # Len(lines) => [lines EXCEPT ![Len(lines)] = longer][j] = lines[j]
        BY <4>1, LastReplaced
      <4>3. new = [lines EXCEPT ![Len(lines)] = longer]
        BY <3>1 DEF L
      <4>4. /\ new \in Seq(A) /\ Len(new) = Len(lines) /\ new[Len(lines)] = longer
            /\ \A j \in 1 .. Len(lines) : j # Len(lines) => new[j] = lines[j]
        BY <4>2, <4>3, Zenon
      <4>. QED  BY <4>4, Zenon DEF A, L
    <3>. QED  BY <3>2, Zenon DEF Lines, longer
  <2>7. f \in [0 .. L -> 0 .. i + 1] /\ f[0] = 0 /\ f[L] = i + 1 /\ f[L - 1] = a
        /\ \A j \in 1 .. L : j # L => f[j - 1] = e[j - 1] /\ f[j] = e[j]
    <3>1. L \in Nat /\ L > 0 /\ L - 1 # L /\ L \in 0 .. L /\ L - 1 \in 0 .. L /\ 0 # L /\ 0 \in 0 .. L
          /\ \A j \in 1 .. L : j # L => j - 1 # L /\ j - 1 \in 0 .. L /\ j \in 0 .. L
      BY <1>2, <2>1
    <3>2. \A x \in 0 .. i : x \in 0 .. i + 1
      OBVIOUS
    <3>3. i + 1 \in 0 .. i + 1
      OBVIOUS
    <3>4. f = [j \in 0 .. L |-> IF j = L THEN i + 1 ELSE e[j]]
      BY <1>2, Zenon
    <3>. HIDE DEF f
    <3>5. f \in [0 .. L -> 0 .. i + 1]
      BY <1>2, <3>2, <3>3, <3>4
    <3>6. f[L] = i + 1 /\ \A j \in 0 .. L : j # L => f[j] = e[j]
      BY <3>1, <3>4
    <3>. QED  BY <1>2, <3>1, <3>5, <3>6, Zenon
  <2>8. OneLine(c, a, i + 1, file)
    <3>1. ~EndsLine(c, a, i, file)
      BY <1>4, <1>6, <2>1
    <3>2. \A p \in a + 1 .. (i + 1) - 1 : p \in a + 1 .. i - 1 \/ p = i
      BY <2>3
    <3>6. a \in Nat /\ a < i /\ a < i + 1 /\ Chunk \in Nat
      BY <1>1, <2>3
    <3>3. a < i + 1 /\ \A p \in a + 1 .. (i + 1) - 1 : ~IsNewline(c[p])
      BY <2>3, <3>1, <3>2, <3>6, Zenon DEF OneLine, EndsLine
    <3>4. file # Typed => i - a <= Chunk /\ i - a # Chunk
      BY <2>3, <3>1, Zenon DEF OneLine, EndsLine
    <3>5. i - a <= Chunk /\ i - a # Chunk => (i + 1) - a <= Chunk
      BY <3>6
    <3>. QED  BY <3>3, <3>4, <3>5, Zenon DEF OneLine
  <2>. HIDE DEF f, a, new
  <2>9. ASSUME NEW j \in 1 .. L
        PROVE  /\ OneLine(c, f[j - 1], f[j], file)
               /\ new[j] = SubSeq(c, f[j - 1] + 1, f[j])
               /\ j < L => EndsLine(c, f[j - 1], f[j], file)
    <3>1. CASE j = L
      BY <1>2, <2>4, <2>6, <2>7, <2>8, <3>1
    <3>2. CASE j # L
      BY <1>2, <2>6, <2>7, <3>2
    <3>. QED  BY <3>1, <3>2
  <2>10. CutAt(new, f, file, i + 1)
    BY <2>6, <2>7, <2>9, Zenon DEF CutAt, c
  <2>. QED  BY <2>10, Zenon DEF new, ch, c
<1>. QED
  BY <1>5, <1>6

\* So a file is cut into lines.
LEMMA FileCut ==
  ASSUME NEW file \in DOMAIN Contents
  PROVE  \E e : CutAt(ReadLines(file), e, file, Len(Contents[file]))
<1> DEFINE m == Len(Contents[file])
<1>1. PICK h : ReadsTo(h, file)
  BY ReadRuns
<1>2. m \in Nat
  BY ShellAssumption
<1> DEFINE S == {i \in 0 .. m : \E e : CutAt(h[i], e, file, i)}
<1>3. 0 \in S
  <2> DEFINE e == [j \in 0 .. 0 |-> 0]
  <2>1. h[0] = <<>> /\ h[0] \in Lines
    BY <1>1, <1>2 DEF ReadsTo
  <2>2. CutAt(h[0], e, file, 0)
    <3>1. Len(h[0]) = 0
      BY <2>1
    <3>2. e \in [0 .. 0 -> 0 .. 0] /\ e[0] = 0 /\ 1 .. 0 = {}
      OBVIOUS
    <3>. HIDE DEF e
    <3>. QED  BY <2>1, <3>1, <3>2 DEF CutAt
  <2>. QED  BY <1>2, <2>2
<1>4. ASSUME NEW i \in 0 .. m - 1, i \in S PROVE i + 1 \in S
  <2>1. i \in Nat /\ i < m /\ i + 1 \in 0 .. m /\ i + 1 \in 1 .. m /\ (i + 1) - 1 = i
    BY <1>2
  <2>2. PICK e : CutAt(h[i], e, file, i)
    BY <1>4
  <2>3. h[i + 1] = fgets(file, h[i], Contents[file][i + 1])
    BY <1>1, <2>1 DEF ReadsTo
  <2>4. \E f : CutAt(fgets(file, h[i], Contents[file][i + 1]), f, file, i + 1)
    BY <2>1, <2>2, CutGrows
  <2>. QED  BY <2>1, <2>3, <2>4, Zenon
<1>5. m \in S
  <2>. HIDE DEF S
  <2>1. \A i \in 0 .. m : i \in S
    BY <1>2, <1>3, <1>4, Upward
  <2>. QED  BY <1>2, <2>1
<1>. QED
  BY <1>1, <1>5, Zenon DEF ReadsTo

\* Later lines end later.
LEMMA CutGoesOn ==
  ASSUME NEW file, NEW m \in Nat, NEW lines, NEW e, CutAt(lines, e, file, m)
  PROVE  \A a, b \in 0 .. Len(lines) : a <= b => e[a] <= e[b]
<1> DEFINE L == Len(lines)
           S == {k \in 0 .. L : \A a \in 0 .. k : e[a] <= e[k]}
<1>1. L \in Nat /\ e \in [0 .. L -> 0 .. m] /\ \A j \in 1 .. L : e[j - 1] < e[j]
  BY DEF CutAt, Lines, OneLine
<1>. HIDE DEF L
<1>2. 0 \in S
  BY <1>1
<1>3. ASSUME NEW k \in 0 .. L - 1, k \in S PROVE k + 1 \in S
  <2>1. k + 1 \in 1 .. L /\ k \in 0 .. L /\ k + 1 \in 0 .. L /\ e[k] < e[k + 1]
    BY <1>1
  <2>2. ASSUME NEW a \in 0 .. k + 1 PROVE e[a] <= e[k + 1]
    <3>1. CASE a = k + 1
      BY <1>1, <2>1, <3>1
    <3>2. CASE a # k + 1
      <4>1. a \in 0 .. k /\ a \in 0 .. L
        BY <1>1, <3>2
      <4>2. e[a] <= e[k]
        BY <1>3, <4>1
      <4>. QED  BY <1>1, <2>1, <4>1, <4>2
    <3>. QED  BY <3>1, <3>2
  <2>. QED  BY <2>1, <2>2
<1>4. \A k \in 0 .. L : k \in S
  <2>. HIDE DEF S
  <2>. QED  BY <1>1, <1>2, <1>3, Upward
<1>5. ASSUME NEW a \in 0 .. L, NEW b \in 0 .. L, a <= b PROVE e[a] <= e[b]
  <2>1. a \in 0 .. b
    BY <1>5
  <2>. QED  BY <1>4, <2>1
<1>. QED
  BY <1>5 DEF L

\* Every character is in one of the lines.
LEMMA InALine ==
  ASSUME NEW file, NEW m \in Nat, NEW lines, NEW e, CutAt(lines, e, file, m), NEW k \in 1 .. m
  PROVE  \E j \in 1 .. Len(lines) : e[j - 1] < k /\ k <= e[j]
<1> DEFINE L == Len(lines)
           S == {j \in 0 .. L : k <= e[j]}
<1>1. L \in Nat /\ e \in [0 .. L -> 0 .. m] /\ e[0] = 0 /\ e[L] = m
  BY DEF CutAt, Lines
<1>. HIDE DEF L
<1>2. L \in S /\ S \subseteq Nat
  BY <1>1
<1>3. PICK j \in S : \A y \in S : j <= y
  BY <1>2, Smallest
<1>4. j # 0 /\ j \in 1 .. L /\ j - 1 \in 0 .. L /\ j - 1 \notin S
  BY <1>1, <1>3
<1>5. ~(k <= e[j - 1]) /\ k <= e[j] /\ e[j - 1] \in 0 .. m
  BY <1>1, <1>3, <1>4
<1>. QED
  BY <1>4, <1>5 DEF L

-----------------------------------------------------------------------------
(***************************************************************************)
(* Newlines, and what they make the first lines of a text.                 *)
(***************************************************************************)
\* They are finitely many.
LEMMA NewlinesTyped ==
  ASSUME NEW c, NEW k \in Nat
  PROVE  Newlines(c, k) \in Nat /\ IsFiniteSet({i \in 1 .. k : c[i] = "\n"})
<1>1. IsFiniteSet(1 .. k)
  BY FS_Interval
<1>2. {i \in 1 .. k : c[i] = "\n"} \in SUBSET (1 .. k)
  BY Zenon
<1>3. IsFiniteSet({i \in 1 .. k : c[i] = "\n"})
  BY <1>1, <1>2, FS_Subset, Zenon
<1>. QED
  BY <1>3, FS_CardinalityType, Zenon DEF Newlines

\* There are none at first.
LEMMA NewlinesNone ==
  ASSUME NEW c
  PROVE  Newlines(c, 0) = 0
<1>1. 1 .. 0 = {}
  OBVIOUS
<1>2. {i \in 1 .. 0 : c[i] = "\n"} = {}
  BY <1>1, Zenon
<1>. QED
  BY <1>2, FS_EmptySet, Zenon DEF Newlines

\* Other characters are not counted.
LEMMA NewlinesSame ==
  ASSUME NEW c, NEW a \in Nat, NEW b \in Nat, a <= b, \A p \in a + 1 .. b : ~IsNewline(c[p])
  PROVE  Newlines(c, b) = Newlines(c, a)
<1>1. \A p \in 1 .. b : p \in 1 .. a \/ p \in a + 1 .. b
  OBVIOUS
<1>2. \A p \in 1 .. a : p \in 1 .. b
  OBVIOUS
<1>3. {i \in 1 .. b : c[i] = "\n"} = {i \in 1 .. a : c[i] = "\n"}
  BY <1>1, <1>2, Zenon DEF IsNewline
<1>. QED
  BY <1>3, Zenon DEF Newlines

\* A newline is.
LEMMA NewlinesMore ==
  ASSUME NEW c, NEW k \in Nat, IsNewline(c[k + 1])
  PROVE  Newlines(c, k + 1) = Newlines(c, k) + 1
<1> DEFINE S == {i \in 1 .. k : c[i] = "\n"}
<1>1. IsFiniteSet(S)
  BY NewlinesTyped
<1>2. 1 .. k + 1 = (1 .. k) \cup {k + 1} /\ k + 1 \notin 1 .. k
  OBVIOUS
<1>3. {i \in 1 .. k + 1 : c[i] = "\n"} = S \cup {k + 1} /\ k + 1 \notin S
  BY <1>2, Zenon DEF IsNewline
<1>. HIDE DEF S
<1>4. Cardinality(S \cup {k + 1}) = Cardinality(S) + 1
  BY <1>1, <1>3, FS_AddElement, Zenon
<1>. QED
  BY <1>3, <1>4, Zenon DEF Newlines, S

\* Between the ends of two lines there are as many as lines before, if each ends with one.
LEMMA NewlinesInLine ==
  ASSUME NEW file, NEW m \in Nat, NEW lines, NEW e, CutAt(lines, e, file, m),
         \A j \in 1 .. Len(lines) : j < Len(lines) => IsNewline(Contents[file][e[j]])
  PROVE  \A j \in 1 .. Len(lines) : \A p \in e[j - 1] .. e[j] - 1 :
           Newlines(Contents[file], p) = j - 1
<1> DEFINE c == Contents[file]
           L == Len(lines)
           S == {j \in 0 .. L : j < L => Newlines(c, e[j]) = j}
<1>1. /\ L \in Nat /\ e \in [0 .. L -> 0 .. m] /\ e[0] = 0
      /\ \A j \in 1 .. L : OneLine(c, e[j - 1], e[j], file)
  BY DEF CutAt, Lines
<1>2. \A j \in 1 .. L : j < L => IsNewline(c[e[j]])
  OBVIOUS
<1>. HIDE DEF L, c
<1>3. ASSUME NEW j \in 1 .. L, NEW p \in e[j - 1] .. e[j] - 1
      PROVE  Newlines(c, p) = Newlines(c, e[j - 1])
  <2>1. j - 1 \in 0 .. L /\ e[j - 1] \in Nat /\ p \in Nat /\ e[j - 1] <= p
    BY <1>1
  <2>2. \A q \in e[j - 1] + 1 .. p : ~IsNewline(c[q])
    BY <1>1, <2>1 DEF OneLine
  <2>. QED  BY <2>1, <2>2, NewlinesSame
<1>4. 0 \in S
  BY <1>1, NewlinesNone
<1>5. ASSUME NEW k \in 0 .. L - 1, k \in S PROVE k + 1 \in S
  <2>1. SUFFICES ASSUME k + 1 < L PROVE Newlines(c, e[k + 1]) = k + 1
    BY <1>1
  <2> DEFINE j == k + 1
             p == e[j] - 1
  <2>2. j \in 1 .. L /\ j - 1 = k /\ k < L /\ e[j] \in Nat /\ e[k] \in Nat /\ e[k] < e[j]
    BY <1>1, <2>1 DEF OneLine
  <2>3. p \in e[j - 1] .. e[j] - 1 /\ p \in Nat /\ p + 1 = e[j]
    BY <2>2
  <2>4. IsNewline(c[p + 1])
    BY <1>2, <2>1, <2>2, <2>3
  <2>. HIDE DEF p, j
  <2>5. Newlines(c, p) = k
    BY <1>3, <1>5, <2>2, <2>3
  <2>6. Newlines(c, e[j]) = k + 1
    BY <2>3, <2>4, <2>5, NewlinesMore
  <2>. QED  BY <2>6 DEF j
<1>6. \A k \in 0 .. L : k \in S
  <2>. HIDE DEF S
  <2>. QED  BY <1>1, <1>4, <1>5, Upward
<1>7. ASSUME NEW j \in 1 .. L, NEW p \in e[j - 1] .. e[j] - 1 PROVE Newlines(c, p) = j - 1
  <2>1. j - 1 \in 0 .. L /\ j - 1 < L
    BY <1>1
  <2>2. Newlines(c, e[j - 1]) = j - 1
    BY <1>6, <2>1
  <2>. QED  BY <1>3, <2>2
<1>. QED
  BY <1>7 DEF c, L

\* The first n lines end where line n ends.
LEMMA FirstLinesCut ==
  ASSUME NEW file \in DOMAIN Contents, NEW lines, NEW e,
         CutAt(lines, e, file, Len(Contents[file])),
         \A j \in 1 .. Len(lines) : j < Len(lines) => IsNewline(Contents[file][e[j]]),
         NEW n \in Nat \ {0}
  PROVE  FirstLines(Contents[file], n)
           = SubSeq(Contents[file], 1, e[IF n < Len(lines) THEN n ELSE Len(lines)])
<1> DEFINE c == Contents[file]
           m == Len(c)
           L == Len(lines)
           N == IF n < L THEN n ELSE L
           D == {k \in DOMAIN c : Newlines(c, k - 1) < n}
<1>1. m \in Nat /\ DOMAIN c = 1 .. m
  BY ShellAssumption
<1>2. L \in Nat /\ e \in [0 .. L -> 0 .. m] /\ e[0] = 0 /\ e[L] = m
  BY DEF CutAt, Lines
<1>3. \A a, b \in 0 .. L : a <= b => e[a] <= e[b]
  BY <1>1, CutGoesOn
<1>4. \A j \in 1 .. L : \A p \in e[j - 1] .. e[j] - 1 : Newlines(c, p) = j - 1
  BY <1>1, NewlinesInLine
<1>5. \A k \in 1 .. m : \E j \in 1 .. L : e[j - 1] < k /\ k <= e[j]
  BY <1>1, InALine
<1>. HIDE DEF c, m, L
<1>6. N \in 0 .. L /\ N <= n /\ (N < L => N = n) /\ e[N] \in 0 .. m
  BY <1>2
<1>. HIDE DEF N
<1>7. ASSUME NEW k \in 1 .. m PROVE Newlines(c, k - 1) < n <=> k <= e[N]
  <2>1. PICK j \in 1 .. L : e[j - 1] < k /\ k <= e[j]
    BY <1>5
  <2>2. j \in 0 .. L /\ j - 1 \in 0 .. L /\ e[j] \in Nat /\ e[j - 1] \in Nat
    BY <1>2
  <2>3. Newlines(c, k - 1) = j - 1
    <3>1. k - 1 \in e[j - 1] .. e[j] - 1
      BY <2>1, <2>2
    <3>. QED  BY <1>4, <3>1
  <2>4. CASE j <= N
    <3>1. e[j] <= e[N]
      BY <1>3, <1>6, <2>2, <2>4
    <3>. QED  BY <1>6, <2>1, <2>2, <2>3, <2>4, <3>1
  <2>5. CASE ~(j <= N)
    <3>1. e[N] <= e[j - 1]
      BY <1>3, <1>6, <2>2, <2>5
    <3>2. N = n
      BY <1>2, <1>6, <2>2, <2>5
    <3>. QED  BY <1>6, <2>1, <2>2, <2>3, <2>5, <3>1, <3>2
  <2>. QED  BY <2>4, <2>5
<1>8. D = 1 .. e[N]
  <2>1. D = {k \in 1 .. m : k <= e[N]}
    BY <1>1, <1>7, Zenon
  <2>2. \A k : k \in 1 .. e[N] <=> k \in 1 .. m /\ k <= e[N]
    BY <1>1, <1>6
  <2>. HIDE DEF D
  <2>. QED  BY <2>1, <2>2, Zenon
<1>9. Cardinality(1 .. e[N]) = e[N]
  <2> DEFINE b == e[N]
  <2>1. 1 \in Int /\ b \in Nat
    BY <1>6
  <2>. HIDE DEF b
  <2>2. Cardinality(1 .. b) = IF 1 > b THEN 0 ELSE b - 1 + 1
    BY <2>1, FS_Interval
  <2>3. Cardinality(1 .. b) = b
    BY <2>1, <2>2
  <2>. QED  BY <2>3 DEF b
<1>10. FirstLines(c, n) = SubSeq(c, 1, Cardinality(D))
  BY Zenon DEF FirstLines, D
<1>. HIDE DEF D
<1>11. FirstLines(c, n) = SubSeq(c, 1, e[N])
  BY <1>8, <1>9, <1>10, Zenon
<1>. QED
  BY <1>11, Zenon DEF N, c, L

\* Where no line is longer than what fgets gets, and where a line is typed, each ends with one.
LEMMA LinesEnd ==
  ASSUME NEW file \in DOMAIN Contents, NEW lines, NEW e,
         CutAt(lines, e, file, Len(Contents[file])), file = Typed \/ LinesFit(file)
  PROVE  \A j \in 1 .. Len(lines) : j < Len(lines) => IsNewline(Contents[file][e[j]])
<1> DEFINE c == Contents[file]
           m == Len(c)
           L == Len(lines)
<1>1. m \in Nat /\ Chunk \in Nat \ {0}
  BY ShellAssumption
<1>2. /\ L \in Nat /\ e \in [0 .. L -> 0 .. m] /\ e[L] = m
      /\ \A j \in 1 .. L : OneLine(c, e[j - 1], e[j], file) /\ (j < L => EndsLine(c, e[j - 1], e[j], file))
  BY DEF CutAt, Lines
<1>3. file = Typed \/ \A i \in 1 .. m - Chunk : \E p \in i .. i + Chunk - 1 : IsNewline(c[p])
  BY Zenon DEF LinesFit, IsNewline
<1>. HIDE DEF c, m, L
<1>4. ASSUME NEW j \in 1 .. L, j < L, ~IsNewline(c[e[j]]) PROVE FALSE
  <2>1. file # Typed /\ e[j] - e[j - 1] = Chunk
    BY <1>2, <1>4, Zenon DEF EndsLine
  <2>2. j + 1 \in 1 .. L /\ (j + 1) - 1 = j /\ j \in 0 .. L /\ j - 1 \in 0 .. L /\ j + 1 \in 0 .. L
    <3>1. L \in Nat
      BY <1>2, Zenon
    <3>. QED  BY <1>4, <3>1
  <2>3. e[j] < e[j + 1]
    BY <1>2, <2>2 DEF OneLine
  <2>4. e[j - 1] \in 0 .. m /\ e[j] \in 0 .. m /\ e[j + 1] \in 0 .. m
    BY <1>2, <2>2
  <2> DEFINE i == e[j - 1] + 1
  <2>5. i \in 1 .. m - Chunk /\ i + Chunk - 1 = e[j]
    <3>1. e[j - 1] \in Nat /\ e[j] \in Nat /\ e[j + 1] \in Nat /\ e[j + 1] <= m
      BY <1>1, <2>4
    <3>2. e[j] - e[j - 1] = Chunk /\ Chunk \in Nat
      BY <1>1, <2>1
    <3>3. \A x, y, z \in Nat : y - x = Chunk /\ y < z /\ z <= m =>
            x + 1 \in 1 .. m - Chunk /\ (x + 1) + Chunk - 1 = y
      BY <1>1
    <3>. QED  BY <2>3, <3>1, <3>2, <3>3
  <2>6. PICK p \in i .. i + Chunk - 1 : IsNewline(c[p])
    BY <1>3, <2>1, <2>5
  <2>7. p \in e[j - 1] + 1 .. e[j] - 1 \/ p = e[j]
    BY <2>4, <2>5, <2>6
  <2>8. \A q \in e[j - 1] + 1 .. e[j] - 1 : ~IsNewline(c[q])
    BY <1>2, Zenon DEF OneLine
  <2>. QED  BY <1>4, <2>6, <2>7, <2>8
<1>. QED
  BY <1>4 DEF c, L

-----------------------------------------------------------------------------
(***************************************************************************)
(* What head prints of the lines it reads.                                 *)
(***************************************************************************)
HeadStates == [text : Seq(STRING), cc : Int, ln : Int, done : BOOLEAN]
HeadStart == [text |-> <<>>, cc |-> 0, ln |-> 0, done |-> FALSE]

\* The character that head has to print last is in the line.
IsOver(s, line, byteCount) == byteCount # NoLimit /\ s.cc + Len(line) > byteCount

\* The three ways of a line: after the end, the one the last character is in, and others.
AfterLine(t, s, line, lineCount, byteCount) ==
  /\ t \in HeadStates
  /\ s.done => t = s
  /\ ~s.done /\ IsOver(s, line, byteCount) =>
       t.done /\ t.text = s.text \o SubSeq(line, 1, byteCount - s.cc)
  /\ ~s.done /\ ~IsOver(s, line, byteCount) =>
       /\ t.text = s.text \o line /\ t.cc = s.cc + Len(line) /\ t.ln = s.ln + 1
       /\ t.done <=> s.ln + 1 = lineCount

LEMMA HeadLineCases ==
  ASSUME NEW s \in HeadStates, NEW line \in Seq(STRING), NEW lineCount \in Int, NEW byteCount \in Int
  PROVE  AfterLine(HeadLine(s, line, lineCount, byteCount), s, line, lineCount, byteCount)
<1> DEFINE t == HeadLine(s, line, lineCount, byteCount)
           over == IsOver(s, line, byteCount)
           text == s.text \o SubSeq(line, 1, byteCount - s.cc)
           last == s.ln + 1 = lineCount
<1>1. s.text \in Seq(STRING) /\ s.cc \in Int /\ s.ln \in Int /\ s.done \in BOOLEAN
  BY DEF HeadStates
<1>2. CASE s.done
  <2>1. t = s
    BY <1>2, Zenon DEF HeadLine
  <2>. QED  BY <1>2, <2>1, Zenon DEF AfterLine
<1>3. CASE ~s.done /\ over
  <2>1. t = [s EXCEPT !.text = text, !.done = TRUE]
    BY <1>3, Zenon DEF HeadLine, IsOver
  <2>2. text \in Seq(STRING)
    <3>1. SubSeq(line, 1, byteCount - s.cc) \in Seq(STRING)
      <4>1. byteCount - s.cc \in Int /\ \A i \in 1 .. byteCount - s.cc : line[i] \in STRING
        BY <1>1, <1>3 DEF IsOver
      <4>. QED  BY <4>1, SubSeqProperties
    <3>. QED  BY <1>1, <3>1
  <2>. HIDE DEF t, text
  <2>3. t \in HeadStates /\ t.done /\ t.text = text
    BY <2>1, <2>2 DEF HeadStates
  <2>. QED  BY <1>3, <2>3, Zenon DEF AfterLine, t, text
<1>4. CASE ~s.done /\ ~over
  <2>1. t = [text |-> s.text \o line, cc |-> s.cc + Len(line), ln |-> s.ln + 1, done |-> last]
    BY <1>4, Zenon DEF HeadLine, IsOver
  <2>2. s.text \o line \in Seq(STRING) /\ s.cc + Len(line) \in Int /\ s.ln + 1 \in Int
    BY <1>1
  <2>3. last \in BOOLEAN
    BY Zenon
  <2>. HIDE DEF t, last
  <2>4. t.text = s.text \o line /\ t.cc = s.cc + Len(line) /\ t.ln = s.ln + 1 /\ (t.done <=> last)
    BY <2>1, Zenon
  <2>5. t \in HeadStates
    BY <2>1, <2>2, <2>3, Zenon DEF HeadStates
  <2>. QED  BY <1>4, <2>4, <2>5, Zenon DEF AfterLine, last, t
<1>. QED
  BY <1>1, <1>2, <1>3, <1>4, Zenon

\* What head has printed after each line.
HeadGoes(h, lines, lineCount, byteCount) ==
  /\ h \in [0 .. Len(lines) -> HeadStates]
  /\ h[0] = HeadStart
  /\ \A j \in 1 .. Len(lines) : h[j] = HeadLine(h[j - 1], lines[j], lineCount, byteCount)
  /\ HeadOf(lines, lineCount, byteCount) = h[Len(lines)].text

LEMMA HeadRuns ==
  ASSUME NEW lines \in Lines, NEW lineCount \in Int, NEW byteCount \in Int
  PROVE  \E h : HeadGoes(h, lines, lineCount, byteCount)
<1> DEFINE m == Len(lines)
           Step(i, s) == HeadLine(s, lines[i], lineCount, byteCount)
           Is(h) == h = [i \in 0 .. m |-> IF i = 0 THEN HeadStart ELSE Step(i, h[i - 1])]
           F == [x \in (1 .. m) \X HeadStates |-> Step(x[1], x[2])]
           run == CHOOSE h : Is(h)
<1>1. m \in Nat /\ \A i \in 1 .. m : lines[i] \in Seq(STRING)
  BY DEF Lines
<1>2. HeadStart \in HeadStates
  <2>1. <<>> \in Seq(STRING) /\ 0 \in Int
    OBVIOUS
  <2>. QED  BY <2>1, Zenon DEF HeadStart, HeadStates
<1>3. ASSUME NEW i \in 1 .. m, NEW s \in HeadStates PROVE Step(i, s) \in HeadStates
  BY <1>1, HeadLineCases DEF AfterLine
<1>4. HeadOf(lines, lineCount, byteCount) = run[m].text
  BY Zenon DEF HeadOf, HeadStart, run, Is, Step, m
<1>. HIDE DEF m, Step
<1>5. F \in [(1 .. m) \X HeadStates -> HeadStates]
      /\ \A i \in 1 .. m, x \in HeadStates : F[<<i, x>>] = Step(i, x)
  <2>. HIDE DEF HeadStates
  <2>. QED  BY <1>3
<1>. HIDE DEF F
<1>6. PICK h : GoesOn(h, F, HeadStart, m, HeadStates)
  BY <1>1, <1>2, <1>5, RecursionRuns
<1>. HIDE DEF HeadStates, HeadStart
<1>7. h \in [0 .. m -> HeadStates] /\ h[0] = HeadStart /\ \A i \in 1 .. m : h[i] = Step(i, h[i - 1])
  <2>1. ASSUME NEW i \in 1 .. m PROVE h[i] = Step(i, h[i - 1])
    <3>1. i - 1 \in 0 .. m
      BY <1>1
    <3>. QED  BY <1>5, <1>6, <3>1 DEF GoesOn
  <2>. QED  BY <1>6, <2>1 DEF GoesOn
<1>8. Is(h)
  <2>1. \A i \in 0 .. m : h[i] = IF i = 0 THEN HeadStart ELSE Step(i, h[i - 1])
    BY <1>1, <1>7
  <2>2. h = [i \in 0 .. m |-> h[i]]
    BY <1>7
  <2>. QED  BY <2>1, <2>2, Zenon
<1>9. Is(run)
  BY <1>8, Zenon
<1>. HIDE DEF run
<1>10. \A i \in 0 .. m : run[i] = IF i = 0 THEN HeadStart ELSE Step(i, run[i - 1])
  BY <1>9, Zenon
<1>. HIDE DEF Is
<1>11. run[m] = h[m]
  <2>1. run[0] = h[0]
    BY <1>1, <1>7, <1>10
  <2>2. ASSUME NEW i \in 1 .. m, run[i - 1] = h[i - 1] PROVE run[i] = h[i]
    <3>1. i \in 0 .. m /\ i # 0
      BY <1>1
    <3>. QED  BY <1>7, <1>10, <2>2, <3>1, Zenon
  <2>. QED  BY <1>1, <2>1, <2>2, AgreeUpTo
<1>. QED
  BY <1>4, <1>7, <1>11, Zenon DEF HeadGoes, Step, m

\* A text and what follows it in the same file.
LEMMA TextGoesOn ==
  ASSUME NEW c \in Seq(STRING), NEW a \in 0 .. Len(c), NEW b \in a .. Len(c), NEW k \in 0 .. b - a
  PROVE  /\ SubSeq(c, 1, a) \o SubSeq(c, a + 1, b) = SubSeq(c, 1, b)
         /\ SubSeq(SubSeq(c, a + 1, b), 1, k) = SubSeq(c, a + 1, a + k)
         /\ SubSeq(c, a + 1, b) \in Seq(STRING) /\ Len(SubSeq(c, a + 1, b)) = b - a
<1>1. SubSeq(c, 1, a) \o SubSeq(c, a + 1, b) = SubSeq(c, 1, b)
  <2>1. 1 \in 1 .. Len(c) + 1 /\ a \in 1 - 1 .. Len(c) /\ b \in a .. Len(c)
    OBVIOUS
  <2>. QED  BY <2>1, ConcatAdjacentSubSeq
<1> DEFINE line == SubSeq(c, a + 1, b)
<1>2. line \in Seq(STRING) /\ Len(line) = b - a /\ \A i \in 1 .. b - a : line[i] = c[a + i]
  <2>1. \A i \in a + 1 .. b : c[i] \in STRING
    OBVIOUS
  <2>2. /\ line \in Seq(STRING)
        /\ Len(line) = IF a + 1 <= b THEN b - (a + 1) + 1 ELSE 0
        /\ \A i \in 1 .. b - (a + 1) + 1 : line[i] = c[a + 1 + i - 1]
    BY <2>1, SubSeqProperties
  <2>. QED  BY <2>2
<1>. HIDE DEF line
<1>3. SubSeq(line, 1, k) = SubSeq(c, a + 1, a + k)
  <2> DEFINE x == SubSeq(line, 1, k)
             y == SubSeq(c, a + 1, a + k)
  <2>1. x \in Seq(STRING) /\ Len(x) = k /\ \A i \in 1 .. k : x[i] = line[i]
    <3>1. \A i \in 1 .. k : line[i] \in STRING
      BY <1>2
    <3>2. /\ x \in Seq(STRING)
          /\ Len(x) = IF 1 <= k THEN k - 1 + 1 ELSE 0
          /\ \A i \in 1 .. k - 1 + 1 : x[i] = line[1 + i - 1]
      BY <3>1, SubSeqProperties
    <3>. QED  BY <3>2
  <2>2. y \in Seq(STRING) /\ Len(y) = k /\ \A i \in 1 .. k : y[i] = c[a + i]
    <3>1. \A i \in a + 1 .. a + k : c[i] \in STRING
      OBVIOUS
    <3> DEFINE from == a + 1
               to == a + k
    <3>2. from \in Int /\ to \in Int /\ k \in Nat /\ to - from + 1 = k
          /\ (IF from <= to THEN to - from + 1 ELSE 0) = k
          /\ \A i \in 1 .. k : from + i - 1 = a + i
      OBVIOUS
    <3>. HIDE DEF from, to
    <3>3. /\ SubSeq(c, from, to) \in Seq(STRING)
          /\ Len(SubSeq(c, from, to)) = IF from <= to THEN to - from + 1 ELSE 0
          /\ \A i \in 1 .. to - from + 1 : SubSeq(c, from, to)[i] = c[from + i - 1]
      BY <3>1, <3>2, SubSeqProperties DEF from, to
    <3>. QED  BY <3>2, <3>3 DEF from, to
  <2>. HIDE DEF x, y
  <2>3. \A i \in 1 .. k : x[i] = y[i]
    BY <1>2, <2>1, <2>2
  <2>4. x = y
    BY <2>1, <2>2, <2>3
  <2>. QED  BY <2>4 DEF x, y
<1>. QED
  BY <1>1, <1>2, <1>3 DEF line

\* Told a number of characters, head prints so many of them, or all there are.
LEMMA HeadInChars ==
  ASSUME NEW file \in DOMAIN Contents, NEW lines, NEW e,
         CutAt(lines, e, file, Len(Contents[file])), NEW n \in Nat \ {0}
  PROVE  HeadOf(lines, NoLimit, n) = FirstChars(Contents[file], n)
<1> DEFINE c == Contents[file]
           m == Len(c)
           L == Len(lines)
<1>1. c \in Seq(STRING) /\ m \in Nat /\ NoLimit \in Int /\ n # NoLimit /\ n \in Int
  BY ShellAssumption DEF NoLimit
<1>2. /\ lines \in Lines /\ L \in Nat /\ e \in [0 .. L -> 0 .. m] /\ e[0] = 0 /\ e[L] = m
      /\ \A j \in 1 .. L : e[j - 1] < e[j] /\ lines[j] = SubSeq(c, e[j - 1] + 1, e[j])
  BY DEF CutAt, Lines, OneLine
<1>3. PICK h : HeadGoes(h, lines, NoLimit, n)
  BY <1>1, <1>2, HeadRuns
<1>4. /\ h \in [0 .. L -> HeadStates] /\ h[0] = HeadStart
      /\ \A j \in 1 .. L : h[j] = HeadLine(h[j - 1], lines[j], NoLimit, n)
      /\ HeadOf(lines, NoLimit, n) = h[L].text
  BY <1>3, Zenon DEF HeadGoes
<1>. HIDE DEF c, m, L
<1> DEFINE Going(s, j) == ~s.done /\ e[j] <= n /\ s.cc = e[j] /\ s.ln = j /\ s.text = SubSeq(c, 1, e[j])
           Gone(s, j) == s.done /\ n <= e[j] /\ s.text = SubSeq(c, 1, n)
           S == {j \in 0 .. L : Going(h[j], j) \/ Gone(h[j], j)}
<1>5. 0 \in S
  <2>1. SubSeq(c, 1, 0) = <<>>
    BY SubSeqEmpty
  <2>2. ~HeadStart.done /\ HeadStart.cc = 0 /\ HeadStart.ln = 0 /\ HeadStart.text = <<>>
    BY Zenon DEF HeadStart
  <2>3. 0 <= n /\ 0 \in 0 .. L
    BY <1>1, <1>2
  <2>4. Going(h[0], 0)
    BY <1>2, <1>4, <2>1, <2>2, <2>3, Zenon
  <2>. QED  BY <2>3, <2>4, Zenon
<1>6. ASSUME NEW k \in 0 .. L - 1, k \in S PROVE k + 1 \in S
  <2> DEFINE j == k + 1
             s == h[k]
             t == h[j]
             a == e[k]
             b == e[j]
             line == lines[j]
  <2>1. j \in 1 .. L /\ j \in 0 .. L /\ k \in 0 .. L /\ j - 1 = k
    BY <1>2
  <2>2. s \in HeadStates /\ a \in 0 .. m /\ b \in 0 .. m /\ a < b /\ line = SubSeq(c, a + 1, b)
        /\ t = HeadLine(s, line, NoLimit, n)
    BY <1>2, <1>4, <2>1
  <2>3. s.cc \in Int /\ s.ln \in Int
    BY <2>2 DEF HeadStates
  <2>4. Going(s, k) \/ Gone(s, k)
    BY <1>6
  <2>. HIDE DEF j, s, t, a, b, line, HeadStates
  <2>5. line \in Seq(STRING) /\ Len(line) = b - a /\ SubSeq(c, 1, a) \o line = SubSeq(c, 1, b)
    <3>1. a \in 0 .. Len(c) /\ b \in a .. Len(c) /\ 0 \in 0 .. b - a
      BY <1>1, <2>2 DEF m
    <3>. QED  BY <1>1, <2>2, <3>1, TextGoesOn
  <2> DEFINE over == IsOver(s, line, n)
  <2>6. /\ s.done => t = s
        /\ ~s.done /\ over => t.done /\ t.text = s.text \o SubSeq(line, 1, n - s.cc)
        /\ ~s.done /\ ~over => /\ t.text = s.text \o line /\ t.cc = s.cc + Len(line)
                               /\ t.ln = s.ln + 1 /\ (t.done <=> s.ln + 1 = NoLimit)
    <3>1. AfterLine(HeadLine(s, line, NoLimit, n), s, line, NoLimit, n)
      BY <1>1, <2>2, <2>5, HeadLineCases
    <3>. QED  BY <2>2, <3>1, Zenon DEF AfterLine
  <2>7. CASE Gone(s, k)
    <3>1. s.done /\ n <= a /\ s.text = SubSeq(c, 1, n)
      BY <2>7 DEF s, a
    <3>2. Gone(t, j)
      <4>1. n <= b
        BY <1>1, <2>2, <3>1
      <4>. QED  BY <2>6, <3>1, <4>1, Zenon DEF b
    <3>. QED  BY <2>1, <3>2 DEF t, j
  <2>8. CASE Going(s, k)
    <3>1. ~s.done /\ a <= n /\ s.cc = a /\ s.ln = k /\ s.text = SubSeq(c, 1, a)
      BY <2>8 DEF s, a
    <3>2. CASE b > n
      <4>1. over
        BY <1>1, <2>2, <2>5, <3>1, <3>2 DEF IsOver
      <4>2. t.done /\ t.text = s.text \o SubSeq(line, 1, n - s.cc)
        BY <2>6, <3>1, <4>1, Zenon
      <4>3. a \in 0 .. Len(c) /\ b \in a .. Len(c) /\ n \in a .. Len(c) /\ n - a \in 0 .. b - a
            /\ a + (n - a) = n /\ 0 \in 0 .. n - a
        BY <1>1, <2>2, <3>1, <3>2 DEF m
      <4>4. SubSeq(line, 1, n - a) = SubSeq(c, a + 1, n)
        <5>1. SubSeq(SubSeq(c, a + 1, b), 1, n - a) = SubSeq(c, a + 1, a + (n - a))
          BY <1>1, <4>3, TextGoesOn
        <5>. QED  BY <2>2, <4>3, <5>1
      <4>5. SubSeq(c, 1, a) \o SubSeq(c, a + 1, n) = SubSeq(c, 1, n)
        BY <1>1, <4>3, TextGoesOn
      <4>6. t.text = SubSeq(c, 1, n)
        BY <3>1, <4>2, <4>4, <4>5, Zenon
      <4>7. n <= b
        BY <1>1, <2>2, <3>2
      <4>8. Gone(t, j)
        BY <4>2, <4>6, <4>7, Zenon DEF b
      <4>. QED  BY <2>1, <4>8 DEF t, j
    <3>3. CASE ~(b > n)
      <4>1. ~over
        BY <1>1, <2>2, <2>5, <3>1, <3>3 DEF IsOver
      <4>2. k + 1 # NoLimit /\ a + (b - a) = b /\ b <= n
        BY <1>1, <2>2, <3>3 DEF NoLimit
      <4>3. t.text = s.text \o line /\ t.cc = s.cc + Len(line) /\ t.ln = s.ln + 1 /\ ~t.done
        BY <2>6, <3>1, <4>1, <4>2, Zenon
      <4>4. t.text = SubSeq(c, 1, b) /\ t.cc = b /\ t.ln = j
        BY <2>5, <3>1, <4>2, <4>3, Zenon DEF j
      <4>5. Going(t, j)
        BY <4>2, <4>3, <4>4, Zenon DEF b
      <4>. QED  BY <2>1, <4>5 DEF t, j
    <3>. QED  BY <3>2, <3>3
  <2>. QED  BY <2>4, <2>7, <2>8
<1>7. L \in S
  <2>. HIDE DEF S
  <2>1. \A k \in 0 .. L : k \in S
    BY <1>2, <1>5, <1>6, Upward
  <2>. QED  BY <1>2, <2>1
<1>8. h[L].text = SubSeq(c, 1, IF n < m THEN n ELSE m)
  <2>1. Going(h[L], L) => h[L].text = SubSeq(c, 1, m) /\ m <= n
    BY <1>2
  <2>2. Gone(h[L], L) => h[L].text = SubSeq(c, 1, n) /\ n <= m
    BY <1>2
  <2>3. IF n < m THEN ~(m <= n) ELSE n <= m => n = m
    BY <1>1
  <2>. QED  BY <1>7, <2>1, <2>2, <2>3
<1>. QED
  BY <1>4, <1>8, Zenon DEF FirstChars, m, c

\* Told a number of lines, it prints so many, or all there are.
LEMMA HeadInLines ==
  ASSUME NEW file \in DOMAIN Contents, NEW lines, NEW e,
         CutAt(lines, e, file, Len(Contents[file])), NEW n \in Nat \ {0}
  PROVE  HeadOf(lines, n, NoLimit)
           = SubSeq(Contents[file], 1, e[IF n < Len(lines) THEN n ELSE Len(lines)])
<1> DEFINE c == Contents[file]
           m == Len(c)
           L == Len(lines)
<1>1. c \in Seq(STRING) /\ m \in Nat /\ NoLimit \in Int /\ n \in Int
  BY ShellAssumption DEF NoLimit
<1>2. /\ lines \in Lines /\ L \in Nat /\ e \in [0 .. L -> 0 .. m] /\ e[0] = 0 /\ e[L] = m
      /\ \A j \in 1 .. L : e[j - 1] < e[j] /\ lines[j] = SubSeq(c, e[j - 1] + 1, e[j])
  BY DEF CutAt, Lines, OneLine
<1>3. PICK h : HeadGoes(h, lines, n, NoLimit)
  BY <1>1, <1>2, HeadRuns
<1>4. /\ h \in [0 .. L -> HeadStates] /\ h[0] = HeadStart
      /\ \A j \in 1 .. L : h[j] = HeadLine(h[j - 1], lines[j], n, NoLimit)
      /\ HeadOf(lines, n, NoLimit) = h[L].text
  BY <1>3, Zenon DEF HeadGoes
<1>. HIDE DEF c, m, L
<1> DEFINE Going(s, j) == ~s.done /\ j < n /\ s.ln = j /\ s.text = SubSeq(c, 1, e[j])
           Gone(s, j) == s.done /\ n <= j /\ s.text = SubSeq(c, 1, e[n])
           S == {j \in 0 .. L : Going(h[j], j) \/ Gone(h[j], j)}
<1>5. 0 \in S
  <2>1. SubSeq(c, 1, 0) = <<>> /\ 0 < n
    BY SubSeqEmpty
  <2>2. ~HeadStart.done /\ HeadStart.ln = 0 /\ HeadStart.text = <<>>
    BY Zenon DEF HeadStart
  <2>3. 0 \in 0 .. L
    BY <1>2
  <2>4. Going(h[0], 0)
    BY <1>2, <1>4, <2>1, <2>2, Zenon
  <2>. QED  BY <2>3, <2>4, Zenon
<1>6. ASSUME NEW k \in 0 .. L - 1, k \in S PROVE k + 1 \in S
  <2> DEFINE j == k + 1
             s == h[k]
             t == h[j]
             a == e[k]
             b == e[j]
             line == lines[j]
  <2>1. j \in 1 .. L /\ j \in 0 .. L /\ k \in 0 .. L /\ j - 1 = k
    BY <1>2
  <2>2. s \in HeadStates /\ a \in 0 .. m /\ b \in 0 .. m /\ a < b /\ line = SubSeq(c, a + 1, b)
        /\ t = HeadLine(s, line, n, NoLimit)
    BY <1>2, <1>4, <2>1
  <2>3. Going(s, k) \/ Gone(s, k)
    BY <1>6
  <2>. HIDE DEF j, s, t, a, b, line, HeadStates
  <2>4. line \in Seq(STRING) /\ SubSeq(c, 1, a) \o line = SubSeq(c, 1, b)
    <3>1. a \in 0 .. Len(c) /\ b \in a .. Len(c) /\ 0 \in 0 .. b - a
      BY <1>1, <2>2 DEF m
    <3>. QED  BY <1>1, <2>2, <3>1, TextGoesOn
  <2>5. /\ s.done => t = s
        /\ ~s.done => t.text = s.text \o line /\ t.ln = s.ln + 1 /\ (t.done <=> s.ln + 1 = n)
    <3>1. AfterLine(HeadLine(s, line, n, NoLimit), s, line, n, NoLimit)
      BY <1>1, <2>2, <2>4, HeadLineCases
    <3>. QED  BY <2>2, <3>1, Zenon DEF AfterLine, IsOver
  <2>6. CASE Gone(s, k)
    <3>1. s.done /\ n <= k /\ s.text = SubSeq(c, 1, e[n])
      BY <2>6 DEF s
    <3>2. n <= j
      BY <3>1 DEF j
    <3>3. Gone(t, j)
      BY <2>5, <3>1, <3>2, Zenon
    <3>. QED  BY <2>1, <3>3 DEF t, j
  <2>7. CASE Going(s, k)
    <3>1. ~s.done /\ k < n /\ s.ln = k /\ s.text = SubSeq(c, 1, a)
      BY <2>7 DEF s, a
    <3>2. t.text = SubSeq(c, 1, b) /\ t.ln = j /\ (t.done <=> j = n)
      BY <2>4, <2>5, <3>1, Zenon DEF j
    <3>3. j < n \/ j = n
      BY <3>1 DEF j
    <3>4. CASE j = n
      <4>1. n <= j /\ b = e[n]
        BY <3>4 DEF b
      <4>2. Gone(t, j)
        BY <3>2, <3>4, <4>1, Zenon
      <4>. QED  BY <2>1, <4>2 DEF t, j
    <3>5. CASE j < n
      <4>1. j # n
        BY <2>1, <3>5
      <4>2. Going(t, j)
        BY <3>2, <3>5, <4>1, Zenon DEF b
      <4>. QED  BY <2>1, <4>2 DEF t, j
    <3>. QED  BY <3>3, <3>4, <3>5
  <2>. QED  BY <2>3, <2>6, <2>7
<1>7. L \in S
  <2>. HIDE DEF S
  <2>1. \A k \in 0 .. L : k \in S
    BY <1>2, <1>5, <1>6, Upward
  <2>. QED  BY <1>2, <2>1
<1>8. h[L].text = SubSeq(c, 1, e[IF n < L THEN n ELSE L])
  <2>1. Going(h[L], L) => h[L].text = SubSeq(c, 1, e[L]) /\ ~(n < L)
    BY <1>2
  <2>2. Gone(h[L], L) => h[L].text = SubSeq(c, 1, e[n]) /\ (n < L \/ n = L)
    BY <1>2
  <2>. QED  BY <1>7, <2>1, <2>2
<1>. QED
  BY <1>4, <1>8, Zenon DEF c, L

\* What head prints of a file that is open.
LEMMA HeadPrints ==
  ASSUME NEW file \in DOMAIN Contents, NEW n \in Nat \ {0}
  PROVE  /\ HeadOf(ReadLines(file), NoLimit, n) = FirstChars(Contents[file], n)
         /\ file = Typed \/ LinesFit(file) =>
              HeadOf(ReadLines(file), n, NoLimit) = FirstLines(Contents[file], n)
<1> DEFINE lines == ReadLines(file)
<1>1. PICK e : CutAt(lines, e, file, Len(Contents[file]))
  BY FileCut
<1>. HIDE DEF lines
<1>2. HeadOf(lines, NoLimit, n) = FirstChars(Contents[file], n)
  BY <1>1, HeadInChars
<1>3. ASSUME file = Typed \/ LinesFit(file)
      PROVE  HeadOf(lines, n, NoLimit) = FirstLines(Contents[file], n)
  <2>1. \A j \in 1 .. Len(lines) : j < Len(lines) => IsNewline(Contents[file][e[j]])
    BY <1>1, <1>3, LinesEnd
  <2>2. FirstLines(Contents[file], n)
          = SubSeq(Contents[file], 1, e[IF n < Len(lines) THEN n ELSE Len(lines)])
    BY <1>1, <2>1, FirstLinesCut
  <2>3. HeadOf(lines, n, NoLimit)
          = SubSeq(Contents[file], 1, e[IF n < Len(lines) THEN n ELSE Len(lines)])
    BY <1>1, HeadInLines
  <2>. QED  BY <2>2, <2>3, Zenon
<1>. QED
  BY <1>2, <1>3, Zenon DEF lines

-----------------------------------------------------------------------------
(***************************************************************************)
(* What head is told.                                                      *)
(***************************************************************************)
\* Its first two options take a number, the third begins the list.
TakesNumber(x) == headOpts[x].min = 1 /\ headOpts[x].max = IntMax
LetterOf(x) == headOpts[x].letter

LEMMA HeadOptions ==
  /\ DOMAIN headOpts = 1 .. 3
  /\ LetterOf(1) = "n" /\ LetterOf(2) = "c" /\ LetterOf(3) = " "
  /\ TakesNumber(1) /\ TakesNumber(2)
  /\ headOpts[3].type = "List"
  /\ headOpts[1].default = NoLimit /\ headOpts[2].default = NoLimit /\ headOpts[3].default = 0
<1> DEFINE o1 == [letter |-> "n", type |-> "Int",  exclusive |-> FALSE, default |-> NoLimit, min |-> 1, max |-> IntMax]
           o2 == [letter |-> "c", type |-> "Int",  exclusive |-> TRUE,  default |-> NoLimit, min |-> 1, max |-> IntMax]
           o3 == [letter |-> " ", type |-> "List", exclusive |-> FALSE, default |-> 0, min |-> 0, max |-> 0]
<1>1. headOpts = <<o1, o2, o3>>
  BY Zenon DEF headOpts
<1>2. /\ o1.letter = "n" /\ o1.default = NoLimit /\ o1.min = 1 /\ o1.max = IntMax
      /\ o2.letter = "c" /\ o2.default = NoLimit /\ o2.min = 1 /\ o2.max = IntMax
      /\ o3.letter = " " /\ o3.default = 0 /\ o3.type = "List"
  BY Zenon
<1>. HIDE DEF o1, o2, o3
<1>3. DOMAIN headOpts = 1 .. 3 /\ headOpts[1] = o1 /\ headOpts[2] = o2 /\ headOpts[3] = o3
  BY <1>1
<1>. QED
  BY <1>2, <1>3, Zenon DEF LetterOf, TakesNumber

\* A positive int is left as it is by the cast.
LEMMA PositiveInt ==
  ASSUME NEW n \in 1 .. IntMax
  PROVE  Int32(n) = n
<1>1. IntMax \in Nat \ {0}
  BY ShellAssumption
<1> DEFINE a == n + IntMax + 1
           b == 2*(IntMax + 1)
<1>2. a \in Nat /\ b \in Nat \ {0} /\ a < b /\ a - IntMax - 1 = n
  BY <1>1
<1>3. Int32(n) = (a % b) - IntMax - 1
  BY DEF Int32
<1>. HIDE DEF a, b
<1>4. a % b = a
  BY <1>2
<1>. QED
  BY <1>2, <1>3, <1>4

\* An option of head has its letter, and no other option has.
LEMMA OptionFound ==
  ASSUME NEW x \in {1, 2}
  PROVE  {y \in DOMAIN headOpts : headOpts[y].letter = LetterOf(x)} = {x}
<1>1. \A y : y \in 1 .. 3 => y = 1 \/ y = 2 \/ y = 3
  OBVIOUS
<1>2. LetterOf(1) # LetterOf(2) /\ LetterOf(1) # LetterOf(3) /\ LetterOf(2) # LetterOf(3)
  BY HeadOptions, Zenon
<1>3. ASSUME NEW y \in DOMAIN headOpts, LetterOf(y) = LetterOf(x) PROVE y = x
  <2>1. y = 1 \/ y = 2 \/ y = 3
    BY <1>1, HeadOptions, Zenon
  <2>2. CASE x = 1
    BY <1>2, <1>3, <2>1, <2>2, Zenon
  <2>3. CASE x = 2
    BY <1>2, <1>3, <2>1, <2>3, Zenon
  <2>. QED  BY <2>2, <2>3
<1>4. x \in DOMAIN headOpts
  <2>1. x \in 1 .. 3
    OBVIOUS
  <2>. QED  BY <2>1, HeadOptions, Zenon
<1>. QED
  BY <1>3, <1>4, Zenon DEF LetterOf

\* Nothing wrong so far, and no list.
Parsing(s) == s.status = "ok" /\ s.list = 0

LEMMA ListBegins ==
  ASSUME NEW s, NEW i, NEW w, Parsing(s), s.pending = 0, ~w.dash
  PROVE  ParseWord(s, headOpts, i, w) = [s EXCEPT !.list = i]
<1>1. 3 \in DOMAIN headOpts /\ headOpts[3].type = "List"
  <2>1. 3 \in 1 .. 3
    OBVIOUS
  <2>. QED  BY <2>1, HeadOptions, Zenon
<1>. QED
  BY <1>1, Zenon DEF ParseWord, Parsing

LEMMA ListGoesOn ==
  ASSUME NEW s, NEW i, NEW w, s.list # 0
  PROVE  ParseWord(s, headOpts, i, w) = s
BY Zenon DEF ParseWord

LEMMA NumberAwaited ==
  ASSUME NEW s, NEW i, NEW w, NEW x \in {1, 2}, Parsing(s), s.pending = 0,
         w.dash, w.letter = LetterOf(x), w.tail.is = "none"
  PROVE  ParseWord(s, headOpts, i, w) = [s EXCEPT !.pending = x]
<1> DEFINE matching == {y \in DOMAIN headOpts : headOpts[y].letter = w.letter}
<1>1. matching = {x}
  <2>1. matching = {y \in DOMAIN headOpts : headOpts[y].letter = LetterOf(x)}
    BY Zenon
  <2>. QED  BY <2>1, OptionFound, Zenon
<1>. HIDE DEF matching
<1>2. matching # {} /\ (CHOOSE y \in matching : TRUE) = x
  BY <1>1, Zenon
<1>. QED
  BY <1>2, Zenon DEF ParseWord, Parsing, matching

LEMMA NumberFollows ==
  ASSUME NEW s, NEW i, NEW w, NEW x \in {1, 2}, Parsing(s), s.pending = 0,
         w.dash, w.letter = LetterOf(x), w.tail.is = "number"
  PROVE  ParseWord(s, headOpts, i, w) = Take(s, headOpts, x, w.tail)
<1> DEFINE matching == {y \in DOMAIN headOpts : headOpts[y].letter = w.letter}
<1>1. matching = {x}
  <2>1. matching = {y \in DOMAIN headOpts : headOpts[y].letter = LetterOf(x)}
    BY Zenon
  <2>. QED  BY <2>1, OptionFound, Zenon
<1>. HIDE DEF matching
<1>2. matching # {} /\ (CHOOSE y \in matching : TRUE) = x
  BY <1>1, Zenon
<1>3. w.tail.is # "none"
  BY Zenon
<1>. QED
  BY <1>2, <1>3, Zenon DEF ParseWord, Parsing, matching

LEMMA NumberGiven ==
  ASSUME NEW s, NEW i, NEW w, NEW x \in {1, 2}, Parsing(s), s.pending = x
  PROVE  ParseWord(s, headOpts, i, w) = Take(s, headOpts, x, w.value)
<1>1. x # 0
  OBVIOUS
<1>. QED
  BY <1>1, Zenon DEF ParseWord, Parsing

\* A number in its range is the option's value.
WithNumber(s, x, n) ==
  [s EXCEPT !.pending = 0, !.wasSet = s.wasSet \cup {x}, !.result[x] = n, !.status = "ok"]

LEMMA NumberTaken ==
  ASSUME NEW s, NEW x \in {1, 2}, NEW value, value.is = "number", value.n \in 1 .. IntMax,
         s.status = "ok"
  PROVE  Take(s, headOpts, x, value) = WithNumber(s, x, value.n)
<1> DEFINE n == value.n
<1>1. Int32(n) = n
  BY PositiveInt, Zenon
<1>2. 1 <= n /\ n <= IntMax /\ ~(n < 1) /\ ~(n > IntMax)
  BY ShellAssumption
<1>3. headOpts[x].min = 1 /\ headOpts[x].max = IntMax
  BY HeadOptions, Zenon DEF TakesNumber
<1>4. value.is # "text"
  BY Zenon
<1>5. ~(value.is = "text" \/ n < headOpts[x].min \/ n > headOpts[x].max)
  BY <1>2, <1>3, <1>4, Zenon
<1>. QED
  BY <1>1, <1>5, Zenon DEF Take, WithNumber

\* The states of the parser that has found nothing wrong.
Fine == {"ok"}
ParseStates ==
  [status : Fine, pending : Nat, wasSet : SUBSET Nat, list : Nat, result : [1 .. 3 -> Int]]

\* Word after word.
LEMMA WordsParsed ==
  ASSUME NEW optV, NEW words, Len(words) \in Nat, NEW g, g[0] = NothingParsed(optV),
         \A i \in 1 .. Len(words) : g[i] = ParseWord(g[i - 1], optV, i, Word[words[i]])
  PROVE  parse_words(optV, words) = g[Len(words)]
<1> DEFINE m == Len(words)
           First == NothingParsed(optV)
           Step(i, s) == ParseWord(s, optV, i, Word[words[i]])
           Is(h) == h = [i \in 0 .. m |-> IF i = 0 THEN First ELSE Step(i, h[i - 1])]
           run == CHOOSE h : Is(h)
           f == [i \in 0 .. m |-> g[i]]
<1>1. m \in Nat /\ g[0] = First /\ \A i \in 1 .. m : g[i] = Step(i, g[i - 1])
  BY Zenon
<1>2. parse_words(optV, words) = run[m]
  BY Zenon DEF parse_words, run, Is, Step, First, m
<1>. HIDE DEF m, Step, First
<1>3. \A i \in 0 .. m : f[i] = g[i]
  OBVIOUS
<1>4. Is(f)
  <2>1. \A i \in 0 .. m : f[i] = IF i = 0 THEN First ELSE Step(i, f[i - 1])
    <3>1. \A i \in 0 .. m : i # 0 => i \in 1 .. m /\ i - 1 \in 0 .. m
      BY <1>1
    <3>2. 0 \in 0 .. m
      BY <1>1
    <3>. HIDE DEF f
    <3>3. ASSUME NEW i \in 0 .. m, i # 0 PROVE f[i] = Step(i, f[i - 1])
      <4>1. f[i - 1] = g[i - 1] /\ f[i] = g[i]
        BY <1>3, <3>1, <3>3, Zenon
      <4>. QED  BY <1>1, <3>1, <3>3, <4>1, Zenon
    <3>. QED  BY <1>1, <1>3, <3>2, <3>3, Zenon
  <2>2. f = [i \in 0 .. m |-> f[i]]
    OBVIOUS
  <2>. HIDE DEF f
  <2>. QED  BY <2>1, <2>2, Zenon
<1>5. Is(run)
  <2>. HIDE DEF f
  <2>. QED  BY <1>4, Zenon
<1>. HIDE DEF run
<1>6. \A i \in 0 .. m : run[i] = IF i = 0 THEN First ELSE Step(i, run[i - 1])
  BY <1>5, Zenon
<1>. HIDE DEF Is
<1>7. run[m] = g[m]
  <2>1. 0 \in 0 .. m
    BY <1>1
  <2>2. run[0] = g[0]
    BY <1>1, <1>6, <2>1, Zenon
  <2>3. ASSUME NEW i \in 1 .. m, run[i - 1] = g[i - 1] PROVE run[i] = g[i]
    <3>1. i \in 0 .. m /\ i # 0
      BY <1>1
    <3>. QED  BY <1>1, <1>6, <2>3, <3>1, Zenon
  <2>. QED  BY <1>1, <2>2, <2>3, AgreeUpTo
<1>. QED
  BY <1>2, <1>7, Zenon DEF m

\* The first k words are options and their numbers, the others are the list.
LEMMA ListParsed ==
  ASSUME NEW words, Len(words) \in Nat, NEW k \in Nat, k <= Len(words),
         \A i \in k + 1 .. Len(words) : ~Word[words[i]].dash,
         NEW u, u[0] = NothingParsed(headOpts),
         \A i \in 1 .. k : u[i] = ParseWord(u[i - 1], headOpts, i, Word[words[i]]),
         u[k] \in ParseStates, Parsing(u[k]), u[k].pending = 0
  PROVE  parse_words(headOpts, words) = IF k < Len(words) THEN [u[k] EXCEPT !.list = k + 1] ELSE u[k]
<1> DEFINE m == Len(words)
           t == u[k]
           listed == [t EXCEPT !.list = k + 1]
           g == [i \in 0 .. m |-> IF i <= k THEN u[i] ELSE listed]
           Step(i, s) == ParseWord(s, headOpts, i, Word[words[i]])
<1>1. m \in Nat /\ k \in 0 .. m
  OBVIOUS
<1>2. \A i \in 1 .. k : u[i] = Step(i, u[i - 1])
  BY Zenon
<1>3. listed.list # 0
  <2>1. t \in ParseStates /\ k + 1 # 0
    BY <1>1
  <2>. HIDE DEF t
  <2>. QED  BY <2>1 DEF ParseStates
<1>4. \A i \in k + 1 .. m : Step(i, t) = [t EXCEPT !.list = i] /\ Step(i, listed) = listed
  <2>. HIDE DEF listed, t
  <2>1. \A i \in k + 1 .. m : Step(i, t) = [t EXCEPT !.list = i]
    <3>. SUFFICES ASSUME NEW i \in k + 1 .. m PROVE Step(i, t) = [t EXCEPT !.list = i]
      BY Zenon
    <3>1. ~Word[words[i]].dash
      BY Zenon
    <3>2. Parsing(t) /\ t.pending = 0
      BY Zenon DEF t
    <3>. HIDE DEF Step
    <3>3. ParseWord(t, headOpts, i, Word[words[i]]) = [t EXCEPT !.list = i]
      BY <3>1, <3>2, ListBegins
    <3>. QED  BY <3>3, Zenon DEF Step
  <2>2. \A i \in k + 1 .. m : Step(i, listed) = listed
    BY <1>3, ListGoesOn, Zenon
  <2>. QED  BY <2>1, <2>2, Zenon
<1>. HIDE DEF Step, m
<1>5. \A i \in 0 .. m : g[i] = IF i <= k THEN u[i] ELSE listed
  OBVIOUS
<1>. HIDE DEF g
<1>6. g[0] = NothingParsed(headOpts)
  <2>1. 0 \in 0 .. m /\ 0 <= k
    BY <1>1
  <2>. QED  BY <1>5, <2>1, Zenon
<1>7. ASSUME NEW i \in 1 .. m PROVE g[i] = Step(i, g[i - 1])
  <2>1. i \in 0 .. m /\ i - 1 \in 0 .. m
    BY <1>1
  <2>2. CASE i <= k
    <3>1. i \in 1 .. k /\ i - 1 <= k
      BY <1>1, <2>2
    <3>. QED  BY <1>2, <1>5, <2>1, <2>2, <3>1, Zenon
  <2>3. CASE i = k + 1
    <3>1. i \in k + 1 .. m /\ i - 1 = k /\ ~(i <= k) /\ i - 1 <= k
      BY <1>1, <2>3
    <3>2. g[i] = listed /\ g[i - 1] = t
      BY <1>5, <2>1, <3>1, Zenon
    <3>3. Step(i, t) = listed
      BY <1>4, <2>3, <3>1, Zenon
    <3>. QED  BY <3>2, <3>3, Zenon
  <2>4. CASE i > k + 1
    <3>1. i \in k + 1 .. m /\ ~(i <= k) /\ ~(i - 1 <= k)
      BY <1>1, <2>4
    <3>2. g[i] = listed /\ g[i - 1] = listed
      BY <1>5, <2>1, <3>1, Zenon
    <3>. QED  BY <1>4, <3>1, <3>2, Zenon
  <2>. QED  BY <1>1, <2>2, <2>3, <2>4
<1>8. parse_words(headOpts, words) = g[m]
  <2>1. \A i \in 1 .. Len(words) : g[i] = ParseWord(g[i - 1], headOpts, i, Word[words[i]])
    BY <1>7, Zenon DEF Step, m
  <2>2. parse_words(headOpts, words) = g[Len(words)]
    BY <1>6, <2>1, WordsParsed
  <2>. QED  BY <2>2, Zenon DEF m
<1>9. g[m] = IF k < m THEN listed ELSE u[k]
  <2>1. m \in 0 .. m /\ (m <= k <=> ~(k < m)) /\ (~(k < m) => m = k)
    BY <1>1
  <2>. QED  BY <1>5, <2>1, Zenon
<1>. QED
  BY <1>8, <1>9, Zenon DEF m, listed, t

\* What is left where nothing was told, and where a number was.
AfterNumber(t, s, p, set, x, n, ok) ==
  /\ t \in ParseStates /\ t.pending = p /\ t.wasSet = set /\ t.list = s.list
  /\ t.status = ok
  /\ \A y \in 1 .. 3 : t.result[y] = IF y = x THEN n ELSE s.result[y]

LEMMA FieldsKept ==
  ASSUME NEW s \in ParseStates, NEW p \in Nat, NEW set \in SUBSET Nat, NEW x \in 1 .. 3,
         NEW n \in Int, NEW ok \in Fine
  PROVE  AfterNumber([s EXCEPT !.pending = p, !.wasSet = set, !.result[x] = n, !.status = ok],
                     s, p, set, x, n, ok)
BY DEF ParseStates, AfterNumber

LEMMA OkSaid == "ok" \in Fine
BY Zenon DEF Fine

LEMMA NothingYet ==
  LET s == NothingParsed(headOpts)
  IN  /\ s \in ParseStates /\ Parsing(s) /\ s.pending = 0 /\ s.wasSet = {}
      /\ s.result[1] = NoLimit /\ s.result[2] = NoLimit
<1> DEFINE s == NothingParsed(headOpts)
           result == [x \in DOMAIN headOpts |-> headOpts[x].default]
<1>1. s = [status |-> "ok", pending |-> 0, wasSet |-> {}, list |-> 0, result |-> result]
  BY Zenon DEF NothingParsed
<1>2. result \in [1 .. 3 -> Int] /\ result[1] = NoLimit /\ result[2] = NoLimit
  <2>1. \A x \in 1 .. 3 : headOpts[x].default \in Int
    <3>1. \A x \in 1 .. 3 : x = 1 \/ x = 2 \/ x = 3
      OBVIOUS
    <3>2. NoLimit \in Int /\ 0 \in Int
      BY DEF NoLimit
    <3>. QED  BY <3>1, <3>2, HeadOptions, Zenon
  <2>2. result = [x \in 1 .. 3 |-> headOpts[x].default]
    BY HeadOptions, Zenon
  <2>. HIDE DEF result
  <2>3. result \in [1 .. 3 -> Int] /\ result[1] = headOpts[1].default /\ result[2] = headOpts[2].default
    BY <2>1, <2>2
  <2>. QED  BY <2>3, HeadOptions, Zenon
<1>. HIDE DEF s, result
<1>3. s.status = "ok" /\ s.pending = 0 /\ s.wasSet = {} /\ s.list = 0 /\ s.result = result
  BY <1>1, Zenon
<1>4. s \in ParseStates
  <2>1. 0 \in Nat /\ {} \in SUBSET Nat
    OBVIOUS
  <2>. QED  BY <1>1, <1>2, <2>1, OkSaid, Zenon DEF ParseStates
<1>. QED
  BY <1>2, <1>3, <1>4, Zenon DEF Parsing, s

\* What parse_args answers then.
LEMMA Answered ==
  ASSUME NEW words, NEW u \in ParseStates, parse_words(headOpts, words) = u,
         u.status = "ok", u.pending = 0, \A x, y \in u.wasSet : x = y
  PROVE  LET p == parse_args(headOpts, words)
         IN  p.status = "ok" /\ p.list = u.list /\ p.result = u.result
<1> DEFINE ok == "ok"
<1>1. ~Combined(headOpts, u.wasSet)
  <2>1. u.wasSet \in SUBSET Nat
    BY DEF ParseStates
  <2>2. \A x, y \in u.wasSet : ~(x < y)
    BY <2>1
  <2>. QED  BY <2>2, Zenon DEF Combined
<1>2. parse_args(headOpts, words) = [u EXCEPT !.status = ok]
  BY <1>1, Zenon DEF parse_args
<1>3. ok \in Fine
  BY OkSaid, Zenon
<1>. HIDE DEF ok
<1>4. [u EXCEPT !.status = ok].status = ok /\ [u EXCEPT !.status = ok].list = u.list
      /\ [u EXCEPT !.status = ok].result = u.result
  BY <1>3 DEF ParseStates
<1>. QED
  BY <1>2, <1>4, Zenon DEF ok

\* Parsed with k words before the list, and these results.
ParsedAs(p, words, k, lines, bytes) ==
  /\ p.status = "ok" /\ p.list = IF k < Len(words) THEN k + 1 ELSE 0
  /\ p.result[1] = lines /\ p.result[2] = bytes

LEMMA ListAnswered ==
  ASSUME NEW words, Len(words) \in Nat, NEW k \in Nat, k <= Len(words),
         \A i \in k + 1 .. Len(words) : ~Word[words[i]].dash,
         NEW u, u[0] = NothingParsed(headOpts),
         \A i \in 1 .. k : u[i] = ParseWord(u[i - 1], headOpts, i, Word[words[i]]),
         u[k] \in ParseStates, Parsing(u[k]), u[k].pending = 0,
         \A x, y \in u[k].wasSet : x = y
  PROVE  ParsedAs(parse_args(headOpts, words), words, k, u[k].result[1], u[k].result[2])
<1> DEFINE m == Len(words)
           t == u[k]
           listed == [t EXCEPT !.list = k + 1]
           v == IF k < m THEN listed ELSE t
<1>1. parse_words(headOpts, words) = v
  <2>1. parse_words(headOpts, words)
          = IF k < Len(words) THEN [u[k] EXCEPT !.list = k + 1] ELSE u[k]
    BY ListParsed
  <2>. QED  BY <2>1, Zenon
<1>2. t \in ParseStates /\ t.list = 0 /\ t.status = "ok" /\ t.pending = 0
  BY Zenon DEF Parsing
<1>. HIDE DEF t
<1>3. /\ listed \in ParseStates /\ listed.status = t.status /\ listed.pending = t.pending
      /\ listed.wasSet = t.wasSet /\ listed.list = k + 1 /\ listed.result = t.result
  <2>1. k + 1 \in Nat /\ t \in ParseStates
    BY <1>2
  <2>. QED  BY <2>1 DEF ParseStates
<1>. HIDE DEF listed
<1>4. /\ v \in ParseStates /\ v.status = "ok" /\ v.pending = 0 /\ v.wasSet = t.wasSet
      /\ v.list = (IF k < m THEN k + 1 ELSE 0) /\ v.result = t.result
  BY <1>2, <1>3, Zenon
<1>. HIDE DEF v
<1>5. \A x, y \in v.wasSet : x = y
  BY <1>4, Zenon DEF t
<1>6. /\ parse_args(headOpts, words).status = "ok" /\ parse_args(headOpts, words).list = v.list
      /\ parse_args(headOpts, words).result = v.result
  BY <1>1, <1>4, <1>5, Answered, Zenon
<1>. QED
  BY <1>4, <1>6, Zenon DEF ParsedAs, m, t

\* Nothing told.
LEMMA NothingTold ==
  ASSUME NEW words, Len(words) \in Nat, \A i \in 1 .. Len(words) : ~Word[words[i]].dash
  PROVE  ParsedAs(parse_args(headOpts, words), words, 0, NoLimit, NoLimit)
<1> DEFINE s == NothingParsed(headOpts)
           u == [i \in {0} |-> s]
<1>1. /\ s \in ParseStates /\ Parsing(s) /\ s.pending = 0 /\ s.wasSet = {}
      /\ s.result[1] = NoLimit /\ s.result[2] = NoLimit
  BY NothingYet, Zenon
<1>2. u[0] = NothingParsed(headOpts)
  BY Zenon
<1>. HIDE DEF u
<1>3. \A i \in 1 .. 0 : u[i] = ParseWord(u[i - 1], headOpts, i, Word[words[i]])
  OBVIOUS
<1>4. 0 \in Nat /\ 0 <= Len(words) /\ \A i \in 0 + 1 .. Len(words) : ~Word[words[i]].dash
  OBVIOUS
<1>5. /\ u[0] \in ParseStates /\ Parsing(u[0]) /\ u[0].pending = 0
      /\ \A x, y \in u[0].wasSet : x = y
  BY <1>1, <1>2, Zenon
<1>6. ParsedAs(parse_args(headOpts, words), words, 0, u[0].result[1], u[0].result[2])
  BY <1>2, <1>3, <1>4, <1>5, ListAnswered
<1>. QED
  BY <1>1, <1>2, <1>6, Zenon

\* The words behind the command's name, and k of them that tell head how much to print.
ToldSo(words, k, letter, value) ==
  /\ words \in Seq(Names) /\ k <= Len(words)
  /\ \A i \in k + 1 .. Len(words) : ~Word[words[i]].dash
  /\ value.is = "number" /\ value.n \in 1 .. IntMax
  /\ k > 0 => Word[words[1]].dash /\ letter = Word[words[1]].letter
  /\ k = 1 => value = Word[words[1]].tail
  /\ k = 2 => Word[words[1]].tail.is = "none" /\ value = Word[words[2]].value

\* A number told is the limit of lines or of characters, and the files come behind it.
LEMMA NumberParsed ==
  ASSUME NEW words, NEW k \in {1, 2}, NEW x \in {1, 2}, NEW value,
         ToldSo(words, k, LetterOf(x), value)
  PROVE  ParsedAs(parse_args(headOpts, words), words, k,
                  IF x = 1 THEN value.n ELSE NoLimit, IF x = 2 THEN value.n ELSE NoLimit)
<1> DEFINE m == Len(words)
           s == NothingParsed(headOpts)
           s2 == [s EXCEPT !.pending = x]
           from == IF k = 1 THEN s ELSE s2
           t == Take(from, headOpts, x, value)
           u == [i \in 0 .. k |-> IF i = k THEN t ELSE IF i = 0 THEN s ELSE s2]
<1>1. m \in Nat /\ k \in 1 .. m /\ k \in Nat /\ k <= Len(words)
      /\ \A i \in k + 1 .. Len(words) : ~Word[words[i]].dash
  BY DEF ToldSo
<1>2. /\ s \in ParseStates /\ Parsing(s) /\ s.pending = 0 /\ s.wasSet = {}
      /\ s.result[1] = NoLimit /\ s.result[2] = NoLimit
  BY NothingYet, Zenon
<1>3. s.status = "ok" /\ s.list = 0
  BY <1>2, Zenon DEF Parsing
<1>. HIDE DEF s
<1>4. s2 \in ParseStates /\ s2.pending = x /\ s2.list = s.list /\ s2.status = s.status
      /\ s2.wasSet = s.wasSet /\ s2.result = s.result
  <2>1. x \in Nat
    OBVIOUS
  <2>. QED  BY <1>2, <2>1 DEF ParseStates
<1>. HIDE DEF s2
<1>5. /\ from \in ParseStates /\ from.list = 0 /\ from.status = "ok" /\ from.wasSet = {}
      /\ from.result[1] = NoLimit /\ from.result[2] = NoLimit
  BY <1>2, <1>3, <1>4, Zenon
<1>. HIDE DEF from
<1>6. value.is = "number" /\ value.n \in 1 .. IntMax
  BY Zenon DEF ToldSo
<1>7. t = WithNumber(from, x, value.n)
  BY <1>5, <1>6, NumberTaken
<1>8. /\ t \in ParseStates /\ t.pending = 0 /\ t.wasSet = from.wasSet \cup {x} /\ t.list = from.list
      /\ t.status = "ok"
      /\ \A y \in 1 .. 3 : t.result[y] = IF y = x THEN value.n ELSE from.result[y]
  <2> DEFINE set == from.wasSet \cup {x}
             n == value.n
             ok == "ok"
  <2>. HIDE DEF set, n, ok
  <2>1. 0 \in Nat /\ x \in Nat /\ x \in 1 .. 3
    OBVIOUS
  <2>2. n \in Int
    BY <1>6, ShellAssumption DEF n
  <2>3. set \in SUBSET Nat
    BY <1>5, <2>1, Zenon DEF set
  <2>4. ok \in Fine
    BY OkSaid, Zenon DEF ok
  <2>5. t = [from EXCEPT !.pending = 0, !.wasSet = set, !.result[x] = n, !.status = ok]
    BY <1>7, Zenon DEF set, n, ok, WithNumber
  <2>. HIDE DEF t
  <2>6. AfterNumber([from EXCEPT !.pending = 0, !.wasSet = set, !.result[x] = n, !.status = ok],
                    from, 0, set, x, n, ok)
    BY <1>5, <2>1, <2>2, <2>3, <2>4, FieldsKept
  <2>7. AfterNumber(t, from, 0, set, x, n, ok)
    BY <2>5, <2>6, Zenon
  <2>. QED  BY <2>7, Zenon DEF AfterNumber, set, n, ok
<1>. HIDE DEF t
<1>9. t.list = 0 /\ t.wasSet = {x} /\ Parsing(t)
  BY <1>5, <1>8, Zenon DEF Parsing
<1>10. u[0] = s /\ u[k] = t /\ (k = 2 => u[1] = s2)
  BY <1>1
<1>. HIDE DEF u
<1>11. \A i \in 1 .. k : u[i] = ParseWord(u[i - 1], headOpts, i, Word[words[i]])
  <2> DEFINE w == Word[words[1]]
             w2 == Word[words[2]]
  <2>1. w.dash /\ w.letter = LetterOf(x)
    <3>1. k > 0
      OBVIOUS
    <3>. QED  BY <3>1, Zenon DEF ToldSo
  <2>2. CASE k = 1
    <3>1. value = w.tail /\ w.tail.is = "number"
      BY <1>6, <2>2, Zenon DEF ToldSo
    <3>2. ParseWord(s, headOpts, 1, w) = Take(s, headOpts, x, w.tail)
      BY <1>2, <2>1, <3>1, NumberFollows
    <3>3. t = Take(s, headOpts, x, w.tail)
      BY <2>2, <3>1, Zenon DEF t, from
    <3>4. u[1] = ParseWord(u[0], headOpts, 1, w)
      BY <1>10, <2>2, <3>2, <3>3, Zenon
    <3>5. \A i \in 1 .. k : i = 1 /\ i - 1 = 0
      BY <2>2
    <3>. QED  BY <3>4, <3>5, Zenon
  <2>3. CASE k = 2
    <3>1. w.tail.is = "none" /\ value = w2.value /\ k # 1
      BY <2>3, Zenon DEF ToldSo
    <3>2. ParseWord(s, headOpts, 1, w) = [s EXCEPT !.pending = x]
      BY <1>2, <2>1, <3>1, NumberAwaited
    <3>3. Parsing(s2)
      BY <1>2, <1>4, Zenon DEF Parsing
    <3>4. ParseWord(s2, headOpts, 2, w2) = Take(s2, headOpts, x, w2.value)
      BY <1>4, <3>3, NumberGiven
    <3>5. t = Take(s2, headOpts, x, w2.value)
      BY <3>1, Zenon DEF t, from
    <3>6. u[1] = ParseWord(u[0], headOpts, 1, w)
      BY <1>10, <2>3, <3>2, Zenon DEF s2
    <3>7. u[2] = ParseWord(u[1], headOpts, 2, w2)
      BY <1>10, <2>3, <3>4, <3>5, Zenon
    <3>8. \A i \in 1 .. k : (i = 1 /\ i - 1 = 0) \/ (i = 2 /\ i - 1 = 1)
      BY <2>3
    <3>. QED  BY <3>6, <3>7, <3>8, Zenon
  <2>. QED  BY <2>2, <2>3
<1>12. ParsedAs(parse_args(headOpts, words), words, k, u[k].result[1], u[k].result[2])
  <2>1. u[0] = NothingParsed(headOpts)
    BY <1>10 DEF s
  <2>2. u[k] \in ParseStates /\ Parsing(u[k]) /\ u[k].pending = 0
    BY <1>8, <1>9, <1>10, Zenon
  <2>3. \A y, z \in u[k].wasSet : y = z
    BY <1>9, <1>10, Zenon
  <2>. QED  BY <1>1, <1>11, <2>1, <2>2, <2>3, ListAnswered
<1>13. /\ t.result[1] = IF x = 1 THEN value.n ELSE NoLimit
       /\ t.result[2] = IF x = 2 THEN value.n ELSE NoLimit
  <2>1. 1 \in 1 .. 3 /\ 2 \in 1 .. 3 /\ (1 = x <=> x = 1) /\ (2 = x <=> x = 2)
    OBVIOUS
  <2>. QED  BY <1>5, <1>8, <2>1, Zenon
<1>. QED
  BY <1>10, <1>12, <1>13, Zenon

LEMMA TenLines ==
  ASSUME NEW words
  PROVE  Told(words, 0).letter = "n" /\ Told(words, 0).value.n = 10
<1> DEFINE value == [is |-> "number", n |-> 10]
           told == [letter |-> "n", value |-> value]
<1>1. Told(words, 0) = told
  <2>1. 0 # 1
    OBVIOUS
  <2>. QED  BY <2>1, Zenon DEF Told
<1>2. told.letter = "n" /\ told.value = value
  BY Zenon
<1>3. value.n = 10
  BY Zenon
<1>. HIDE DEF value, told
<1>. QED
  BY <1>1, <1>2, <1>3, Zenon

\* A number told is the limit of lines or of characters, and 10 lines where
\* nothing is.
LEMMA HeadParsed ==
  ASSUME NEW words \in Seq(Names), NEW k \in 0 .. 2, Tells(words, k)
  PROVE  /\ Told(words, k).value.n \in Nat \ {0}
         /\ ParsedAs(parse_args(headOpts, words), words, k,
                     IF k > 0 /\ Told(words, k).letter = "n" THEN Told(words, k).value.n ELSE NoLimit,
                     IF Told(words, k).letter = "c" THEN Told(words, k).value.n ELSE NoLimit)
<1> DEFINE letter == Told(words, k).letter
           value == Told(words, k).value
           limit(c) == IF letter = c THEN value.n ELSE NoLimit
<1>1. Len(words) \in Nat /\ k <= Len(words)
  BY Zenon, LenProperties DEF Tells
<1>2. CASE k = 0
  <2>1. letter = "n" /\ value.n = 10 /\ letter # "c"
    <3>1. Told(words, 0).letter = "n" /\ Told(words, 0).value.n = 10 /\ "n" # "c"
      BY TenLines, Zenon
    <3>. QED  BY <1>2, <3>1, Zenon
  <2>2. value.n \in Nat \ {0} /\ ~(k > 0)
    BY <1>2, <2>1
  <2>3. \A i \in 1 .. Len(words) : ~Word[words[i]].dash
    <3>1. 0 + 1 = 1
      OBVIOUS
    <3>. QED  BY <1>2, <3>1, Zenon DEF Tells
  <2>4. ParsedAs(parse_args(headOpts, words), words, 0, NoLimit, NoLimit)
    BY <1>1, <2>3, NothingTold
  <2>. QED  BY <1>2, <2>1, <2>2, <2>4, Zenon
<1>3. CASE k # 0
  <2>1. k > 0 /\ k \in {1, 2}
    BY <1>3
  <2>2. value.is = "number" /\ value.n \in 1 .. IntMax /\ (letter = "n" \/ letter = "c")
    BY <2>1, Zenon DEF Tells
  <2>3. value.n \in Nat \ {0}
    <3> DEFINE n == value.n
    <3>1. n \in 1 .. IntMax
      BY <2>2, Zenon
    <3>. HIDE DEF n
    <3>2. n \in Nat \ {0}
      BY <3>1, ShellAssumption
    <3>. QED  BY <3>2, Zenon DEF n
  <2>4. letter = Word[words[1]].letter /\ Word[words[1]].dash
    <3>1. k # 0 /\ (k = 1 \/ k # 1)
      BY <1>3
    <3>. QED  BY <2>1, <3>1, Zenon DEF Told, Tells
  <2>5. (k = 1 => value = Word[words[1]].tail) /\ (k = 2 => value = Word[words[2]].value)
    <3>1. 1 # 0 /\ 2 # 0 /\ 2 # 1
      OBVIOUS
    <3>. QED  BY <3>1, Zenon DEF Told
  <2>6. ToldSo(words, k, letter, value)
    BY <1>1, <2>2, <2>4, <2>5, Zenon DEF ToldSo, Tells
  <2>. HIDE DEF letter, value
  <2>7. CASE letter = "n"
    <3>1. letter = LetterOf(1) /\ letter # "c"
      BY <2>7, HeadOptions, Zenon
    <3>2. 1 \in {1, 2} /\ ToldSo(words, k, LetterOf(1), value)
      BY <2>6, <3>1, Zenon
    <3>3. ParsedAs(parse_args(headOpts, words), words, k,
                   IF 1 = 1 THEN value.n ELSE NoLimit, IF 1 = 2 THEN value.n ELSE NoLimit)
      BY <2>1, <3>2, NumberParsed, Zenon
    <3>4. 1 # 2
      OBVIOUS
    <3>. QED  BY <2>1, <2>3, <2>7, <3>1, <3>3, <3>4, Zenon DEF letter, value
  <2>8. CASE letter = "c"
    <3>1. letter = LetterOf(2) /\ letter # "n"
      BY <2>8, HeadOptions, Zenon
    <3>2. 2 \in {1, 2} /\ ToldSo(words, k, LetterOf(2), value)
      BY <2>6, <3>1, Zenon
    <3>3. ParsedAs(parse_args(headOpts, words), words, k,
                   IF 2 = 1 THEN value.n ELSE NoLimit, IF 2 = 2 THEN value.n ELSE NoLimit)
      BY <2>1, <3>2, NumberParsed, Zenon
    <3>4. 2 # 1
      OBVIOUS
    <3>. QED  BY <2>1, <2>3, <2>8, <3>1, <3>3, <3>4, Zenon DEF letter, value
  <2>. QED  BY <2>2, <2>7, <2>8, Zenon DEF letter
<1>. QED
  BY <1>2, <1>3, Zenon

\* What head counts then.
LEMMA HeadCounts ==
  ASSUME NEW words \in Seq(Names), NEW k \in 0 .. 2, Tells(words, k)
  PROVE  /\ Counts(parse_args(headOpts, words)).lines
              = IF Told(words, k).letter = "n" THEN Told(words, k).value.n ELSE NoLimit
         /\ Counts(parse_args(headOpts, words)).bytes
              = IF Told(words, k).letter = "c" THEN Told(words, k).value.n ELSE NoLimit
<1> DEFINE letter == Told(words, k).letter
           n == Told(words, k).value.n
           p == parse_args(headOpts, words)
           lines == IF k > 0 /\ letter = "n" THEN n ELSE NoLimit
           bytes == IF letter = "c" THEN n ELSE NoLimit
<1>1. n \in Nat \ {0} /\ ParsedAs(p, words, k, lines, bytes)
  BY HeadParsed, Zenon
<1>2. p.result[1] = lines /\ p.result[2] = bytes
  BY <1>1, Zenon DEF ParsedAs
<1>. HIDE DEF p
<1>3. /\ Counts(p).lines = IF lines = NoLimit /\ bytes = NoLimit THEN 10 ELSE lines
      /\ Counts(p).bytes = bytes
  BY <1>2, Zenon DEF Counts
<1>4. n # NoLimit
  <2>. HIDE DEF n
  <2>. QED  BY <1>1 DEF NoLimit
<1>5. letter \in {"n", "c"} /\ "n" # "c"
  BY Zenon DEF Tells
<1>6. k = 0 => letter = "n" /\ n = 10
  BY TenLines, Zenon
<1>7. k = 0 <=> ~(k > 0)
  OBVIOUS
<1>. HIDE DEF letter, n
<1>. QED
  BY <1>3, <1>4, <1>5, <1>6, <1>7, Zenon DEF p, letter, n

\* Behind the words that tell it come the files.
LEMMA HeadFiles ==
  ASSUME NEW words \in Seq(Names), NEW k \in 0 .. 2, Tells(words, k)
  PROVE  LET p == parse_args(headOpts, words)
         IN  /\ p.status = "ok"
             /\ (IF p.list = 0 THEN <<Typed>> ELSE SubSeq(words, p.list, Len(words)))
                  = Sources(SubSeq(words, k + 1, Len(words)))
<1> DEFINE p == parse_args(headOpts, words)
           m == Len(words)
           rest == SubSeq(words, k + 1, m)
<1>1. p.status = "ok" /\ p.list = IF k < m THEN k + 1 ELSE 0
  BY HeadParsed, Zenon DEF ParsedAs
<1>. HIDE DEF p
<1>2. m \in Nat /\ k <= m
  BY Zenon, LenProperties DEF Tells
<1>3. CASE k < m
  <2>1. k + 1 # 0 /\ k + 1 \in 1 .. m /\ k + 1 <= m
    BY <1>2, <1>3
  <2>2. rest # <<>>
    <3>1. Len(rest) = m - (k + 1) + 1
      BY <1>2, <2>1
    <3>2. Len(rest) # 0 /\ Len(<<>>) = 0
      BY <1>2, <1>3, <3>1
    <3>. QED  BY <3>2, Zenon
  <2>. QED  BY <1>1, <1>3, <2>1, <2>2, Zenon DEF Sources, p
<1>4. CASE ~(k < m)
  <2>1. k = m
    BY <1>2, <1>4
  <2>2. rest = <<>>
    <3>1. SubSeq(words, m + 1, m) = <<>>
      BY <1>2
    <3>. QED  BY <2>1, <3>1, Zenon
  <2>. QED  BY <1>1, <1>4, <2>2, Zenon DEF Sources, p
<1>. QED
  BY <1>3, <1>4

\* What head prints of one of its files, more being TRUE where there are others.
NotFoundOf(file) == Message("not found", file)
HeaderOf(file) == Message("header", file)
TextOf(file, lines, bytes) == Text(file, HeadOf(ReadLines(file), lines, bytes))

LEMMA MessageKinds ==
  \A file : NotFoundOf(file).kind # "text" /\ HeaderOf(file).kind # "text"
BY Zenon DEF NotFoundOf, HeaderOf, Message

LEMMA TextFields ==
  \A file, lines, bytes :
    /\ TextOf(file, lines, bytes).kind = "text" /\ TextOf(file, lines, bytes).of = file
    /\ TextOf(file, lines, bytes).chars = HeadOf(ReadLines(file), lines, bytes)
BY Zenon DEF TextOf, Text

\* What the parts are of which head's answer consists.
PartsOf(A, seqs, files, lines, bytes) ==
  /\ seqs \in Seq(Seq(A)) /\ Len(seqs) = Len(files)
  /\ \A i \in 1 .. Len(files) :
       IF ~IsOpen(files[i]) THEN ToSet(seqs[i]) = {NotFoundOf(files[i])}
       ELSE /\ TextOf(files[i], lines, bytes) \in ToSet(seqs[i])
            /\ ToSet(seqs[i]) \subseteq {HeaderOf(files[i]), TextOf(files[i], lines, bytes)}

ShowsPart(out, file, lines, bytes) ==
  LET Printed == {j \in DOMAIN out : out[j].kind = "text" /\ out[j].of = file}
  IN  IF IsOpen(file)
      THEN /\ Printed # {}
           /\ \A j \in Printed : out[j].chars = HeadOf(ReadLines(file), lines, bytes)
      ELSE \E j \in DOMAIN out : out[j] = Message("not found", file)

LEMMA PartsShow ==
  ASSUME NEW A, NEW seqs, NEW files, Len(files) \in Nat, NEW lines, NEW bytes,
         PartsOf(A, seqs, files, lines, bytes), NEW i \in 1 .. Len(files)
  PROVE  ShowsPart(FlattenSeq(seqs), files[i], lines, bytes)
<1> DEFINE out == FlattenSeq(seqs)
           file == files[i]
           Printed == {j \in DOMAIN out : out[j].kind = "text" /\ out[j].of = file}
           text == TextOf(file, lines, bytes)
<1>1. seqs \in Seq(Seq(A)) /\ Len(seqs) = Len(files)
  BY Zenon DEF PartsOf
<1>2. \A x : x \in ToSet(out) <=> \E h \in 1 .. Len(files) : x \in ToSet(seqs[h])
  <2>1. \A x : x \in ToSet(FlattenSeq(seqs)) <=> \E h \in 1 .. Len(seqs) : x \in ToSet(seqs[h])
    BY <1>1, FlattenJoins, Zenon
  <2>. QED  BY <1>1, <2>1, Zenon
<1>. HIDE DEF out
<1>3. \A x : x \in ToSet(out) <=> \E j \in DOMAIN out : out[j] = x
  BY Zenon DEF ToSet
<1>4. ASSUME ~IsOpen(file) PROVE \E j \in DOMAIN out : out[j] = Message("not found", file)
  <2>1. NotFoundOf(file) \in ToSet(seqs[i])
    BY <1>4, Zenon DEF PartsOf
  <2>. QED  BY <1>2, <1>3, <2>1, Zenon DEF NotFoundOf
<1>5. ASSUME IsOpen(file) PROVE Printed # {}
  <2>1. text \in ToSet(seqs[i])
    BY <1>5, Zenon DEF PartsOf
  <2>2. text.kind = "text" /\ text.of = file
    BY TextFields, Zenon
  <2>. HIDE DEF text
  <2>3. PICK j \in DOMAIN out : out[j] = text
    BY <1>2, <1>3, <2>1, Zenon
  <2>. QED  BY <2>2, <2>3, Zenon
<1>6. ASSUME NEW j \in Printed PROVE out[j].chars = HeadOf(ReadLines(file), lines, bytes)
  <2>1. out[j] \in ToSet(out)
    BY <1>3, Zenon
  <2>2. PICK h \in 1 .. Len(files) : out[j] \in ToSet(seqs[h])
    BY <1>2, <2>1, Zenon
  <2>3. out[j] = NotFoundOf(files[h]) \/ out[j] = HeaderOf(files[h])
        \/ out[j] = TextOf(files[h], lines, bytes)
    BY <2>2, Zenon DEF PartsOf
  <2>4. out[j].kind = "text" /\ out[j].of = file
    BY Zenon
  <2>5. out[j] = TextOf(files[h], lines, bytes)
    BY <2>3, <2>4, MessageKinds, Zenon
  <2>6. files[h] = file
    <3>1. TextOf(files[h], lines, bytes).of = files[h]
      BY TextFields
    <3>2. out[j].of = files[h]
      BY <2>5, <3>1
    <3>. QED  BY <2>4, <3>2
  <2>7. out[j] = TextOf(file, lines, bytes)
    BY <2>5, <2>6
  <2>8. TextOf(file, lines, bytes).chars = HeadOf(ReadLines(file), lines, bytes)
    BY TextFields
  <2>. QED  BY <2>7, <2>8
<1>. QED
  BY <1>4, <1>5, <1>6, Zenon DEF ShowsPart, out

\* The parts of head's answer.
HeadPart(files, file, lines, bytes) ==
  IF ~IsOpen(file) THEN <<NotFoundOf(file)>>
  ELSE (IF Len(files) > 1 THEN <<HeaderOf(file)>> ELSE <<>>) \o <<TextOf(file, lines, bytes)>>
HeadParts(files, lines, bytes) == [i \in DOMAIN files |-> HeadPart(files, files[i], lines, bytes)]

LEMMA OnlyElement ==
  ASSUME NEW x
  PROVE  ToSet(<<x>>) = {x}
BY DEF ToSet

LEMMA HeadInParts ==
  ASSUME NEW F, NEW files \in Seq(F), NEW lines, NEW bytes
  PROVE  \E A : PartsOf(A, HeadParts(files, lines, bytes), files, lines, bytes)
<1> DEFINE A == UNION {{NotFoundOf(f), HeaderOf(f), TextOf(f, lines, bytes)} : f \in F}
           part(f) == HeadPart(files, f, lines, bytes)
           Right(f) == /\ part(f) \in Seq(A)
                       /\ IF ~IsOpen(f) THEN ToSet(part(f)) = {NotFoundOf(f)}
                          ELSE /\ TextOf(f, lines, bytes) \in ToSet(part(f))
                               /\ ToSet(part(f)) \subseteq {HeaderOf(f), TextOf(f, lines, bytes)}
           seqs == HeadParts(files, lines, bytes)
<1>1. DOMAIN files = 1 .. Len(files) /\ Len(files) \in Nat /\ \A i \in 1 .. Len(files) : files[i] \in F
  BY LenProperties
<1>2. ASSUME NEW f \in F PROVE Right(f)
  <2> DEFINE a == NotFoundOf(f)
             b == HeaderOf(f)
             c == TextOf(f, lines, bytes)
             before == IF Len(files) > 1 THEN <<b>> ELSE <<>>
  <2>1. a \in A /\ b \in A /\ c \in A
    BY Zenon
  <2>. HIDE DEF A
  <2>2. part(f) = IF ~IsOpen(f) THEN <<a>> ELSE before \o <<c>>
    BY Zenon DEF HeadPart
  <2>. HIDE DEF part, a, b, c
  <2>3. <<a>> \in Seq(A) /\ <<b>> \in Seq(A) /\ <<c>> \in Seq(A) /\ <<>> \in Seq(A)
    BY <2>1, OneElement, EmptySeq
  <2>4. ToSet(<<a>>) = {a} /\ ToSet(<<b>>) = {b} /\ ToSet(<<c>>) = {c}
    BY OnlyElement
  <2>5. ToSet(<<>>) = {}
    BY DEF ToSet
  <2>6. before \in Seq(A) /\ ToSet(before) \subseteq {b}
    BY <2>3, <2>4, <2>5, Zenon
  <2>. HIDE DEF before
  <2>7. /\ before \o <<c>> \in Seq(A)
        /\ \A x : x \in ToSet(before \o <<c>>) <=> x \in ToSet(before) \/ x \in ToSet(<<c>>)
    BY <2>3, <2>6, JoinedElements
  <2>8. c \in ToSet(before \o <<c>>) /\ ToSet(before \o <<c>>) \subseteq {b, c}
    BY <2>4, <2>6, <2>7, Zenon
  <2>. QED  BY <2>2, <2>3, <2>4, <2>7, <2>8, Zenon DEF a, b, c
<1>. HIDE DEF A
<1>3. \A i \in 1 .. Len(files) : seqs[i] = part(files[i])
  BY <1>1, Zenon DEF HeadParts
<1>4. seqs = [i \in 1 .. Len(files) |-> part(files[i])]
  BY <1>1, Zenon DEF HeadParts
<1>. HIDE DEF seqs, part
<1>5. \A i \in 1 .. Len(files) : part(files[i]) \in Seq(A)
  BY <1>1, <1>2, Zenon
<1>6. seqs \in Seq(Seq(A)) /\ Len(seqs) = Len(files)
  <2> DEFINE B == Seq(A)
             n == Len(files)
             G(i) == part(files[i])
  <2>1. n \in Nat /\ \A i \in 1 .. n : G(i) \in B
    BY <1>1, <1>5, Zenon
  <2>2. seqs = [i \in 1 .. n |-> G(i)]
    BY <1>4, Zenon
  <2>. HIDE DEF B, n, G
  <2>3. seqs \in Seq(B) /\ Len(seqs) = n
    BY <2>1, <2>2
  <2>. QED  BY <2>3, Zenon DEF B, n
<1>7. PartsOf(A, seqs, files, lines, bytes)
  <2>1. ASSUME NEW i \in 1 .. Len(files)
        PROVE  IF ~IsOpen(files[i]) THEN ToSet(seqs[i]) = {NotFoundOf(files[i])}
               ELSE /\ TextOf(files[i], lines, bytes) \in ToSet(seqs[i])
                    /\ ToSet(seqs[i]) \subseteq {HeaderOf(files[i]), TextOf(files[i], lines, bytes)}
    <3>1. Right(files[i]) /\ seqs[i] = part(files[i])
      BY <1>1, <1>2, <1>3, Zenon
    <3>. QED  BY <3>1, Zenon
  <2>. QED  BY <1>6, <2>1, Zenon DEF PartsOf
<1>. QED
  BY <1>7, Zenon DEF seqs

\* What head answers.
LEMMA HeadAnswers ==
  ASSUME args \in Seq(Names), args # <<>>, head_cmd, NEW k \in 0 .. 2, Tells(Operands, k),
         NEW file \in ToSet(Sources(SubSeq(Operands, k + 1, Len(Operands))))
  PROVE  IF IsOpen(file)
         THEN ShownOf(file, printed', Told(Operands, k).letter, Told(Operands, k).value.n)
         ELSE \E i \in DOMAIN printed' : printed'[i] = Message("not found", file)
<1> DEFINE words == Operands
           p == parse_args(headOpts, words)
           lines == Counts(p).lines
           bytes == Counts(p).bytes
           files == Sources(SubSeq(words, k + 1, Len(words)))
           F == Names \cup {Typed}
           n == Told(words, k).value.n
           letter == Told(words, k).letter
<1>1. words \in Seq(Names)
  BY HeadTailProperties DEF Operands
<1>2. /\ p.status = "ok"
      /\ (IF p.list = 0 THEN <<Typed>> ELSE SubSeq(words, p.list, Len(words))) = files
  BY <1>1, HeadFiles, Zenon
<1>3. printed' = FlattenSeq(HeadParts(files, lines, bytes))
  BY <1>2, Zenon DEF head_cmd, Answer, HeadParts, HeadPart, NotFoundOf, HeaderOf, TextOf
<1>4. files \in Seq(F)
  <2> DEFINE rest == SubSeq(words, k + 1, Len(words))
  <2>1. k + 1 \in Nat /\ k + 1 >= 1 /\ Len(words) \in Nat
    BY <1>1, LenProperties
  <2>2. rest \in Seq(Names)
    BY <1>1, <2>1, SubSeqProperties
  <2>. HIDE DEF rest
  <2>3. rest \in Seq(F)
    BY <2>2
  <2>4. <<Typed>> \in Seq(F)
    BY OneElement
  <2>. QED  BY <2>3, <2>4, Zenon DEF Sources, rest
<1>5. DOMAIN files = 1 .. Len(files) /\ Len(files) \in Nat
  BY <1>4, LenProperties
<1>6. PICK i \in 1 .. Len(files) : files[i] = file
  BY <1>5, Zenon DEF ToSet
<1>7. lines = (IF letter = "n" THEN n ELSE NoLimit) /\ bytes = (IF letter = "c" THEN n ELSE NoLimit)
  BY <1>1, HeadCounts, Zenon
<1>8. n \in Nat \ {0}
  BY <1>1, HeadParsed, Zenon
<1>. HIDE DEF words, p, lines, bytes, files, F, n, letter
<1>9. PICK A : PartsOf(A, HeadParts(files, lines, bytes), files, lines, bytes)
  BY <1>4, HeadInParts, Zenon
<1>10. ShowsPart(printed', file, lines, bytes)
  <2>1. ShowsPart(FlattenSeq(HeadParts(files, lines, bytes)), files[i], lines, bytes)
    BY <1>5, <1>9, PartsShow, Zenon
  <2>. QED  BY <1>3, <1>6, <2>1, Zenon
<1>11. CASE ~IsOpen(file)
  BY <1>10, <1>11, Zenon DEF ShowsPart
<1>12. CASE IsOpen(file)
  <2> DEFINE chars == HeadOf(ReadLines(file), lines, bytes)
             Printed == {j \in DOMAIN printed' : printed'[j].kind = "text" /\ printed'[j].of = file}
  <2>1. Printed # {} /\ \A j \in Printed : printed'[j].chars = chars
    BY <1>10, <1>12, Zenon DEF ShowsPart
  <2>2. file \in DOMAIN Contents
    BY <1>12, Zenon DEF IsOpen
  <2>3. letter = "c" => chars = FirstChars(Contents[file], n)
    <3>1. "c" # "n"
      BY Zenon
    <3>2. HeadOf(ReadLines(file), NoLimit, n) = FirstChars(Contents[file], n)
      BY <1>8, <2>2, HeadPrints, Zenon
    <3>. QED  BY <1>7, <3>1, <3>2, Zenon
  <2>4. letter = "n" /\ (file = Typed \/ LinesFit(file)) => chars = FirstLines(Contents[file], n)
    <3>1. "c" # "n"
      BY Zenon
    <3>2. file = Typed \/ LinesFit(file) =>
            HeadOf(ReadLines(file), n, NoLimit) = FirstLines(Contents[file], n)
      BY <1>8, <2>2, HeadPrints, Zenon
    <3>. QED  BY <1>7, <3>1, <3>2, Zenon
  <2>. HIDE DEF chars
  <2>5. ShownOf(file, printed', letter, n)
    BY <2>1, <2>3, <2>4, Zenon DEF ShownOf
  <2>. QED  BY <1>12, <2>5, Zenon DEF letter, n, words
<1>. QED
  BY <1>11, <1>12

-----------------------------------------------------------------------------
(***************************************************************************)
(* The loop of the shell.                                                  *)
(***************************************************************************)
LEMMA HeadRan ==
  ASSUME exec_command, args # <<>>, args[1] = "head"
  PROVE  head_cmd
BY Zenon DEF exec_command

ShellInv == args \in Seq(Names) /\ HeadPrintsFirst

LEMMA ShellStarts ==
  ASSUME ShellInit
  PROVE  ShellInv
<1>1. args = <<>> /\ phase # "done"
  BY Zenon DEF ShellInit
<1>2. args \in Seq(Names)
  BY <1>1, EmptySeq
<1>. QED
  BY <1>1, <1>2, Zenon DEF ShellInv, HeadPrintsFirst

LEMMA ShellSteps ==
  ASSUME ShellInv, [ShellNext]_shell_vars
  PROVE  ShellInv'
<1>1. CASE ReadLine
  <2>1. args' \in CommandLines /\ phase' # "done"
    BY <1>1, Zenon DEF ReadLine
  <2>2. args' \in Seq(Names)
    BY <2>1, ShellAssumption, Zenon
  <2>. QED  BY <2>1, <2>2, Zenon DEF ShellInv, HeadPrintsFirst
<1>2. CASE Interrupted
  <2>1. args' = args /\ phase' # "done"
    BY <1>2, Zenon DEF Interrupted
  <2>. QED  BY <2>1, Zenon DEF ShellInv, HeadPrintsFirst
<1>3. CASE exec_command
  <2>1. args' = args /\ args \in Seq(Names)
    BY <1>3, Zenon DEF exec_command, ShellInv
  <2>2. Operands' = Operands
    BY <2>1, Zenon DEF Operands
  <2>3. HeadPrintsFirst'
    <3>. SUFFICES ASSUME args # <<>>, args[1] = "head", NEW k \in 0 .. 2, Tells(Operands, k),
                         NEW file \in ToSet(Sources(SubSeq(Operands, k + 1, Len(Operands))))
                  PROVE  IF IsOpen(file)
                         THEN ShownOf(file, printed', Told(Operands, k).letter, Told(Operands, k).value.n)
                         ELSE \E i \in DOMAIN printed' : printed'[i] = Message("not found", file)
      BY <2>1, <2>2, Zenon DEF HeadPrintsFirst
    <3>1. head_cmd
      BY <1>3, HeadRan
    <3>. QED  BY <2>1, <3>1, HeadAnswers
  <2>. QED  BY <2>1, <2>3, Zenon DEF ShellInv
<1>4. CASE Prompt
  <2>1. args' = <<>> /\ phase' # "done"
    BY <1>4, Zenon DEF Prompt
  <2>2. args' \in Seq(Names)
    BY <2>1, EmptySeq
  <2>. QED  BY <2>1, <2>2, Zenon DEF ShellInv, HeadPrintsFirst
<1>5. CASE UNCHANGED shell_vars
  <2>1. args' = args /\ phase' = phase /\ printed' = printed
    BY <1>5, Zenon DEF shell_vars
  <2>2. Operands' = Operands
    BY <2>1, Zenon DEF Operands
  <2>. QED  BY <2>1, <2>2, Zenon DEF ShellInv, HeadPrintsFirst
<1>. QED
  BY <1>1, <1>2, <1>3, <1>4, <1>5, Zenon DEF ShellNext

\* head prints of every file its first lines or characters, as many as it is told,
\* whatever is in the files and whatever fgets cuts them into.
THEOREM HeadIsFirst == ShellSpec => []HeadPrintsFirst
<1>1. ShellInit => ShellInv
  BY ShellStarts
<1>2. ShellInv /\ [ShellNext]_shell_vars => ShellInv'
  BY ShellSteps
<1>3. ShellInv => HeadPrintsFirst
  BY Zenon DEF ShellInv
<1>. QED
  BY <1>1, <1>2, <1>3, PTL DEF ShellSpec

(***************************************************************************)
(* Device trees.  The words of a tree are those of its items one after the *)
(* other, and each pass of the parser reads one item.                      *)
(***************************************************************************)

\* s is the beginning of t.
Begins(s, t) == Len(s) <= Len(t) /\ \A j \in 1 .. Len(s) : t[j] = s[j]

LEMMA JoinBegins ==
  ASSUME NEW A, NEW s \in Seq(A), NEW t \in Seq(A)
  PROVE  /\ s \o t \in Seq(A) /\ Begins(s, s \o t) /\ Len(s \o t) = Len(s) + Len(t)
         /\ \A j \in 1 .. Len(t) : (s \o t)[Len(s) + j] = t[j]
BY ConcatProperties, LenProperties DEF Begins

\* Where the elements of the k-th sequence are.
PlacedBy(h, seqs, k) ==
  /\ Len(h[k]) = Len(h[k - 1]) + Len(seqs[k]) /\ Len(h[k - 1]) \in Nat /\ Len(seqs[k]) \in Nat
  /\ Begins(h[k], FlattenSeq(seqs))
  /\ \A j \in 1 .. Len(seqs[k]) : FlattenSeq(seqs)[Len(h[k - 1]) + j] = seqs[k][j]

LEMMA FlattenPlaces ==
  ASSUME NEW A, NEW seqs \in Seq(Seq(A)), NEW h, FlattensBy(h, seqs, A), NEW k \in 1 .. Len(seqs)
  PROVE  PlacedBy(h, seqs, k)
<1> DEFINE n == Len(seqs)
<1>1. n \in Nat /\ \A i \in 1 .. n : seqs[i] \in Seq(A)
  BY LenProperties
<1>2. /\ \A i \in 0 .. n : h[i] \in Seq(A)
      /\ \A i \in 1 .. n : h[i] = h[i - 1] \o seqs[i]
      /\ FlattenSeq(seqs) = h[n]
  BY DEF FlattensBy
<1>. HIDE DEF n
<1>3. \A i \in 0 .. n : Len(h[i]) \in Nat
  BY <1>2, LenProperties
<1> DEFINE S == {m \in 0 .. n : k <= m => Begins(h[k], h[m])}
<1>4. 0 \in S
  BY <1>1 DEF n
<1>5. ASSUME NEW m \in 0 .. n - 1, m \in S PROVE m + 1 \in S
  <2>1. m + 1 \in 1 .. n /\ m + 1 \in 0 .. n /\ m \in 0 .. n /\ (m + 1) - 1 = m /\ k \in 0 .. n
    BY <1>1 DEF n
  <2>2. h[m + 1] = h[m] \o seqs[m + 1]
    BY <1>2, <2>1
  <2>3. Begins(h[m], h[m + 1])
    BY <1>1, <1>2, <2>1, <2>2, JoinBegins
  <2>4. Len(h[k]) \in Nat /\ Len(h[m]) \in Nat /\ Len(h[m + 1]) \in Nat
    BY <1>3, <2>1
  <2>5. CASE k <= m
    <3>1. Begins(h[k], h[m])
      BY <1>5, <2>5
    <3>2. Len(h[k]) <= Len(h[m + 1]) /\ \A j \in 1 .. Len(h[k]) : j \in 1 .. Len(h[m])
      BY <2>3, <2>4, <3>1 DEF Begins
    <3>3. \A j \in 1 .. Len(h[k]) : h[m + 1][j] = h[k][j]
      BY <2>3, <3>1, <3>2, Zenon DEF Begins
    <3>4. Begins(h[k], h[m + 1])
      BY <3>2, <3>3, Zenon DEF Begins
    <3>. QED  BY <2>1, <3>4, Zenon
  <2>6. CASE k = m + 1
    BY <2>1, <2>4, <2>6 DEF Begins
  <2>7. CASE k > m + 1
    BY <2>1, <2>7
  <2>. QED  BY <2>1, <2>5, <2>6, <2>7
<1>. HIDE DEF S
<1>6. \A m \in 0 .. n : m \in S
  BY <1>1, <1>4, <1>5, Upward
<1>7. Begins(h[k], h[n])
  BY <1>1, <1>6 DEF S, n
<1>8. h[k - 1] \in Seq(A) /\ seqs[k] \in Seq(A) /\ h[k] = h[k - 1] \o seqs[k] /\ k \in 0 .. n /\ k - 1 \in 0 .. n
  <2>1. k \in 1 .. n
    BY DEF n
  <2>2. k - 1 \in 0 .. n /\ k \in 0 .. n
    BY <1>1, <2>1
  <2>. QED  BY <1>1, <1>2, <2>1, <2>2, Zenon
<1> DEFINE before == h[k - 1]
           one == seqs[k]
           l == Len(before)
           m == Len(one)
           all == h[k]
<1>9. before \in Seq(A) /\ one \in Seq(A) /\ all = before \o one
  BY <1>8
<1>. HIDE DEF before, one, all
<1>10. Len(all) = l + m /\ \A j \in 1 .. m : all[l + j] = one[j]
  BY <1>9, JoinBegins, Zenon
<1>11. l \in Nat /\ m \in Nat
  BY <1>9, LenProperties
<1>12. Len(all) = l + m /\ \A j \in 1 .. Len(all) : h[n][j] = all[j]
  BY <1>7, <1>10 DEF Begins, all
<1>. HIDE DEF l, m
<1>13. \A j \in 1 .. m : l + j \in 1 .. Len(all)
  BY <1>11, <1>12
<1>14. \A j \in 1 .. m : h[n][l + j] = one[j]
  BY <1>10, <1>12, <1>13, Zenon
<1>. QED  BY <1>2, <1>7, <1>11, <1>12, <1>14, Zenon DEF PlacedBy, l, m, before, one, all

\* How many of the first k items begin a node, or how many end one.
CountOf(d, is, k) == Cardinality({j \in 1 .. k : d[j].is = is})

LEMMA CountGoesOn ==
  ASSUME NEW d, NEW is, NEW k \in Nat
  PROVE  /\ CountOf(d, is, 0) = 0 /\ CountOf(d, is, k) \in Nat
         /\ CountOf(d, is, k + 1) = IF d[k + 1].is = is THEN CountOf(d, is, k) + 1 ELSE CountOf(d, is, k)
<1> DEFINE Of(m) == {j \in 1 .. m : d[j].is = is}
           It == d[k + 1].is = is
<1>1. Of(0) = {}
  OBVIOUS
<1>2. Of(k + 1) = IF It THEN Of(k) \cup {k + 1} ELSE Of(k)
  OBVIOUS
<1>3. IsFiniteSet(Of(k))
  <2>1. IsFiniteSet(1 .. k)
    BY FS_Interval
  <2>2. Of(k) \in SUBSET (1 .. k)
    OBVIOUS
  <2>. HIDE DEF Of
  <2>. QED  BY <2>1, <2>2, FS_Subset, Zenon
<1>4. k + 1 \notin Of(k)
  OBVIOUS
<1>. HIDE DEF Of, It
<1>5. Cardinality(Of(k) \cup {k + 1}) = Cardinality(Of(k)) + 1
  BY <1>3, <1>4, FS_AddElement, Zenon
<1>6. Cardinality(Of(k)) \in Nat
  BY <1>3, FS_CardinalityType, Zenon
<1>7. Cardinality(Of(0)) = 0
  BY <1>1, FS_EmptySet, Zenon
<1>8. Cardinality(Of(k + 1)) = IF It THEN Cardinality(Of(k)) + 1 ELSE Cardinality(Of(k))
  BY <1>2, <1>5, Zenon
<1>. QED  BY <1>6, <1>7, <1>8, Zenon DEF CountOf, Of, It

\* A node's beginning opens it, and its end closes it.
LEMMA WithinGoesOn ==
  ASSUME NEW d, NEW k \in Nat
  PROVE  /\ Within(d, 0) = 0 /\ Within(d, k) \in Int
         /\ d[k + 1].is = "begin" => Within(d, k + 1) = Within(d, k) + 1
         /\ d[k + 1].is = "end" => Within(d, k + 1) = Within(d, k) - 1
         /\ d[k + 1].is # "begin" /\ d[k + 1].is # "end" => Within(d, k + 1) = Within(d, k)
<1> DEFINE is == d[k + 1].is
           b(m) == CountOf(d, "begin", m)
           e(m) == CountOf(d, "end", m)
<1>1. \A m : Within(d, m) = b(m) - e(m)
  BY DEF Within, CountOf
<1>2. b(0) = 0 /\ b(k) \in Nat /\ b(k + 1) = IF is = "begin" THEN b(k) + 1 ELSE b(k)
  <2>1. /\ CountOf(d, "begin", 0) = 0 /\ CountOf(d, "begin", k) \in Nat
        /\ CountOf(d, "begin", k + 1) = IF d[k + 1].is = "begin" THEN CountOf(d, "begin", k) + 1 ELSE CountOf(d, "begin", k)
    BY CountGoesOn
  <2>. QED  BY <2>1, Zenon
<1>3. e(0) = 0 /\ e(k) \in Nat /\ e(k + 1) = IF is = "end" THEN e(k) + 1 ELSE e(k)
  <2>1. /\ CountOf(d, "end", 0) = 0 /\ CountOf(d, "end", k) \in Nat
        /\ CountOf(d, "end", k + 1) = IF d[k + 1].is = "end" THEN CountOf(d, "end", k) + 1 ELSE CountOf(d, "end", k)
    BY CountGoesOn
  <2>. QED  BY <2>1, Zenon
<1>4. "begin" # "end"
  OBVIOUS
<1>. HIDE DEF b, e, is
<1>5. Within(d, 0) = 0 /\ Within(d, k) \in Int
  BY <1>1, <1>2, <1>3
<1>6. ASSUME is = "begin" PROVE Within(d, k + 1) = Within(d, k) + 1
  <2>1. b(k + 1) = b(k) + 1 /\ e(k + 1) = e(k)
    BY <1>2, <1>3, <1>4, <1>6, Zenon
  <2>. QED  BY <1>1, <1>2, <1>3, <2>1
<1>7. ASSUME is = "end" PROVE Within(d, k + 1) = Within(d, k) - 1
  <2>1. b(k + 1) = b(k) /\ e(k + 1) = e(k) + 1
    BY <1>2, <1>3, <1>4, <1>7, Zenon
  <2>. QED  BY <1>1, <1>2, <1>3, <2>1
<1>8. ASSUME is # "begin", is # "end" PROVE Within(d, k + 1) = Within(d, k)
  <2>1. b(k + 1) = b(k) /\ e(k + 1) = e(k)
    BY <1>2, <1>3, <1>8, Zenon
  <2>. QED  BY <1>1, <1>2, <1>3, <2>1
<1>. QED  BY <1>5, <1>6, <1>7, <1>8, Zenon DEF is

(***************************************************************************)
(* The words and the lines of the items.                                   *)
(***************************************************************************)
ItemsWords(d) == [k \in DOMAIN d |-> ItemWords(d[k])]
ItemsLines(d) == [k \in DOMAIN d |-> LineOf(d, k)]

AnyLine == [depth : Int, name : Seq(Nat), words : Seq(Nat), bytes : Int]

\* The line of a property.
PropertyLine(depth, len, name, words) ==
  Line(depth, name, words, PrintedBytes(name, len, words))

LEMMA ShownIsPrinted ==
  ASSUME NEW item
  PROVE  ShownBytes(item) = PrintedBytes(item.name, item.len, item.words)
BY Zenon DEF ShownBytes, AsNumbers, PrintedBytes

\* What is known of a tree.
LEMMA TreesAre ==
  ASSUME NEW d \in Devices
  PROVE  /\ Len(d) \in Nat \ {0} /\ DOMAIN d = 1 .. Len(d)
         /\ \A k \in 1 .. Len(d) : d[k] \in AnyItem
         /\ d[1].is = "begin" /\ d[1].name = <<0>>
         /\ \A k \in 1 .. Len(d) : Within(d, k) \in Nat /\ (Within(d, k) = 0 <=> k = Len(d))
<1>1. d \in Seq(AnyItem) /\ d # <<>> /\ d[1].is = "begin" /\ d[1].name = <<0>>
      /\ \A k \in DOMAIN d : Within(d, k) \in Nat /\ (Within(d, k) = 0 <=> k = Len(d))
  BY DeviceTreeAssumption, Zenon
<1> DEFINE I == AnyItem
           One == d[1].is = "begin" /\ d[1].name = <<0>>
           Deep(k) == Within(d, k) \in Nat /\ (Within(d, k) = 0 <=> k = Len(d))
<1>2. d \in Seq(I) /\ d # <<>> /\ One /\ \A k \in DOMAIN d : Deep(k)
  BY <1>1, Zenon
<1>. HIDE DEF I, One, Deep
<1>3. Len(d) \in Nat \ {0} /\ DOMAIN d = 1 .. Len(d) /\ \A k \in 1 .. Len(d) : d[k] \in I
  BY <1>2, EmptySeq, LenProperties
<1>. QED  BY <1>2, <1>3, Zenon DEF I, One, Deep

LEMMA ItemsAre ==
  ASSUME NEW d \in Devices, NEW k \in 1 .. Len(d)
  PROVE  /\ d[k].name \in Seq(Nat) /\ d[k].words \in Seq(Nat) /\ d[k].len \in Nat
         /\ d[k].is \in {"begin", "end", "property", "nop"}
         /\ d[k].is = "begin" => /\ d[k].name # <<>>
                                 /\ \A i \in DOMAIN d[k].name :
                                      d[k].name[i] < FirstText <=> i = Len(d[k].name)
         /\ d[k].is = "property" => /\ Len(d[k].name) = 1
                                    /\ 4*Len(d[k].words) \in d[k].len .. d[k].len + 3
<1>1. k \in DOMAIN d /\ d[k] \in AnyItem
  BY TreesAre, Zenon
<1>2. /\ d[k].name \in Seq(Nat) /\ d[k].words \in Seq(Nat) /\ d[k].len \in Nat
      /\ d[k].is \in {"begin", "end", "property", "nop"}
  BY <1>1, Zenon DEF AnyItem
<1>3. /\ d[k].is = "begin" => /\ d[k].name # <<>>
                              /\ \A i \in DOMAIN d[k].name :
                                   d[k].name[i] < FirstText <=> i = Len(d[k].name)
      /\ d[k].is = "property" => /\ Len(d[k].name) = 1
                                 /\ 4*Len(d[k].words) \in d[k].len .. d[k].len + 3
  BY <1>1, DeviceTreeAssumption, Zenon
<1>. QED  BY <1>2, <1>3, Zenon

LEMMA PutBefore ==
  ASSUME NEW A, NEW x \in A, NEW s \in Seq(A)
  PROVE  /\ <<x>> \o s \in Seq(A) /\ Len(<<x>> \o s) = 1 + Len(s) /\ (<<x>> \o s)[1] = x
         /\ \A j \in 1 .. Len(s) : (<<x>> \o s)[1 + j] = s[j]
<1>1. <<x>> \in Seq(A) /\ Len(<<x>>) = 1 /\ <<x>>[1] = x
  OBVIOUS
<1>2. Begins(<<x>>, <<x>> \o s)
  BY <1>1, JoinBegins
<1>3. (<<x>> \o s)[1] = <<x>>[1]
  BY <1>1, <1>2 DEF Begins
<1>. QED  BY <1>1, <1>3, JoinBegins

LEMMA PutThree ==
  ASSUME NEW two \in Seq(Nat), NEW s \in Seq(Nat), NEW t \in Seq(Nat), Len(two) = 2, Len(s) = 1
  PROVE  /\ two \o s \o t \in Seq(Nat) /\ Len(two \o s \o t) = 3 + Len(t)
         /\ (two \o s \o t)[1] = two[1] /\ (two \o s \o t)[2] = two[2]
         /\ (two \o s \o t)[3] = s[1]
         /\ \A j \in 1 .. Len(t) : (two \o s \o t)[3 + j] = t[j]
<1> DEFINE three == two \o s
           w == three \o t
<1>1. Len(two) = 2 /\ Len(s) = 1
  OBVIOUS
<1>2. /\ three \in Seq(Nat) /\ Len(three) = 3 /\ \A i \in 1 .. 3 : three[i] = IF i <= 2 THEN two[i] ELSE s[i - 2]
  <2>1. /\ three \in Seq(Nat) /\ Len(three) = Len(two) + Len(s)
        /\ \A i \in 1 .. Len(two) + Len(s) :
             three[i] = IF i <= Len(two) THEN two[i] ELSE s[i - Len(two)]
    BY <1>1, ConcatProperties
  <2>. HIDE DEF three
  <2>. QED  BY <1>1, <2>1
<1>. HIDE DEF three
<1>3. three[1] = two[1] /\ three[2] = two[2] /\ three[3] = s[1]
  BY <1>2
<1>4. Len(t) \in Nat
  BY LenProperties
<1>5. /\ w \in Seq(Nat) /\ Len(w) = 3 + Len(t)
      /\ \A i \in 1 .. 3 + Len(t) : w[i] = IF i <= 3 THEN three[i] ELSE t[i - 3]
  <2>1. /\ w \in Seq(Nat) /\ Len(w) = Len(three) + Len(t)
        /\ \A i \in 1 .. Len(three) + Len(t) :
             w[i] = IF i <= Len(three) THEN three[i] ELSE t[i - Len(three)]
    BY <1>2, ConcatProperties
  <2>. HIDE DEF w
  <2>. QED  BY <1>2, <1>4, <2>1
<1>. HIDE DEF w
<1>6. w[1] = three[1] /\ w[2] = three[2] /\ w[3] = three[3]
  BY <1>4, <1>5
<1>7. \A j \in 1 .. Len(t) : w[3 + j] = t[j]
  BY <1>4, <1>5
<1>. QED  BY <1>3, <1>5, <1>6, <1>7, Zenon DEF w, three

\* The words of an item.
LEMMA WordsOfBegin ==
  ASSUME NEW d \in Devices, NEW k \in 1 .. Len(d), d[k].is = "begin"
  PROVE  LET w == ItemWords(d[k])
             name == d[k].name
         IN  /\ w \in Seq(Nat) /\ Len(w) = 1 + Len(name) /\ w[1] = FDT_BEGIN_NODE
             /\ \A j \in 1 .. Len(name) : w[1 + j] = name[j]
<1>1. ItemWords(d[k]) = <<FDT_BEGIN_NODE>> \o d[k].name
  BY DEF ItemWords
<1>2. FDT_BEGIN_NODE \in Nat /\ d[k].name \in Seq(Nat)
  BY ItemsAre DEF FDT_BEGIN_NODE
<1>. QED  BY <1>1, <1>2, PutBefore

LEMMA WordsOfEnd ==
  ASSUME NEW d \in Devices, NEW k \in 1 .. Len(d), d[k].is = "end"
  PROVE  LET w == ItemWords(d[k]) IN w \in Seq(Nat) /\ Len(w) = 1 /\ w[1] = FDT_END_NODE
<1>1. ItemWords(d[k]) = <<FDT_END_NODE>>
  BY DEF ItemWords
<1>. QED  BY <1>1 DEF FDT_END_NODE

LEMMA WordsOfProperty ==
  ASSUME NEW d \in Devices, NEW k \in 1 .. Len(d), d[k].is = "property"
  PROVE  LET w == ItemWords(d[k])
         IN  /\ w \in Seq(Nat) /\ Len(w) = 3 + Len(d[k].words)
             /\ w[1] = FDT_PROP /\ w[2] = d[k].len /\ w[3] = d[k].name[1]
             /\ \A j \in 1 .. Len(d[k].words) : w[3 + j] = d[k].words[j]
<1>1. ItemWords(d[k]) = <<FDT_PROP, d[k].len>> \o d[k].name \o d[k].words
  BY DEF ItemWords
<1>2. FDT_PROP \in Nat /\ d[k].len \in Nat /\ d[k].name \in Seq(Nat) /\ d[k].words \in Seq(Nat)
      /\ Len(d[k].name) = 1
  <2>1. FDT_PROP \in Nat
    BY DEF FDT_PROP
  <2>. QED  BY <2>1, ItemsAre, Zenon
<1> DEFINE x == FDT_PROP
           y == d[k].len
           front == <<x, y>>
           called == d[k].name
           value == d[k].words
           w == ItemWords(d[k])
<1>3. /\ x \in Nat /\ y \in Nat /\ called \in Seq(Nat) /\ value \in Seq(Nat) /\ Len(called) = 1
      /\ w = front \o called \o value
  BY <1>1, <1>2, Zenon
<1>. HIDE DEF x, y, called, value, w
<1>4. front \in Seq(Nat) /\ Len(front) = 2 /\ front[1] = x /\ front[2] = y
  BY <1>3
<1>. HIDE DEF front
<1>5. /\ front \o called \o value \in Seq(Nat) /\ Len(front \o called \o value) = 3 + Len(value)
      /\ (front \o called \o value)[1] = front[1] /\ (front \o called \o value)[2] = front[2]
      /\ (front \o called \o value)[3] = called[1]
      /\ \A j \in 1 .. Len(value) : (front \o called \o value)[3 + j] = value[j]
  BY <1>3, <1>4, PutThree
<1>6. /\ w \in Seq(Nat) /\ Len(w) = 3 + Len(value) /\ w[1] = x /\ w[2] = y /\ w[3] = called[1]
      /\ \A j \in 1 .. Len(value) : w[3 + j] = value[j]
  BY <1>3, <1>4, <1>5, Zenon
<1>. QED  BY <1>6, Zenon DEF x, y, called, value, w

LEMMA WordsOfNop ==
  ASSUME NEW d \in Devices, NEW k \in 1 .. Len(d), d[k].is = "nop"
  PROVE  LET w == ItemWords(d[k]) IN w \in Seq(Nat) /\ Len(w) = 1 /\ w[1] = FDT_NOP
<1>1. ItemWords(d[k]) = <<FDT_NOP>>
  BY DEF ItemWords
<1>. QED  BY <1>1 DEF FDT_NOP

\* All words are numbers, and all that is printed are lines.
LEMMA ItemsHaveWords ==
  ASSUME NEW d \in Devices
  PROVE  ItemsWords(d) \in Seq(Seq(Nat)) /\ Len(ItemsWords(d)) = Len(d)
         /\ \A k \in 1 .. Len(d) : ItemsWords(d)[k] = ItemWords(d[k])
<1>1. Len(d) \in Nat /\ DOMAIN d = 1 .. Len(d)
  BY TreesAre
<1>2. ASSUME NEW k \in 1 .. Len(d) PROVE ItemWords(d[k]) \in Seq(Nat)
  <2>1. d[k].is = "begin" \/ d[k].is = "end" \/ d[k].is = "property" \/ d[k].is = "nop"
    BY ItemsAre
  <2>. QED  BY <2>1, WordsOfBegin, WordsOfEnd, WordsOfProperty, WordsOfNop, Zenon
<1> DEFINE W(k) == ItemWords(d[k])
           A == Seq(Nat)
           n == Len(d)
<1>3. ItemsWords(d) = [k \in 1 .. n |-> W(k)]
  BY <1>1 DEF ItemsWords
<1>4. \A k \in 1 .. n : W(k) \in A
  BY <1>2
<1>. HIDE DEF W, A, n
<1>5. n \in Nat
  BY <1>1 DEF n
<1>6. [k \in 1 .. n |-> W(k)] \in Seq(A) /\ Len([k \in 1 .. n |-> W(k)]) = n
      /\ \A k \in 1 .. n : [i \in 1 .. n |-> W(i)][k] = W(k)
  BY <1>4, <1>5
<1>. QED  BY <1>3, <1>6, Zenon DEF W, A, n

LEMMA ShownIs ==
  ASSUME NEW name \in Seq(Nat), name # <<>>
  PROVE  /\ Shown(name) \in Seq(Nat)
         /\ Len(Shown(name)) = IF name[Len(name)] <= FDT_END THEN Len(name) - 1 ELSE Len(name)
         /\ \A j \in 1 .. Len(Shown(name)) : Shown(name)[j] = name[j]
<1> DEFINE m == IF name[Len(name)] <= FDT_END THEN Len(name) - 1 ELSE Len(name)
<1>1. Len(name) \in Nat \ {0} /\ \A i \in 1 .. Len(name) : name[i] \in Nat
  BY EmptySeq, LenProperties
<1>2. m \in 0 .. Len(name)
  BY <1>1
<1>3. Shown(name) = SubSeq(name, 1, m)
  BY DEF Shown, Last
<1>. HIDE DEF m
<1>4. /\ 1 \in Int /\ m \in Int /\ \A i \in 1 .. m : name[i] \in Nat
      /\ (IF 1 <= m THEN m - 1 + 1 ELSE 0) = m /\ m - 1 + 1 = m
      /\ \A i \in 1 .. m : 1 + i - 1 = i
  BY <1>1, <1>2
<1>5. /\ SubSeq(name, 1, m) \in Seq(Nat)
      /\ Len(SubSeq(name, 1, m)) = IF 1 <= m THEN m - 1 + 1 ELSE 0
      /\ \A i \in 1 .. m - 1 + 1 : SubSeq(name, 1, m)[i] = name[1 + i - 1]
  BY <1>4, SubSeqProperties
<1>6. /\ Shown(name) \in Seq(Nat) /\ Len(Shown(name)) = m
      /\ \A i \in 1 .. m : Shown(name)[i] = name[i]
  BY <1>3, <1>4, <1>5, Zenon
<1>. QED  BY <1>6, Zenon DEF m

LEMMA LinesOfItem ==
  ASSUME NEW d \in Devices, NEW k \in 1 .. Len(d)
  PROVE  LineOf(d, k) \in Seq(AnyLine)
<1> DEFINE depth == Within(d, k - 1)
<1>1. k - 1 \in Nat
  BY TreesAre
<1>2. depth \in Int
  BY <1>1, WithinGoesOn
<1>3. d[k].is = "begin" \/ d[k].is = "end" \/ d[k].is = "property" \/ d[k].is = "nop"
  BY ItemsAre
<1>4. LineOf(d, k) =
        CASE d[k].is = "begin" -> <<Line(depth, Shown(d[k].name), <<>>, 0)>>
          [] d[k].is = "end" -> <<Line(depth - 1, <<>>, <<>>, 0)>>
          [] d[k].is = "property" -> <<Line(depth, d[k].name, d[k].words, ShownBytes(d[k]))>>
          [] d[k].is = "nop" -> <<>>
  BY DEF LineOf
<1>. HIDE DEF depth
<1>5. depth - 1 \in Int /\ <<>> \in Seq(Nat) /\ 0 \in Int
  BY <1>2
<1>6. \A x, y \in Int, name, words \in Seq(Nat) : Line(x, name, words, y) \in AnyLine
  BY Zenon DEF Line, AnyLine
<1>7. \A line \in AnyLine : <<line>> \in Seq(AnyLine)
  <2> DEFINE A == AnyLine
  <2>. HIDE DEF A
  <2>1. \A line \in A : <<line>> \in Seq(A)
    OBVIOUS
  <2>. QED  BY <2>1, Zenon DEF A
<1>8. d[k].name \in Seq(Nat) /\ d[k].words \in Seq(Nat)
  BY ItemsAre
<1>9. CASE d[k].is = "begin"
  <2>1. Shown(d[k].name) \in Seq(Nat)
    BY <1>9, ItemsAre, ShownIs, Zenon
  <2>2. LineOf(d, k) = <<Line(depth, Shown(d[k].name), <<>>, 0)>>
    BY <1>4, <1>9
  <2>. QED  BY <1>2, <1>5, <1>6, <1>7, <2>1, <2>2, Zenon
<1>10. CASE d[k].is = "end"
  <2>1. LineOf(d, k) = <<Line(depth - 1, <<>>, <<>>, 0)>>
    BY <1>4, <1>10
  <2>. QED  BY <1>5, <1>6, <1>7, <2>1, Zenon
<1>11. CASE d[k].is = "property"
  <2>1. LineOf(d, k) = <<Line(depth, d[k].name, d[k].words, ShownBytes(d[k]))>>
    BY <1>4, <1>11
  <2>2. ShownBytes(d[k]) \in Int
    <3>1. d[k].len \in Int
      BY ItemsAre
    <3>2. d[k].len - 1 \in Int
      BY <3>1
    <3>. QED  BY <3>1, <3>2, Zenon DEF ShownBytes
  <2>. QED  BY <1>2, <1>6, <1>7, <1>8, <2>1, <2>2, Zenon
<1>12. CASE d[k].is = "nop"
  <2>1. LineOf(d, k) = <<>>
    BY <1>4, <1>12
  <2>. QED  BY <2>1, EmptySeq, Zenon
<1>. QED  BY <1>3, <1>9, <1>10, <1>11, <1>12

LEMMA ItemsHaveLines ==
  ASSUME NEW d \in Devices
  PROVE  ItemsLines(d) \in Seq(Seq(AnyLine)) /\ Len(ItemsLines(d)) = Len(d)
         /\ \A k \in 1 .. Len(d) : ItemsLines(d)[k] = LineOf(d, k)
<1>1. Len(d) \in Nat /\ DOMAIN d = 1 .. Len(d)
  BY TreesAre
<1> DEFINE W(k) == LineOf(d, k)
           A == Seq(AnyLine)
           n == Len(d)
<1>2. ItemsLines(d) = [k \in 1 .. n |-> W(k)]
  BY <1>1 DEF ItemsLines
<1>3. \A k \in 1 .. n : W(k) \in A
  BY LinesOfItem
<1>. HIDE DEF W, A, n
<1>4. n \in Nat
  BY <1>1 DEF n
<1>5. [k \in 1 .. n |-> W(k)] \in Seq(A) /\ Len([k \in 1 .. n |-> W(k)]) = n
      /\ \A k \in 1 .. n : [i \in 1 .. n |-> W(i)][k] = W(k)
  BY <1>3, <1>4
<1>. QED  BY <1>2, <1>5, Zenon DEF W, A, n

(***************************************************************************)
(* The blob: where each item is in it, and what is to be printed of the    *)
(* first items.                                                            *)
(***************************************************************************)
TreeWords(d) == CHOOSE h : FlattensBy(h, ItemsWords(d), Nat)
TreeLines(d) == CHOOSE h : FlattensBy(h, ItemsLines(d), AnyLine)
WordsUpTo(d, k) == Len(TreeWords(d)[k])
Blob(d) == FlattenSeq(ItemsWords(d)) \o <<FDT_NOP, FDT_END>>

LEMMA ItemInBlob ==
  ASSUME NEW d \in Devices
  PROVE  /\ WordsUpTo(d, 0) = 0 /\ Len(Blob(d)) = WordsUpTo(d, Len(d)) + 2
         /\ \A k \in 0 .. Len(d) : WordsUpTo(d, k) \in Nat /\ WordsUpTo(d, k) <= WordsUpTo(d, Len(d))
         /\ \A k \in 1 .. Len(d) :
              /\ WordsUpTo(d, k) = WordsUpTo(d, k - 1) + Len(ItemWords(d[k]))
              /\ \A j \in 1 .. Len(ItemWords(d[k])) :
                   Blob(d)[WordsUpTo(d, k - 1) + j] = ItemWords(d[k])[j]
         /\ Blob(d)[WordsUpTo(d, Len(d)) + 1] = FDT_NOP
         /\ Blob(d)[WordsUpTo(d, Len(d)) + 2] = FDT_END
<1> DEFINE n == Len(d)
           seqs == ItemsWords(d)
           h == TreeWords(d)
           all == FlattenSeq(seqs)
           trailer == <<FDT_NOP, FDT_END>>
           w(k) == ItemWords(d[k])
           l(k) == Len(h[k])
           m(k) == Len(w(k))
<1>1. n \in Nat \ {0} /\ seqs \in Seq(Seq(Nat)) /\ Len(seqs) = n /\ \A k \in 1 .. n : seqs[k] = w(k)
  BY TreesAre, ItemsHaveWords
<1>2. FlattensBy(h, seqs, Nat)
  BY <1>1, FlattenRuns, Zenon DEF TreeWords
<1>3. trailer \in Seq(Nat) /\ Len(trailer) = 2 /\ trailer[1] = FDT_NOP /\ trailer[2] = FDT_END
  BY DEF FDT_NOP, FDT_END
<1>. HIDE DEF n, seqs, h, w, trailer
<1>4. /\ h[0] = <<>> /\ h[n] = all /\ \A k \in 0 .. n : h[k] \in Seq(Nat)
  BY <1>1, <1>2 DEF FlattensBy
<1>. HIDE DEF all
<1>5. all \in Seq(Nat) /\ \A k \in 0 .. n : l(k) \in Nat
  <2>1. n \in 0 .. n
    BY <1>1
  <2>. QED  BY <1>4, <2>1, LenProperties
<1>6. l(0) = 0
  BY <1>4
<1>7. ASSUME NEW k \in 1 .. n
      PROVE  /\ l(k) = l(k - 1) + m(k) /\ m(k) \in Nat /\ l(k) <= Len(all)
             /\ \A j \in 1 .. m(k) : all[l(k - 1) + j] = w(k)[j]
  <2>1. k \in 1 .. Len(seqs) /\ seqs[k] = w(k)
    BY <1>1
  <2>2. /\ Len(h[k]) = Len(h[k - 1]) + Len(seqs[k]) /\ Len(seqs[k]) \in Nat
        /\ Begins(h[k], all)
        /\ \A j \in 1 .. Len(seqs[k]) : all[Len(h[k - 1]) + j] = seqs[k][j]
    <3> DEFINE A == Nat
    <3>1. seqs \in Seq(Seq(A)) /\ FlattensBy(h, seqs, A)
      BY <1>1, <1>2
    <3>. HIDE DEF A
    <3>2. PlacedBy(h, seqs, k)
      BY <2>1, <3>1, FlattenPlaces, Zenon
    <3>. QED  BY <3>2, Zenon DEF PlacedBy, all
  <2>. QED  BY <2>1, <2>2, Zenon DEF Begins
<1>8. l(n) = Len(all)
  BY <1>4, Zenon
<1> DEFINE blob == all \o trailer
           L == Len(all)
<1>9. /\ Begins(all, blob) /\ Len(blob) = L + 2 /\ \A j \in 1 .. 2 : blob[L + j] = trailer[j]
  <2>1. /\ Begins(all, blob) /\ Len(blob) = Len(all) + Len(trailer)
        /\ \A j \in 1 .. Len(trailer) : blob[Len(all) + j] = trailer[j]
    <3> DEFINE A == Nat
    <3>1. all \in Seq(A) /\ trailer \in Seq(A)
      BY <1>3, <1>5
    <3>. HIDE DEF A
    <3>. QED  BY <3>1, JoinBegins, Zenon
  <2>. QED  BY <1>3, <2>1, Zenon
<1>. HIDE DEF blob, l, m, L
<1>10. \A j \in 1 .. L : blob[j] = all[j]
  BY <1>9, Zenon DEF Begins, L
<1>11. L \in Nat /\ l(n) = L /\ \A k \in 1 .. n : l(k) <= L
  BY <1>5, <1>7, <1>8, LenProperties DEF L
<1>12. \A k \in 0 .. n : l(k) <= l(n)
  <2>1. \A k \in 0 .. n : k = 0 \/ k \in 1 .. n
    BY <1>1
  <2>. QED  BY <1>6, <1>11, <2>1
<1>13. ASSUME NEW k \in 1 .. n, NEW j \in 1 .. m(k)
       PROVE  blob[l(k - 1) + j] = w(k)[j]
  <2>1. k - 1 \in 0 .. n
    BY <1>1
  <2>2. l(k - 1) \in Nat /\ m(k) \in Nat /\ l(k) = l(k - 1) + m(k) /\ l(k) <= L
    BY <1>5, <1>7, <1>11, <2>1
  <2>3. l(k - 1) + j \in 1 .. L
    BY <1>11, <2>2
  <2>. QED  BY <1>7, <1>10, <2>3, Zenon
<1>14. blob[l(n) + 1] = FDT_NOP /\ blob[l(n) + 2] = FDT_END
  <2>1. 1 \in 1 .. 2 /\ 2 \in 1 .. 2
    OBVIOUS
  <2>. QED  BY <1>3, <1>9, <1>11, <2>1, Zenon
<1>15. /\ \A k : l(k) = WordsUpTo(d, k)
       /\ blob = Blob(d) /\ \A k : w(k) = ItemWords(d[k]) /\ m(k) = Len(ItemWords(d[k]))
  BY Zenon DEF l, m, h, w, blob, all, trailer, seqs, Blob, WordsUpTo
<1>16. Len(blob) = l(n) + 2
  BY <1>9, <1>11, Zenon
<1>. QED  BY <1>5, <1>6, <1>7, <1>12, <1>13, <1>14, <1>15, <1>16, Zenon DEF n

LEMMA LinesOfTree ==
  ASSUME NEW d \in Devices
  PROVE  /\ TreeLines(d)[0] = <<>> /\ TreeLines(d)[Len(d)] = FlattenSeq(ItemsLines(d))
         /\ \A k \in 0 .. Len(d) : TreeLines(d)[k] \in Seq(AnyLine)
         /\ \A k \in 1 .. Len(d) : /\ TreeLines(d)[k] = TreeLines(d)[k - 1] \o LineOf(d, k)
                                   /\ Begins(TreeLines(d)[k], FlattenSeq(ItemsLines(d)))
<1> DEFINE n == Len(d)
           seqs == ItemsLines(d)
           h == TreeLines(d)
           all == FlattenSeq(seqs)
<1>1. n \in Nat \ {0} /\ seqs \in Seq(Seq(AnyLine)) /\ Len(seqs) = n /\ \A k \in 1 .. n : seqs[k] = LineOf(d, k)
  <2>1. n \in Nat \ {0}
    BY TreesAre
  <2>. QED  BY <2>1, ItemsHaveLines, Zenon
<1>2. FlattensBy(h, seqs, AnyLine)
  BY <1>1, FlattenRuns, Zenon DEF TreeLines
<1>. HIDE DEF n, seqs, h, all
<1>3. /\ h[0] = <<>> /\ h[n] = all
      /\ \A k \in 1 .. n : h[k] = h[k - 1] \o LineOf(d, k)
  BY <1>1, <1>2, Zenon DEF FlattensBy, all
<1>4. \A k \in 0 .. n : h[k] \in Seq(AnyLine)
  <2> DEFINE A == Seq(AnyLine)
  <2>1. h \in [0 .. n -> A]
    BY <1>1, <1>2, Zenon DEF FlattensBy
  <2>. HIDE DEF A
  <2>2. \A k \in 0 .. n : h[k] \in A
    BY <2>1
  <2>. QED  BY <2>2, Zenon DEF A
<1>5. \A k \in 1 .. n : Begins(h[k], all)
  BY <1>1, <1>2, FlattenPlaces, Zenon DEF PlacedBy, all
<1>. QED  BY <1>3, <1>4, <1>5, Zenon DEF n, seqs, h, all

\* A name stands in the blob b from base on, up to the word that has its NUL.
NameIn(b, base, name) ==
  /\ name \in Seq(Nat) /\ name # <<>> /\ Len(b) \in Nat /\ base + Len(name) <= Len(b)
  /\ \A j \in 1 .. Len(name) : b[base + j] = name[j] /\ (name[j] < FirstText <=> j = Len(name))

\* What an item is in the blob, what is to be printed of it, and where it leads.
LEMMA BeginIs ==
  ASSUME NEW d \in Devices, NEW k \in 1 .. Len(d), d[k].is = "begin"
  PROVE  /\ Blob(d)[WordsUpTo(d, k - 1) + 1] = FDT_BEGIN_NODE
         /\ NameIn(Blob(d), WordsUpTo(d, k - 1) + 1, d[k].name)
         /\ WordsUpTo(d, k) = WordsUpTo(d, k - 1) + 1 + Len(d[k].name)
         /\ LineOf(d, k) = <<Line(Within(d, k - 1), Shown(d[k].name), <<>>, 0)>>
         /\ Within(d, k) = Within(d, k - 1) + 1
<1> DEFINE name == d[k].name
           w == ItemWords(d[k])
           b == Blob(d)
           p == WordsUpTo(d, k - 1)
           q == WordsUpTo(d, k)
           n == Len(d)
<1>1. /\ w \in Seq(Nat) /\ Len(w) = 1 + Len(name) /\ w[1] = FDT_BEGIN_NODE
      /\ \A j \in 1 .. Len(name) : w[1 + j] = name[j]
  BY WordsOfBegin
<1>2. n \in Nat \ {0} /\ k \in 1 .. n
  BY TreesAre
<1>3. k - 1 \in 0 .. n /\ k \in 0 .. n /\ (k - 1) + 1 = k /\ k - 1 \in Nat
  BY <1>2
<1>4. /\ p \in Nat /\ q \in Nat /\ q <= WordsUpTo(d, n) /\ WordsUpTo(d, n) \in Nat
      /\ Len(b) = WordsUpTo(d, n) + 2 /\ q = p + Len(w)
      /\ \A j \in 1 .. Len(w) : b[p + j] = w[j]
  <2>1. n \in 0 .. n
    BY <1>2
  <2>. QED  BY <1>2, <1>3, <2>1, ItemInBlob, Zenon
<1>5. /\ name \in Seq(Nat) /\ name # <<>>
      /\ \A j \in DOMAIN name : name[j] < FirstText <=> j = Len(name)
  BY ItemsAre, Zenon
<1>6. Within(d, (k - 1) + 1) = Within(d, k - 1) + 1
  BY <1>3, WithinGoesOn
<1>7. LineOf(d, k) = <<Line(Within(d, k - 1), Shown(d[k].name), <<>>, 0)>>
  BY DEF LineOf
<1>. HIDE DEF name, w, b, p, q, n
<1>8. Len(name) \in Nat \ {0} /\ DOMAIN name = 1 .. Len(name)
  BY <1>5, EmptySeq, LenProperties
<1>9. \A j \in 1 .. Len(name) : 1 + j \in 1 .. Len(w) /\ (p + 1) + j = p + (1 + j)
  BY <1>1, <1>4, <1>8
<1>10. \A j \in 1 .. Len(name) : b[(p + 1) + j] = name[j]
  BY <1>1, <1>4, <1>9
<1>11. 1 \in 1 .. Len(w) /\ Len(b) \in Nat /\ (p + 1) + Len(name) <= Len(b) /\ q = p + 1 + Len(name)
  BY <1>1, <1>4, <1>8
<1>12. b[p + 1] = FDT_BEGIN_NODE
  BY <1>1, <1>4, <1>11
<1>13. NameIn(b, p + 1, name)
  BY <1>5, <1>8, <1>10, <1>11, Zenon DEF NameIn
<1>. QED  BY <1>3, <1>6, <1>7, <1>11, <1>12, <1>13, Zenon DEF name, w, b, p, q

LEMMA EndIs ==
  ASSUME NEW d \in Devices, NEW k \in 1 .. Len(d), d[k].is = "end"
  PROVE  /\ Blob(d)[WordsUpTo(d, k - 1) + 1] = FDT_END_NODE
         /\ WordsUpTo(d, k) = WordsUpTo(d, k - 1) + 1
         /\ LineOf(d, k) = <<Line(Within(d, k - 1) - 1, <<>>, <<>>, 0)>>
         /\ Within(d, k) = Within(d, k - 1) - 1
<1> DEFINE w == ItemWords(d[k])
           n == Len(d)
<1>1. Len(w) = 1 /\ w[1] = FDT_END_NODE
  BY WordsOfEnd
<1>2. n \in Nat \ {0} /\ k \in 1 .. n
  BY TreesAre
<1>3. k - 1 \in 0 .. n /\ (k - 1) + 1 = k /\ k - 1 \in Nat
  BY <1>2
<1>4. /\ WordsUpTo(d, k) = WordsUpTo(d, k - 1) + Len(w)
      /\ \A j \in 1 .. Len(w) : Blob(d)[WordsUpTo(d, k - 1) + j] = w[j]
  BY <1>2, ItemInBlob, Zenon
<1>5. Within(d, (k - 1) + 1) = Within(d, k - 1) - 1
  BY <1>3, WithinGoesOn
<1>6. LineOf(d, k) = <<Line(Within(d, k - 1) - 1, <<>>, <<>>, 0)>>
  BY DEF LineOf
<1>. HIDE DEF w, n
<1>7. 1 \in 1 .. Len(w)
  BY <1>1
<1>. QED  BY <1>1, <1>3, <1>4, <1>5, <1>6, <1>7, Zenon

LEMMA NopIs ==
  ASSUME NEW d \in Devices, NEW k \in 1 .. Len(d), d[k].is = "nop"
  PROVE  /\ Blob(d)[WordsUpTo(d, k - 1) + 1] = FDT_NOP
         /\ WordsUpTo(d, k) = WordsUpTo(d, k - 1) + 1
         /\ LineOf(d, k) = <<>>
         /\ Within(d, k) = Within(d, k - 1)
<1> DEFINE w == ItemWords(d[k])
           n == Len(d)
<1>1. Len(w) = 1 /\ w[1] = FDT_NOP
  BY WordsOfNop
<1>2. n \in Nat \ {0} /\ k \in 1 .. n
  BY TreesAre
<1>3. k - 1 \in 0 .. n /\ (k - 1) + 1 = k /\ k - 1 \in Nat
  BY <1>2
<1>4. /\ WordsUpTo(d, k) = WordsUpTo(d, k - 1) + Len(w)
      /\ \A j \in 1 .. Len(w) : Blob(d)[WordsUpTo(d, k - 1) + j] = w[j]
  BY <1>2, ItemInBlob, Zenon
<1>5. Within(d, (k - 1) + 1) = Within(d, k - 1)
  BY <1>3, WithinGoesOn
<1>6. LineOf(d, k) = <<>>
  BY DEF LineOf
<1>. HIDE DEF w, n
<1>7. 1 \in 1 .. Len(w)
  BY <1>1
<1>. QED  BY <1>1, <1>3, <1>4, <1>5, <1>6, <1>7, Zenon

LEMMA PropertyIs ==
  ASSUME NEW d \in Devices, NEW k \in 1 .. Len(d), d[k].is = "property"
  PROVE  LET b == Blob(d)
             p == WordsUpTo(d, k - 1)
             words == PropertyWords(b[p + 2])
         IN  /\ b[p + 1] = FDT_PROP /\ words \in Nat
             /\ WordsUpTo(d, k) = p + 3 + words
             /\ LineOf(d, k) = <<PropertyLine(Within(d, k - 1), b[p + 2], <<b[p + 3]>>,
                                              [j \in 1 .. words |-> b[p + 3 + j]])>>
             /\ Within(d, k) = Within(d, k - 1)
<1> DEFINE name == d[k].name
           value == d[k].words
           w == ItemWords(d[k])
           b == Blob(d)
           p == WordsUpTo(d, k - 1)
           q == WordsUpTo(d, k)
           n == Len(d)
           words == PropertyWords(b[p + 2])
<1>1. /\ Len(w) = 3 + Len(value) /\ w[1] = FDT_PROP /\ w[2] = d[k].len /\ w[3] = name[1]
      /\ \A j \in 1 .. Len(value) : w[3 + j] = value[j]
  BY WordsOfProperty
<1>2. n \in Nat \ {0} /\ k \in 1 .. n
  BY TreesAre
<1>3. k - 1 \in 0 .. n /\ (k - 1) + 1 = k /\ k - 1 \in Nat
  BY <1>2
<1>4. p \in Nat /\ q = p + Len(w) /\ \A j \in 1 .. Len(w) : b[p + j] = w[j]
  BY <1>2, <1>3, ItemInBlob, Zenon
<1>5. /\ name \in Seq(Nat) /\ value \in Seq(Nat) /\ d[k].len \in Nat
      /\ Len(name) = 1 /\ 4*Len(value) \in d[k].len .. d[k].len + 3
  BY ItemsAre, Zenon
<1>6. Within(d, (k - 1) + 1) = Within(d, k - 1)
  BY <1>3, WithinGoesOn
<1> DEFINE len == d[k].len
           m == Len(value)
<1>7. LineOf(d, k) = <<PropertyLine(Within(d, k - 1), len, name, value)>>
  <2>1. LineOf(d, k) = <<Line(Within(d, k - 1), name, value, ShownBytes(d[k]))>>
    BY DEF LineOf
  <2>2. ShownBytes(d[k]) = PrintedBytes(name, len, value)
    BY ShownIsPrinted
  <2>. QED  BY <2>1, <2>2, Zenon DEF PropertyLine
<1>8. m \in Nat /\ len \in Nat /\ 4*m \in len .. len + 3 /\ Len(w) = 3 + m
      /\ w[1] = FDT_PROP /\ w[2] = len /\ w[3] = name[1]
      /\ \A j \in 1 .. m : w[3 + j] = value[j]
  BY <1>1, <1>5, LenProperties
<1>9. value = [j \in 1 .. m |-> value[j]] /\ name = <<name[1]>>
  <2>. HIDE DEF name, value
  <2>1. value \in [1 .. m -> Nat]
    BY <1>5, LenProperties
  <2>2. value = [j \in 1 .. m |-> value[j]]
    BY <2>1
  <2>3. name[1] \in Nat
    <3>1. name \in [1 .. 1 -> Nat]
      BY <1>5, LenProperties
    <3>. QED  BY <3>1
  <2>4. <<name[1]>> \in Seq(Nat) /\ Len(<<name[1]>>) = 1 /\ \A i \in 1 .. 1 : <<name[1]>>[i] = name[i]
    BY <2>3
  <2>5. name = <<name[1]>>
    BY <1>5, <2>4, SeqEqual
  <2>. QED  BY <2>2, <2>5
<1>. HIDE DEF name, value, w, b, p, q, n, len, m
<1>10. (len + 3) \div 4 = m
  BY <1>8
<1>11. 1 \in 1 .. Len(w) /\ 2 \in 1 .. Len(w) /\ 3 \in 1 .. Len(w)
       /\ \A j \in 1 .. m : 3 + j \in 1 .. Len(w) /\ p + 3 + j = p + (3 + j)
  BY <1>4, <1>8
<1>12. b[p + 1] = FDT_PROP /\ b[p + 2] = len /\ b[p + 3] = name[1]
  BY <1>4, <1>8, <1>11
<1>13. \A j \in 1 .. m : b[p + 3 + j] = value[j]
  BY <1>4, <1>8, <1>11
<1>14. words = m
  BY <1>10, <1>12 DEF PropertyWords
<1>15. q = p + 3 + words
  BY <1>4, <1>8, <1>14
<1>. HIDE DEF words
<1>16. [j \in 1 .. words |-> b[p + 3 + j]] = value
  BY <1>9, <1>13, <1>14
<1>17. <<b[p + 3]>> = name
  BY <1>9, <1>12
<1>. QED  BY <1>3, <1>6, <1>7, <1>8, <1>12, <1>14, <1>15, <1>16, <1>17, Zenon DEF b, p, q, words

(***************************************************************************)
(* The nodes that are being read.                                          *)
(***************************************************************************)
Place == [base : Nat, i : Nat]
Top(path) == path[Len(path)]
Pos(path) == Top(path).base + Top(path).i

\* A node starts behind the word that begins it, where the node around it is.
Nested(path) ==
  /\ path \in Seq(Place) /\ Len(path) > 0 /\ path[1].base = 0
  /\ \A m \in 1 .. Len(path) - 1 : path[m + 1].base = path[m].base + path[m].i + 1

LEMMA TopIs ==
  ASSUME NEW path, Nested(path)
  PROVE  /\ Len(path) \in Nat \ {0} /\ Len(path) \in 1 .. Len(path) /\ Top(path) \in Place
         /\ Top(path).base \in Nat /\ Top(path).i \in Nat /\ Pos(path) \in Nat
<1>1. path \in Seq(Place) /\ Len(path) > 0
  BY DEF Nested
<1>2. Len(path) \in Nat \ {0} /\ Len(path) \in 1 .. Len(path)
  BY <1>1, LenProperties
<1>3. Top(path) \in Place
  BY <1>1, <1>2, ElementOfSeq DEF Top
<1>4. Top(path).base \in Nat /\ Top(path).i \in Nat
  BY <1>3 DEF Place
<1>. QED  BY <1>2, <1>3, <1>4 DEF Pos

LEMMA SkipNests ==
  ASSUME NEW path, Nested(path), NEW w \in Nat
  PROVE  LET to == [path EXCEPT ![Len(path)].i = @ + w]
         IN  Nested(to) /\ Len(to) = Len(path) /\ Pos(to) = Pos(path) + w
<1> DEFINE m == Len(path)
           e == [path[m] EXCEPT !.i = @ + w]
           to == [path EXCEPT ![m] = e]
<1>1. path \in Seq(Place) /\ m \in Nat \ {0} /\ m \in 1 .. m /\ path[m] \in Place
  BY TopIs DEF Nested, Top
<1>2. e \in Place /\ e.base = path[m].base /\ e.i = path[m].i + w
  BY <1>1 DEF Place
<1>3. [path EXCEPT ![Len(path)].i = @ + w] = to
  OBVIOUS
<1>. HIDE DEF e
<1>4. to \in Seq(Place) /\ Len(to) = m /\ \A j \in 1 .. m : to[j] = IF j = m THEN e ELSE path[j]
  BY <1>1, <1>2, ExceptSeq
<1>. HIDE DEF to, m
<1>5. \A j \in 1 .. m : to[j].base = path[j].base
  BY <1>2, <1>4
<1>6. \A j \in 1 .. m - 1 : to[j] = path[j] /\ j \in 1 .. m /\ j + 1 \in 1 .. m
  BY <1>1, <1>4
<1>7. /\ path[1].base = 0 /\ m > 0 /\ \A j \in 1 .. m - 1 : path[j + 1].base = path[j].base + path[j].i + 1
  BY DEF Nested, m
<1>8. 1 \in 1 .. m
  BY <1>1
<1>9. Nested(to)
  <2>1. to[1].base = 0
    BY <1>5, <1>7, <1>8
  <2>2. ASSUME NEW j \in 1 .. m - 1 PROVE to[j + 1].base = to[j].base + to[j].i + 1
    BY <1>5, <1>6, <1>7
  <2>. QED  BY <1>4, <1>7, <2>1, <2>2, Zenon DEF Nested
<1>10. Top(to) = e /\ Top(path) = path[m]
  BY <1>1, <1>4 DEF Top, m
<1>11. path[m].base \in Nat /\ path[m].i \in Nat
  BY <1>1 DEF Place
<1>12. Pos(to) = Pos(path) + w
  BY <1>2, <1>10, <1>11 DEF Pos
<1>. QED  BY <1>3, <1>4, <1>9, <1>12, Zenon DEF m

LEMMA PushNests ==
  ASSUME NEW path, Nested(path), NEW w \in Nat
  PROVE  LET to == Append(path, [base |-> Pos(path) + 1, i |-> w])
         IN  Nested(to) /\ Len(to) = Len(path) + 1 /\ Pos(to) = Pos(path) + 1 + w
<1> DEFINE m == Len(path)
           e == [base |-> Pos(path) + 1, i |-> w]
           to == Append(path, e)
<1>1. path \in Seq(Place) /\ m \in Nat \ {0} /\ Pos(path) \in Nat
  BY TopIs DEF Nested
<1>2. e \in Place /\ e.base = Pos(path) + 1 /\ e.i = w
  BY <1>1 DEF Place
<1>. HIDE DEF e
<1>3. to \in Seq(Place) /\ Len(to) = m + 1 /\ to[m + 1] = e /\ \A j \in 1 .. m : to[j] = path[j]
  <2> DEFINE A == Place
  <2>. HIDE DEF A
  <2>1. path \in Seq(A) /\ e \in A
    BY <1>1, <1>2, Zenon DEF A
  <2>2. to \in Seq(A) /\ Len(to) = m + 1 /\ to[m + 1] = e /\ \A j \in 1 .. m : to[j] = path[j]
    BY <2>1
  <2>. QED  BY <2>2, Zenon DEF A
<1>. HIDE DEF to, m
<1>4. /\ path[1].base = 0 /\ m > 0 /\ \A j \in 1 .. m - 1 : path[j + 1].base = path[j].base + path[j].i + 1
      /\ Pos(path) = path[m].base + path[m].i
  BY Zenon DEF Nested, m, Pos, Top
<1>5. Nested(to)
  <2>1. to[1].base = 0 /\ Len(to) > 0
    BY <1>1, <1>3, <1>4
  <2>2. ASSUME NEW j \in 1 .. Len(to) - 1 PROVE to[j + 1].base = to[j].base + to[j].i + 1
    <3>1. j \in 1 .. m /\ (j = m \/ (j \in 1 .. m - 1 /\ j + 1 \in 1 .. m))
      BY <1>1, <1>3
    <3>2. to[j] = path[j]
      BY <1>3, <3>1
    <3>3. CASE j = m
      <4>1. to[j + 1] = e
        BY <1>3, <3>3
      <4>. QED  BY <1>2, <1>4, <3>2, <3>3, <4>1
    <3>4. CASE j \in 1 .. m - 1 /\ j + 1 \in 1 .. m
      <4>1. to[j + 1] = path[j + 1]
        BY <1>3, <3>4
      <4>. QED  BY <1>4, <3>2, <3>4, <4>1
    <3>. QED  BY <3>1, <3>3, <3>4
  <2>. QED  BY <1>3, <2>1, <2>2, Zenon DEF Nested
<1>6. Pos(to) = Pos(path) + 1 + w
  <2>1. Top(to) = e
    BY <1>3, Zenon DEF Top
  <2>. QED  BY <1>2, <2>1 DEF Pos
<1>. QED  BY <1>3, <1>5, <1>6, Zenon DEF m, to, e

LEMMA PopNests ==
  ASSUME NEW path, Nested(path), Len(path) # 1
  PROVE  LET outer == Front(path)
             to == [outer EXCEPT ![Len(outer)].i = @ + Top(path).i + 1 + 1]
         IN  outer # <<>> /\ Nested(to) /\ Len(to) = Len(path) - 1 /\ Pos(to) = Pos(path) + 1
<1> DEFINE m == Len(path) - 1
           outer == Front(path)
           e == [outer[m] EXCEPT !.i = @ + Top(path).i + 1 + 1]
           to == [outer EXCEPT ![m] = e]
<1>1. path \in Seq(Place) /\ m \in Nat \ {0} /\ Len(path) = m + 1 /\ Top(path).i \in Nat
  BY TopIs DEF Nested
<1>2. \A j \in 1 .. m + 1 : path[j] \in Place
  BY <1>1, ElementOfSeq
<1>3. outer = SubSeq(path, 1, m)
  BY DEF Front
<1>. HIDE DEF m, outer
<1>4. /\ 1 \in Int /\ m \in Int /\ \A i \in 1 .. m : path[i] \in Place
      /\ (IF 1 <= m THEN m - 1 + 1 ELSE 0) = m /\ m - 1 + 1 = m
      /\ \A i \in 1 .. m : 1 + i - 1 = i
  BY <1>1, <1>2
<1>5. outer \in Seq(Place) /\ Len(outer) = m /\ \A i \in 1 .. m : outer[i] = path[i]
  <2>1. /\ SubSeq(path, 1, m) \in Seq(Place)
        /\ Len(SubSeq(path, 1, m)) = IF 1 <= m THEN m - 1 + 1 ELSE 0
        /\ \A i \in 1 .. m - 1 + 1 : SubSeq(path, 1, m)[i] = path[1 + i - 1]
    BY <1>4, SubSeqProperties
  <2>. QED  BY <1>3, <1>4, <2>1, Zenon
<1>6. m \in 1 .. m /\ outer[m] = path[m] /\ path[m] \in Place
  BY <1>1, <1>2, <1>5
<1>7. e \in Place /\ e.base = path[m].base /\ e.i = path[m].i + Top(path).i + 1 + 1
  <2>. HIDE DEF Top
  <2>. QED  BY <1>1, <1>6 DEF Place
<1>8. [outer EXCEPT ![Len(outer)].i = @ + Top(path).i + 1 + 1] = to
  BY <1>5
<1>. HIDE DEF e
<1>9. to \in Seq(Place) /\ Len(to) = m /\ \A j \in 1 .. m : to[j] = IF j = m THEN e ELSE outer[j]
  BY <1>5, <1>6, <1>7, ExceptSeq
<1>. HIDE DEF to
<1>10. \A j \in 1 .. m : to[j].base = path[j].base
  BY <1>5, <1>7, <1>9
<1>11. \A j \in 1 .. m - 1 : to[j] = path[j] /\ j \in 1 .. m /\ j + 1 \in 1 .. m
  BY <1>1, <1>5, <1>9
<1>12. /\ path[1].base = 0 /\ \A j \in 1 .. m : path[j + 1].base = path[j].base + path[j].i + 1
  <2>1. Len(path) - 1 = m
    BY <1>1
  <2>. QED  BY <2>1, Zenon DEF Nested
<1>13. Nested(to)
  <2>1. to[1].base = 0 /\ m > 0 /\ 1 \in 1 .. m
    BY <1>1, <1>10, <1>12
  <2>2. ASSUME NEW j \in 1 .. m - 1 PROVE to[j + 1].base = to[j].base + to[j].i + 1
    BY <1>10, <1>11, <1>12
  <2>. QED  BY <1>9, <2>1, <2>2, Zenon DEF Nested
<1>14. Pos(to) = Pos(path) + 1
  <2>1. Top(to) = e /\ Top(path) = path[m + 1] /\ path[m + 1].base = path[m].base + path[m].i + 1
    BY <1>1, <1>6, <1>9, <1>12 DEF Top
  <2>2. path[m].base \in Nat /\ path[m].i \in Nat /\ path[m + 1].i \in Nat
    BY <1>1, <1>6, <2>1 DEF Place
  <2>. QED  BY <1>7, <2>1, <2>2 DEF Pos
<1>15. outer # <<>>
  BY <1>1, <1>5
<1>. QED  BY <1>1, <1>8, <1>9, <1>13, <1>14, <1>15, Zenon DEF m, outer

(***************************************************************************)
(* The reader.                                                             *)
(***************************************************************************)
LEMMA NameRead ==
  ASSUME NEW base \in Nat, NEW name, NameIn(structs, base, name)
  PROVE  NameEnd(base) = Len(name) - 1 /\ Name(base) = Shown(name)
<1> DEFINE e == Len(name) - 1
           L == Len(structs)
           S == {i \in 0 .. L - base - 1 : WordAt(base, i) < FirstText}
           shown == Shown(name)
           m == Len(shown)
<1>1. /\ name \in Seq(Nat) /\ name # <<>> /\ L \in Nat /\ base + Len(name) <= L
      /\ \A j \in 1 .. Len(name) : structs[base + j] = name[j] /\ (name[j] < FirstText <=> j = Len(name))
  BY Zenon DEF NameIn
<1>2. Len(name) \in Nat \ {0}
  BY <1>1, EmptySeq
<1>3. e \in Nat /\ Len(name) = e + 1 /\ e \in 0 .. L - base - 1
  BY <1>1, <1>2
<1>. HIDE DEF e, L
<1>4. \A i \in 0 .. e : i + 1 \in 1 .. Len(name) /\ base + i + 1 = base + (i + 1) /\ (i + 1 = Len(name) <=> i = e)
  BY <1>3
<1>5. \A i \in 0 .. e : WordAt(base, i) = name[i + 1] /\ (WordAt(base, i) < FirstText <=> i = e)
  <2>1. ASSUME NEW i \in 0 .. e
        PROVE  WordAt(base, i) = name[i + 1] /\ (WordAt(base, i) < FirstText <=> i = e)
    <3> DEFINE j == i + 1
    <3>1. j \in 1 .. Len(name) /\ WordAt(base, i) = structs[base + j] /\ (j = Len(name) <=> i = e)
      BY <1>4 DEF WordAt
    <3>. HIDE DEF j
    <3>2. WordAt(base, i) = name[j] /\ (WordAt(base, i) < FirstText <=> i = e)
      BY <1>1, <3>1
    <3>. QED  BY <3>2 DEF j
  <2>. QED  BY <2>1
<1>6. e \in S
  BY <1>3, <1>5
<1>7. \A y \in S : e <= y
  <2>1. \A y \in 0 .. L - base - 1 : e <= y \/ (y \in 0 .. e /\ y # e)
    BY <1>1, <1>3
  <2>. QED  BY <1>5, <2>1, Zenon
<1>8. S \in SUBSET Int
  BY <1>1
<1>. HIDE DEF S
<1>9. Min(S) = e
  <2>1. Min(S) \in S /\ \A y \in S : Min(S) <= y
    BY <1>6, <1>7, Zenon DEF Min
  <2>2. Min(S) <= e /\ e <= Min(S) /\ Min(S) \in Int /\ e \in Int
    BY <1>3, <1>6, <1>7, <1>8, <2>1, Zenon
  <2>. QED  BY <2>2
<1>10. NameEnd(base) = e
  BY <1>9, Zenon DEF NameEnd, S, L
<1>11. /\ shown \in Seq(Nat) /\ m = IF name[Len(name)] <= FDT_END THEN Len(name) - 1 ELSE Len(name)
       /\ \A j \in 1 .. m : shown[j] = name[j]
  BY <1>1, ShownIs
<1>. HIDE DEF shown
<1>12. shown = [j \in 1 .. m |-> shown[j]]
  BY <1>11
<1>13. WordAt(base, e) = name[Len(name)]
  BY <1>3, <1>5
<1>14. (IF WordAt(base, e) <= FDT_END THEN e ELSE e + 1) = m
  BY <1>3, <1>11, <1>13
<1>. HIDE DEF m
<1>15. Name(base) = [i \in 1 .. m |-> WordAt(base, i - 1)]
  BY <1>10, <1>14, Zenon DEF Name
<1>16. m \in Nat /\ m <= Len(name)
  BY <1>2, <1>11
<1>17. \A i \in 1 .. m : i - 1 \in 0 .. e /\ (i - 1) + 1 = i
  BY <1>3, <1>16
<1>18. \A i \in 1 .. m : WordAt(base, i - 1) = shown[i]
  BY <1>5, <1>11, <1>17
<1>19. Name(base) = shown
  BY <1>12, <1>15, <1>18
<1>. QED  BY <1>10, <1>19 DEF shown, e

\* The reader has read k items.  Of the root it first reads only the beginning.
ReadTo(d, k, pos) == pos = WordsUpTo(d, k) \/ (k = 1 /\ pos + 1 = WordsUpTo(d, 1))

NodeAt(d, path, lines, k) ==
  /\ k \in 1 .. Len(d) - 1 /\ Len(path) = Within(d, k) /\ lines = TreeLines(d)[k]
  /\ Nested(path) /\ ReadTo(d, k, Pos(path))

\* One more line.
LEMMA LineGoesOn ==
  ASSUME NEW d \in Devices, NEW k \in 1 .. Len(d), NEW line, LineOf(d, k) = <<line>>
  PROVE  TreeLines(d)[k] = Append(TreeLines(d)[k - 1], line)
<1> DEFINE A == AnyLine
           s == TreeLines(d)[k - 1]
<1>1. k - 1 \in 0 .. Len(d)
  BY TreesAre
<1>2. s \in Seq(A) /\ TreeLines(d)[k] = s \o <<line>>
  BY <1>1, LinesOfTree
<1>3. <<line>> \in Seq(A)
  BY LinesOfItem
<1>. HIDE DEF A, s
<1>4. line \in A
  <2>1. <<line>> \in [1 .. 1 -> A]
    <3>1. Len(<<line>>) = 1
      OBVIOUS
    <3>. QED  BY <1>3, <3>1, LenProperties
  <2>2. <<line>>[1] = line
    OBVIOUS
  <2>. QED  BY <2>1, <2>2
<1>5. s \o <<line>> = Append(s, line)
  BY <1>2, <1>4
<1>. QED  BY <1>2, <1>5 DEF s

\* There is more behind every item but the last.
LEMMA NextItem ==
  ASSUME NEW d \in Devices, NEW k \in 1 .. Len(d) - 1
  PROVE  /\ k + 1 \in 1 .. Len(d) /\ (k + 1) - 1 = k /\ k \in Nat /\ k \in 1 .. Len(d)
         /\ Within(d, k) \in Nat \ {0} /\ Within(d, k + 1) \in Nat
         /\ Within(d, k + 1) # 0 <=> k + 1 \in 1 .. Len(d) - 1
         /\ Within(d, k + 1) = 0 <=> k + 1 = Len(d)
         /\ WordsUpTo(d, k) \in Nat
<1> DEFINE n == Len(d)
           Deep(j) == Within(d, j)
<1>1. n \in Nat \ {0} /\ \A j \in 1 .. n : Deep(j) \in Nat /\ (Deep(j) = 0 <=> j = n)
  BY TreesAre, Zenon
<1>2. k \in 1 .. n - 1
  OBVIOUS
<1>3. \A j \in 0 .. n : WordsUpTo(d, j) \in Nat
  BY ItemInBlob
<1>. HIDE DEF n, Deep
<1>4. k + 1 \in 1 .. n /\ (k + 1) - 1 = k /\ k \in Nat /\ k \in 1 .. n /\ k # n /\ k \in 0 .. n
  BY <1>1, <1>2
<1>5. k + 1 # n <=> k + 1 \in 1 .. n - 1
  BY <1>1, <1>4
<1>6. Deep(k) \in Nat /\ Deep(k) # 0 /\ Deep(k + 1) \in Nat /\ (Deep(k + 1) = 0 <=> k + 1 = n)
  BY <1>1, <1>4, Zenon
<1>7. Deep(k) \in Nat \ {0}
  BY <1>6
<1>. QED  BY <1>3, <1>4, <1>5, <1>6, <1>7, Zenon DEF n, Deep

LEMMA RootOpens ==
  ASSUME devices \in Devices, structs = Blob(devices), depth_at = <<>>, tree_lines = <<>>, Open(0)
  PROVE  NodeAt(devices, depth_at', tree_lines', 1)
<1> DEFINE d == devices
           b == Blob(d)
           one == <<1>>
           root == [base |-> 0, i |-> 1]
<1>1. /\ 1 \in 1 .. Len(d) /\ d[1].is = "begin" /\ d[1].name = <<0>> /\ Len(d) \in Nat \ {0}
      /\ Within(d, 1) \in Nat /\ (Within(d, 1) = 0 <=> 1 = Len(d))
  <2>1. Len(d) \in Nat \ {0}
    BY TreesAre
  <2>2. 1 \in 1 .. Len(d)
    BY <2>1
  <2>. QED  BY <2>1, <2>2, TreesAre, Zenon
<1>2. /\ b[WordsUpTo(d, 1 - 1) + 1] = FDT_BEGIN_NODE
      /\ NameIn(b, WordsUpTo(d, 1 - 1) + 1, d[1].name)
      /\ WordsUpTo(d, 1) = WordsUpTo(d, 1 - 1) + 1 + Len(d[1].name)
      /\ LineOf(d, 1) = <<Line(Within(d, 1 - 1), Shown(d[1].name), <<>>, 0)>>
      /\ Within(d, 1) = Within(d, 1 - 1) + 1
  BY <1>1, BeginIs, Zenon
<1>3. WordsUpTo(d, 0) = 0 /\ Within(d, 0) = 0 /\ 1 - 1 = 0 /\ Len(<<0>>) = 1
  <2>1. WordsUpTo(d, 0) = 0
    BY ItemInBlob
  <2>2. 0 \in Nat
    OBVIOUS
  <2>3. Within(d, 0) = 0
    BY <2>2, WithinGoesOn
  <2>. QED  BY <2>1, <2>3
<1>4. /\ b[1] = 1 /\ Len(b) \in Nat /\ 2 <= Len(b)
      /\ WordsUpTo(d, 1) = 2 /\ Within(d, 1) = 1
      /\ LineOf(d, 1) = <<Line(0, Shown(<<0>>), <<>>, 0)>>
  <2>1. b[1] = 1 /\ WordsUpTo(d, 1) = 2 /\ Within(d, 1) = 1
    BY <1>1, <1>2, <1>3 DEF FDT_BEGIN_NODE
  <2>2. Len(b) \in Nat /\ 0 + 1 + Len(<<0>>) <= Len(b)
    BY <1>1, <1>2, <1>3, Zenon DEF NameIn
  <2>3. LineOf(d, 1) = <<Line(0, Shown(<<0>>), <<>>, 0)>>
    BY <1>1, <1>2, <1>3, Zenon
  <2>. QED  BY <1>3, <2>1, <2>2, <2>3
<1>. HIDE DEF b
<1>5. FirstText \in Nat /\ FirstText > FDT_END
  BY DeviceTreeAssumption, Zenon
<1>6. NameIn(b, 0, one)
  BY <1>4, <1>5 DEF NameIn, FDT_END
<1>7. NameEnd(0) = 0 /\ Name(0) = Shown(one)
  <2>1. NameIn(structs, 0, one) /\ 0 \in Nat
    BY <1>6, Zenon DEF b
  <2>2. NameEnd(0) = Len(one) - 1 /\ Name(0) = Shown(one)
    BY <2>1, NameRead, Zenon
  <2>. QED  BY <2>2
<1>8. Shown(one) = <<>> /\ Shown(<<0>>) = <<>>
  BY SubSeqEmpty DEF Shown, Last, FDT_END
<1>9. depth_at' = <<root>> /\ tree_lines' = <<Line(0, <<>>, <<>>, 0)>>
  BY <1>7, <1>8 DEF Open, Puts
<1>10. LineOf(d, 1) = <<Line(0, <<>>, <<>>, 0)>>
  BY <1>4, <1>8, Zenon
<1>11. tree_lines' = TreeLines(d)[1]
  <2>1. TreeLines(d)[1] = Append(TreeLines(d)[1 - 1], Line(0, <<>>, <<>>, 0))
    BY <1>1, <1>10, LineGoesOn, Zenon
  <2>2. TreeLines(d)[0] = <<>>
    BY LinesOfTree
  <2>. QED  BY <1>3, <1>9, <2>1, <2>2
<1>12. Nested(<<root>>) /\ Pos(<<root>>) = 1 /\ Len(<<root>>) = 1
  <2>1. root \in Place /\ root.base = 0 /\ root.i = 1
    BY DEF Place
  <2>. HIDE DEF root
  <2>2. <<root>> \in Seq(Place) /\ Len(<<root>>) = 1 /\ <<root>>[1] = root
    <3> DEFINE A == Place
    <3>1. root \in A
      BY <2>1
    <3>. HIDE DEF A
    <3>2. <<root>> \in Seq(A) /\ Len(<<root>>) = 1 /\ <<root>>[1] = root
      BY <3>1
    <3>. QED  BY <3>2 DEF A
  <2>3. Nested(<<root>>)
    BY <2>1, <2>2 DEF Nested
  <2>. QED  BY <2>1, <2>2, <2>3 DEF Pos, Top
<1>13. 1 \in 1 .. Len(d) - 1
  <2>1. 1 # 0
    OBVIOUS
  <2>2. 1 # Len(d)
    BY <1>1, <1>4, <2>1, Zenon
  <2>. QED  BY <1>1, <2>2
<1>14. ReadTo(d, 1, Pos(<<root>>))
  BY <1>4, <1>12 DEF ReadTo
<1>. QED  BY <1>4, <1>9, <1>11, <1>12, <1>13, <1>14, Zenon DEF NodeAt

\* The word that is read next is the first of the next item, but for the name of the root.
LEMMA NextToken ==
  ASSUME devices \in Devices, structs = Blob(devices), NEW k, NodeAt(devices, depth_at, tree_lines, k)
  PROVE  /\ k \in 1 .. Len(devices) - 1 /\ k + 1 \in 1 .. Len(devices)
         /\ Pos(depth_at) \in Nat /\ Token = structs[Pos(depth_at) + 1]
         /\ Token \in {FDT_BEGIN_NODE, FDT_PROP, FDT_END_NODE} => Pos(depth_at) = WordsUpTo(devices, k)
         /\ Token = FDT_BEGIN_NODE => devices[k + 1].is = "begin"
         /\ Token = FDT_PROP => devices[k + 1].is = "property"
         /\ Token = FDT_END_NODE => devices[k + 1].is = "end"
         /\ Token \notin {FDT_BEGIN_NODE, FDT_PROP, FDT_END_NODE} =>
              \/ k = 1 /\ Pos(depth_at) + 1 = WordsUpTo(devices, 1)
              \/ Pos(depth_at) = WordsUpTo(devices, k) /\ devices[k + 1].is = "nop"
<1> DEFINE d == devices
           b == Blob(d)
           pos == Pos(depth_at)
           p == WordsUpTo(d, k)
           is == d[k + 1].is
<1>1. k \in 1 .. Len(d) - 1 /\ Nested(depth_at) /\ ReadTo(d, k, pos)
  BY Zenon DEF NodeAt
<1>2. k + 1 \in 1 .. Len(d) /\ (k + 1) - 1 = k /\ p \in Nat
  BY <1>1, NextItem
<1>3. pos \in Nat
  BY <1>1, TopIs
<1>4. Token = b[pos + 1]
  BY DEF Token, WordAt, Node, Pos, Top
<1>5. is = "begin" \/ is = "end" \/ is = "property" \/ is = "nop"
  BY <1>2, ItemsAre
<1>6. /\ is = "begin" => b[p + 1] = FDT_BEGIN_NODE
      /\ is = "end" => b[p + 1] = FDT_END_NODE
      /\ is = "property" => b[p + 1] = FDT_PROP
      /\ is = "nop" => b[p + 1] = FDT_NOP
  <2>1. is = "begin" => b[WordsUpTo(d, (k + 1) - 1) + 1] = FDT_BEGIN_NODE
    BY <1>2, BeginIs, Zenon
  <2>2. is = "end" => b[WordsUpTo(d, (k + 1) - 1) + 1] = FDT_END_NODE
    BY <1>2, EndIs, Zenon
  <2>3. is = "property" => b[WordsUpTo(d, (k + 1) - 1) + 1] = FDT_PROP
    BY <1>2, PropertyIs, Zenon
  <2>4. is = "nop" => b[WordsUpTo(d, (k + 1) - 1) + 1] = FDT_NOP
    BY <1>2, NopIs, Zenon
  <2>. QED  BY <1>2, <2>1, <2>2, <2>3, <2>4, Zenon
<1>7. /\ FDT_BEGIN_NODE # FDT_END_NODE /\ FDT_BEGIN_NODE # FDT_PROP /\ FDT_BEGIN_NODE # FDT_NOP
      /\ FDT_END_NODE # FDT_PROP /\ FDT_END_NODE # FDT_NOP /\ FDT_PROP # FDT_NOP
      /\ 0 \notin {FDT_BEGIN_NODE, FDT_PROP, FDT_END_NODE}
  BY DEF FDT_BEGIN_NODE, FDT_END_NODE, FDT_PROP, FDT_NOP
<1>8. CASE pos = p
  <2>1. Token = b[p + 1]
    BY <1>4, <1>8
  <2>2. /\ is = "begin" => Token = FDT_BEGIN_NODE
        /\ is = "end" => Token = FDT_END_NODE
        /\ is = "property" => Token = FDT_PROP
        /\ is = "nop" => Token = FDT_NOP
    BY <1>6, <2>1, Zenon
  <2>. HIDE DEF is, p, pos, d
  <2>3. /\ Token = FDT_BEGIN_NODE => is = "begin"
        /\ Token = FDT_PROP => is = "property"
        /\ Token = FDT_END_NODE => is = "end"
        /\ Token \notin {FDT_BEGIN_NODE, FDT_PROP, FDT_END_NODE} => is = "nop"
    BY <1>5, <1>7, <2>2, Zenon
  <2>. QED  BY <1>1, <1>2, <1>3, <1>4, <1>8, <2>3, Zenon DEF is, p, pos, b, d
<1>9. CASE pos # p
  <2>1. k = 1 /\ pos + 1 = WordsUpTo(d, 1)
    BY <1>1, <1>9, Zenon DEF ReadTo
  <2>2. Token = 0
    <3>1. d[1].is = "begin" /\ d[1].name = <<0>> /\ 1 \in 1 .. Len(d)
      BY <1>1, <2>1, TreesAre
    <3>2. /\ NameIn(b, WordsUpTo(d, 1 - 1) + 1, d[1].name)
          /\ WordsUpTo(d, 1) = WordsUpTo(d, 1 - 1) + 1 + Len(d[1].name)
      BY <3>1, BeginIs, Zenon
    <3>3. WordsUpTo(d, 1 - 1) = 0
      BY ItemInBlob
    <3>4. Len(<<0>>) = 1 /\ <<0>>[1] = 0 /\ 1 \in 1 .. 1
      OBVIOUS
    <3>5. b[WordsUpTo(d, 1 - 1) + 1 + 1] = 0
      BY <3>1, <3>2, <3>4, Zenon DEF NameIn
    <3>6. WordsUpTo(d, 1) = WordsUpTo(d, 1 - 1) + 1 + 1
      BY <3>1, <3>2, <3>4, Zenon
    <3>. HIDE DEF pos, b, d
    <3>7. pos + 1 = WordsUpTo(d, 1 - 1) + 1 + 1
      BY <2>1, <3>6, Zenon
    <3>. QED  BY <1>4, <3>5, <3>7, Zenon
  <2>3. Token \notin {FDT_BEGIN_NODE, FDT_PROP, FDT_END_NODE}
    BY <1>7, <2>2, Zenon
  <2>4. Token # FDT_BEGIN_NODE /\ Token # FDT_PROP /\ Token # FDT_END_NODE
    BY <2>3, Zenon
  <2>. QED  BY <1>1, <1>2, <1>3, <1>4, <2>1, <2>3, <2>4, Zenon
<1>. QED
  BY <1>8, <1>9, Zenon

\* A step that reads the next item.
LEMMA ItemRead ==
  ASSUME NEW d \in Devices, NEW k \in 1 .. Len(d) - 1, NEW path, NEW lines,
         Within(d, k + 1) # 0, Nested(path), Len(path) = Within(d, k + 1), Pos(path) = WordsUpTo(d, k + 1),
         lines = TreeLines(d)[k + 1]
  PROVE  NodeAt(d, path, lines, k + 1)
<1>1. k + 1 \in 1 .. Len(d) - 1
  BY NextItem, Zenon
<1>. QED  BY <1>1, Zenon DEF NodeAt, ReadTo

LEMMA BeginNodeReads ==
  ASSUME devices \in Devices, structs = Blob(devices), NEW k, NodeAt(devices, depth_at, tree_lines, k),
         BeginNode
  PROVE  NodeAt(devices, depth_at', tree_lines', k + 1)
<1> DEFINE d == devices
           pos == Pos(depth_at)
           name == d[k + 1].name
           line == Line(Len(depth_at), Shown(name), <<>>, 0)
           to == Append(depth_at, [base |-> pos + 1, i |-> Len(name)])
<1>1. /\ k \in 1 .. Len(d) - 1 /\ Nested(depth_at) /\ Len(depth_at) = Within(d, k)
      /\ tree_lines = TreeLines(d)[k]
  BY Zenon DEF NodeAt
<1>2. Token = FDT_BEGIN_NODE /\ Open(Node.base + Node.i + 1)
  BY Zenon DEF BeginNode
<1>3. k + 1 \in 1 .. Len(d) /\ pos \in Nat /\ pos = WordsUpTo(d, k) /\ d[k + 1].is = "begin"
  <2>1. Token \in {FDT_BEGIN_NODE, FDT_PROP, FDT_END_NODE}
    BY <1>2, Zenon
  <2>. QED  BY <1>2, <2>1, NextToken, Zenon
<1>4. (k + 1) - 1 = k /\ Within(d, k) \in Nat
  BY <1>1, NextItem
<1>5. /\ NameIn(Blob(d), WordsUpTo(d, (k + 1) - 1) + 1, name)
      /\ WordsUpTo(d, k + 1) = WordsUpTo(d, (k + 1) - 1) + 1 + Len(name)
      /\ LineOf(d, k + 1) = <<Line(Within(d, (k + 1) - 1), Shown(name), <<>>, 0)>>
      /\ Within(d, k + 1) = Within(d, (k + 1) - 1) + 1
  BY <1>3, BeginIs, Zenon
<1>6. /\ NameIn(structs, pos + 1, name)
      /\ WordsUpTo(d, k + 1) = pos + 1 + Len(name)
      /\ LineOf(d, k + 1) = <<line>>
      /\ Within(d, k + 1) = Within(d, k) + 1
  BY <1>1, <1>3, <1>4, <1>5, Zenon
<1>7. name \in Seq(Nat) /\ Len(name) \in Nat
  <2>1. name \in Seq(Nat)
    BY <1>6, Zenon DEF NameIn
  <2>. QED  BY <2>1, LenProperties
<1>8. NameEnd(pos + 1) = Len(name) - 1 /\ Name(pos + 1) = Shown(name)
  <2>1. pos + 1 \in Nat
    BY <1>3
  <2>. QED  BY <1>6, <2>1, NameRead, Zenon
<1>9. Node.base + Node.i + 1 = pos + 1
  BY DEF Node, Pos, Top
<1>10. depth_at' = to /\ tree_lines' = Append(tree_lines, line)
  <2>. HIDE DEF pos
  <2>1. Open(pos + 1)
    BY <1>2, <1>9, Zenon
  <2>2. (Len(name) - 1) + 1 = Len(name)
    BY <1>7
  <2>3. depth_at' = Append(depth_at, [base |-> pos + 1, i |-> NameEnd(pos + 1) + 1])
    BY <2>1, Zenon DEF Open
  <2>4. tree_lines' = Append(tree_lines, Line(Len(depth_at), Name(pos + 1), <<>>, 0))
    BY <2>1, Zenon DEF Open, Puts
  <2>. QED  BY <1>8, <2>2, <2>3, <2>4, Zenon
<1>11. Nested(to) /\ Len(to) = Len(depth_at) + 1 /\ Pos(to) = pos + 1 + Len(name)
  BY <1>1, <1>7, PushNests
<1>12. TreeLines(d)[k + 1] = Append(TreeLines(d)[k], line)
  <2>1. TreeLines(d)[k + 1] = Append(TreeLines(d)[(k + 1) - 1], line)
    BY <1>3, <1>6, LineGoesOn, Zenon
  <2>. QED  BY <1>4, <2>1, Zenon
<1>13. Within(d, k + 1) # 0
  BY <1>4, <1>6
<1>. HIDE DEF to, line, pos, name, d
<1>14. /\ Nested(depth_at') /\ Len(depth_at') = Within(d, k + 1) /\ Pos(depth_at') = WordsUpTo(d, k + 1)
       /\ tree_lines' = TreeLines(d)[k + 1]
  BY <1>1, <1>6, <1>10, <1>11, <1>12, Zenon
<1>. QED  BY <1>1, <1>13, <1>14, ItemRead, Zenon DEF d

LEMMA PropertyReads ==
  ASSUME devices \in Devices, structs = Blob(devices), NEW k, NodeAt(devices, depth_at, tree_lines, k),
         Property
  PROVE  NodeAt(devices, depth_at', tree_lines', k + 1)
<1> DEFINE d == devices
           b == Blob(d)
           pos == Pos(depth_at)
           words == PropertyWords(b[pos + 2])
           line == PropertyLine(Len(depth_at), b[pos + 2], <<b[pos + 3]>>,
                                [j \in 1 .. words |-> b[pos + 3 + j]])
           to == [depth_at EXCEPT ![Len(depth_at)].i = @ + (3 + words)]
<1>1. /\ k \in 1 .. Len(d) - 1 /\ Nested(depth_at) /\ Len(depth_at) = Within(d, k)
      /\ tree_lines = TreeLines(d)[k]
  BY Zenon DEF NodeAt
<1>2. Token = FDT_PROP
  BY Zenon DEF Property
<1>3. k + 1 \in 1 .. Len(d) /\ pos \in Nat /\ pos = WordsUpTo(d, k) /\ d[k + 1].is = "property"
  <2>1. Token \in {FDT_BEGIN_NODE, FDT_PROP, FDT_END_NODE}
    BY <1>2, Zenon
  <2>. QED  BY <1>2, <2>1, NextToken, Zenon
<1>4. (k + 1) - 1 = k /\ Within(d, k) \in Nat \ {0}
  BY <1>1, NextItem
<1>5. /\ words \in Nat /\ WordsUpTo(d, k + 1) = pos + 3 + words
      /\ LineOf(d, k + 1) = <<line>> /\ Within(d, k + 1) = Within(d, k)
  <2> DEFINE p == WordsUpTo(d, (k + 1) - 1)
             counted == PropertyWords(b[p + 2])
  <2>1. /\ counted \in Nat /\ WordsUpTo(d, k + 1) = p + 3 + counted
        /\ LineOf(d, k + 1) = <<PropertyLine(Within(d, (k + 1) - 1), b[p + 2], <<b[p + 3]>>,
                                             [j \in 1 .. counted |-> b[p + 3 + j]])>>
        /\ Within(d, k + 1) = Within(d, (k + 1) - 1)
    BY <1>3, PropertyIs
  <2>2. p = pos /\ Within(d, (k + 1) - 1) = Len(depth_at)
    BY <1>1, <1>3, <1>4, Zenon
  <2>. HIDE DEF p, b, pos, d
  <2>. QED  BY <1>1, <1>4, <2>1, <2>2, Zenon DEF d
<1>6. depth_at' = to /\ tree_lines' = Append(tree_lines, line)
  <2>1. Node.base \in Nat /\ Node.i \in Nat /\ pos = Node.base + Node.i
    BY <1>1, TopIs DEF Node, Top, Pos
  <2>2. /\ WordAt(Node.base, Node.i + 1) = b[pos + 2] /\ WordAt(Node.base, Node.i + 2) = b[pos + 3]
        /\ \A j \in 1 .. words : WordAt(Node.base, Node.i + 2 + j) = b[pos + 3 + j]
    <3>1. /\ Node.base + (Node.i + 1) + 1 = pos + 2 /\ Node.base + (Node.i + 2) + 1 = pos + 3
          /\ \A j \in 1 .. words : Node.base + (Node.i + 2 + j) + 1 = pos + 3 + j
      <4> DEFINE x == Node.base
                 y == Node.i
      <4>1. x \in Nat /\ y \in Nat /\ pos = x + y
        BY <2>1
      <4>. HIDE DEF x, y, pos, words
      <4>2. /\ x + (y + 1) + 1 = pos + 2 /\ x + (y + 2) + 1 = pos + 3
            /\ \A j \in 1 .. words : x + (y + 2 + j) + 1 = pos + 3 + j
        BY <1>5, <4>1
      <4>. QED  BY <4>2, Zenon DEF x, y
    <3>. HIDE DEF pos, words, b
    <3>. QED  BY <3>1, Zenon DEF WordAt, b
  <2> DEFINE len == WordAt(Node.base, Node.i + 1)
             counted == PropertyWords(len)
             value == [j \in 1 .. counted |-> WordAt(Node.base, Node.i + 2 + j)]
  <2>3. /\ tree_lines' = Append(tree_lines, PropertyLine(Len(depth_at), len,
                                                         <<WordAt(Node.base, Node.i + 2)>>, value))
        /\ depth_at' = [depth_at EXCEPT ![Len(depth_at)].i = @ + (3 + counted)]
    BY DEF Property, Puts, Skip, PropertyLine
  <2>4. counted = words
    BY <2>2, Zenon
  <2>. HIDE DEF pos, words, b, counted, len
  <2>5. value = [j \in 1 .. words |-> b[pos + 3 + j]]
    BY <2>2, <2>4
  <2>6. len = b[pos + 2]
    BY <2>2, Zenon DEF len
  <2>. HIDE DEF value
  <2>. QED  BY <2>2, <2>3, <2>4, <2>5, <2>6, Zenon
<1>7. Nested(to) /\ Len(to) = Len(depth_at) /\ Pos(to) = pos + (3 + words)
  <2>1. 3 + words \in Nat
    BY <1>5
  <2>. HIDE DEF words
  <2> DEFINE w == 3 + words
  <2>. HIDE DEF w
  <2>2. LET by == [depth_at EXCEPT ![Len(depth_at)].i = @ + w]
        IN  Nested(by) /\ Len(by) = Len(depth_at) /\ Pos(by) = Pos(depth_at) + w
    BY <1>1, <2>1, SkipNests DEF w
  <2>. QED  BY <2>2 DEF w
<1>8. pos + (3 + words) = pos + 3 + words
  BY <1>3, <1>5
<1>9. TreeLines(d)[k + 1] = Append(TreeLines(d)[k], line)
  <2>. HIDE DEF line
  <2>1. TreeLines(d)[k + 1] = Append(TreeLines(d)[(k + 1) - 1], line)
    BY <1>3, <1>5, LineGoesOn, Zenon
  <2>. QED  BY <1>4, <2>1, Zenon
<1>10. Within(d, k + 1) # 0
  BY <1>4, <1>5
<1>. HIDE DEF to, line, pos, words, d
<1>11. /\ Nested(depth_at') /\ Len(depth_at') = Within(d, k + 1) /\ Pos(depth_at') = WordsUpTo(d, k + 1)
       /\ tree_lines' = TreeLines(d)[k + 1]
  BY <1>1, <1>5, <1>6, <1>7, <1>8, <1>9, Zenon
<1>. QED  BY <1>1, <1>10, <1>11, ItemRead, Zenon DEF d

\* A word that is no token is the last of the root's name, or an item of its own.
LEMMA UnknownWordReads ==
  ASSUME devices \in Devices, structs = Blob(devices), NEW k, NodeAt(devices, depth_at, tree_lines, k),
         UnknownWord
  PROVE  \E m : NodeAt(devices, depth_at', tree_lines', m)
<1> DEFINE d == devices
           pos == Pos(depth_at)
           to == [depth_at EXCEPT ![Len(depth_at)].i = @ + 1]
<1>1. /\ k \in 1 .. Len(d) - 1 /\ Nested(depth_at) /\ Len(depth_at) = Within(d, k)
      /\ tree_lines = TreeLines(d)[k]
  BY Zenon DEF NodeAt
<1>2. Token \notin {FDT_BEGIN_NODE, FDT_PROP, FDT_END_NODE} /\ depth_at' = to /\ tree_lines' = tree_lines
  BY Zenon DEF UnknownWord, Skip
<1>3. Nested(to) /\ Len(to) = Len(depth_at) /\ Pos(to) = pos + 1
  BY <1>1, SkipNests
<1>4. \/ k = 1 /\ pos + 1 = WordsUpTo(d, 1)
      \/ pos = WordsUpTo(d, k) /\ d[k + 1].is = "nop"
  BY <1>2, NextToken, Zenon
<1>. HIDE DEF to
<1>5. CASE k = 1 /\ pos + 1 = WordsUpTo(d, 1)
  <2>1. ReadTo(d, k, Pos(to))
    BY <1>3, <1>5, Zenon DEF ReadTo
  <2>. QED  BY <1>1, <1>2, <1>3, <2>1, Zenon DEF NodeAt
<1>6. CASE pos = WordsUpTo(d, k) /\ d[k + 1].is = "nop"
  <2>1. k + 1 \in 1 .. Len(d) /\ (k + 1) - 1 = k /\ Within(d, k) \in Nat \ {0}
    BY <1>1, NextItem
  <2>2. /\ WordsUpTo(d, k + 1) = WordsUpTo(d, (k + 1) - 1) + 1
        /\ LineOf(d, k + 1) = <<>> /\ Within(d, k + 1) = Within(d, (k + 1) - 1)
    BY <1>6, <2>1, NopIs, Zenon
  <2>3. TreeLines(d)[k + 1] = TreeLines(d)[k]
    <3>1. TreeLines(d)[k + 1] = TreeLines(d)[(k + 1) - 1] \o <<>>
      BY <2>1, <2>2, LinesOfTree, Zenon
    <3>2. TreeLines(d)[k] \in Seq(AnyLine)
      <4>1. k \in 0 .. Len(d)
        BY <1>1, <2>1, NextItem, TreesAre
      <4>. QED  BY <4>1, LinesOfTree, Zenon
    <3>3. TreeLines(d)[k] \o <<>> = TreeLines(d)[k]
      BY <3>2, ConcatEmptySeq, Zenon
    <3>. QED  BY <2>1, <3>1, <3>3, Zenon
  <2>. HIDE DEF d, pos
  <2>4. WordsUpTo(d, k + 1) = pos + 1 /\ Within(d, k + 1) = Within(d, k) /\ Within(d, k + 1) # 0
    <3>1. Within(d, k) # 0
      BY <2>1
    <3>. QED  BY <1>6, <2>1, <2>2, <3>1, Zenon
  <2>5. /\ Nested(depth_at') /\ Len(depth_at') = Within(d, k + 1) /\ Pos(depth_at') = WordsUpTo(d, k + 1)
        /\ tree_lines' = TreeLines(d)[k + 1]
    BY <1>1, <1>2, <1>3, <2>3, <2>4, Zenon
  <2>6. NodeAt(d, depth_at', tree_lines', k + 1)
    BY <1>1, <2>4, <2>5, ItemRead, Zenon DEF d
  <2>. QED  BY <2>6, Zenon DEF d
<1>. QED
  BY <1>4, <1>5, <1>6

\* The end of a node leads back into the one around it, or behind the tree.
LEMMA EndNodeReads ==
  ASSUME devices \in Devices, structs = Blob(devices), NEW k, NodeAt(devices, depth_at, tree_lines, k),
         EndNode
  PROVE  \/ reading' = reading /\ NodeAt(devices, depth_at', tree_lines', k + 1)
         \/ /\ reading' = "rest" /\ tree_lines' = TreeLines(devices)[Len(devices)]
            /\ rest_at' \in Nat /\ rest_at' + 1 = WordsUpTo(devices, Len(devices))
<1> DEFINE d == devices
           pos == Pos(depth_at)
           line == Line(Len(depth_at) - 1, <<>>, <<>>, 0)
           outer == Front(depth_at)
           to == [outer EXCEPT ![Len(outer)].i = @ + Top(depth_at).i + 1 + 1]
<1>1. /\ k \in 1 .. Len(d) - 1 /\ Nested(depth_at) /\ Len(depth_at) = Within(d, k)
      /\ tree_lines = TreeLines(d)[k]
  BY Zenon DEF NodeAt
<1>2. Token = FDT_END_NODE /\ tree_lines' = Append(tree_lines, line)
  BY Zenon DEF EndNode, Puts
<1>3. k + 1 \in 1 .. Len(d) /\ pos \in Nat /\ pos = WordsUpTo(d, k) /\ d[k + 1].is = "end"
  <2>1. Token \in {FDT_BEGIN_NODE, FDT_PROP, FDT_END_NODE}
    BY <1>2, Zenon
  <2>. QED  BY <1>2, <2>1, NextToken, Zenon
<1>4. /\ (k + 1) - 1 = k /\ Within(d, k) \in Nat \ {0}
      /\ Within(d, k + 1) = 0 <=> k + 1 = Len(d)
  BY <1>1, NextItem
<1>5. /\ WordsUpTo(d, k + 1) = pos + 1 /\ LineOf(d, k + 1) = <<line>>
      /\ Within(d, k + 1) = Len(depth_at) - 1
  <2>1. /\ WordsUpTo(d, k + 1) = WordsUpTo(d, (k + 1) - 1) + 1
        /\ LineOf(d, k + 1) = <<Line(Within(d, (k + 1) - 1) - 1, <<>>, <<>>, 0)>>
        /\ Within(d, k + 1) = Within(d, (k + 1) - 1) - 1
    BY <1>3, EndIs, Zenon
  <2>2. WordsUpTo(d, (k + 1) - 1) = pos /\ Within(d, (k + 1) - 1) = Len(depth_at)
    BY <1>1, <1>3, <1>4, Zenon
  <2>. HIDE DEF pos, d
  <2>. QED  BY <2>1, <2>2, Zenon
<1>6. tree_lines' = TreeLines(d)[k + 1]
  <2>. HIDE DEF line
  <2>1. TreeLines(d)[k + 1] = Append(TreeLines(d)[(k + 1) - 1], line)
    BY <1>3, <1>5, LineGoesOn, Zenon
  <2>. QED  BY <1>1, <1>2, <1>4, <2>1, Zenon
<1>7. CASE Len(depth_at) = 1
  <2>1. k + 1 = Len(d)
    BY <1>4, <1>5, <1>7
  <2>2. outer = <<>>
    BY <1>7, SubSeqEmpty DEF Front
  <2>3. reading' = "rest" /\ rest_at' = Node.i
    BY <2>2, Zenon DEF EndNode
  <2>4. Node.base = 0 /\ Node.i \in Nat /\ pos = Node.base + Node.i
    BY <1>1, <1>7, TopIs DEF Node, Top, Pos, Nested
  <2>5. rest_at' \in Nat /\ rest_at' + 1 = WordsUpTo(d, k + 1)
    BY <1>5, <2>3, <2>4
  <2>. HIDE DEF d
  <2>6. tree_lines' = TreeLines(d)[Len(d)] /\ rest_at' + 1 = WordsUpTo(d, Len(d))
    BY <1>6, <2>1, <2>5, Zenon
  <2>. QED  BY <2>3, <2>5, <2>6, Zenon DEF d
<1>8. CASE Len(depth_at) # 1
  <2>1. outer # <<>> /\ Nested(to) /\ Len(to) = Len(depth_at) - 1 /\ Pos(to) = pos + 1
    BY <1>1, <1>8, PopNests
  <2>2. reading' = reading /\ depth_at' = to
    <3>1. Top(depth_at) = Node
      BY DEF Top, Node
    <3>2. /\ reading' = reading
          /\ depth_at' = [Front(depth_at) EXCEPT ![Len(Front(depth_at))].i = @ + Node.i + 1 + 1]
      BY <2>1, Zenon DEF EndNode
    <3>. QED  BY <3>1, <3>2, Zenon
  <2>3. Within(d, k + 1) # 0
    BY <1>1, <1>4, <1>5, <1>8
  <2>. HIDE DEF to, pos, d
  <2>4. /\ Nested(depth_at') /\ Len(depth_at') = Within(d, k + 1) /\ Pos(depth_at') = WordsUpTo(d, k + 1)
    BY <1>5, <2>1, <2>2, Zenon
  <2>5. NodeAt(d, depth_at', tree_lines', k + 1)
    BY <1>1, <1>6, <2>3, <2>4, ItemRead, Zenon DEF d
  <2>. QED  BY <2>2, <2>5, Zenon DEF d
<1>. QED
  BY <1>7, <1>8, Zenon

(***************************************************************************)
(* The reservations before the tree.                                       *)
(***************************************************************************)
Reservation == [address : Nat, size : Nat]
NoReservation == [address |-> 0, size |-> 0]

\* What is printed of the reservations, and what is left of them.
MapSplit(all, lines, map) ==
  /\ all \in Reservations /\ lines \in Seq(Reservation) /\ map \in Seq(Reservation)
  /\ lines \o map = all \o <<NoReservation>> /\ Len(lines) <= Len(all)

LEMMA SplitPlaces ==
  ASSUME NEW all, NEW lines, NEW map, MapSplit(all, lines, map)
  PROVE  /\ all \in Seq(Reservation) /\ Len(all) \in Nat /\ Len(lines) \in Nat
         /\ Len(map) = Len(all) + 1 - Len(lines) /\ Len(map) \in Nat \ {0}
         /\ \A i \in 1 .. Len(lines) : lines[i] = all[i]
         /\ Len(lines) < Len(all) => map[1] = all[Len(lines) + 1]
         /\ Len(lines) = Len(all) => map[1] = NoReservation
<1> DEFINE R == Reservation
           z == NoReservation
           s == lines \o map
           t == all \o <<z>>
           l == Len(lines)
           n == Len(all)
           m == Len(map)
<1>1. all \in Seq(R)
  BY DeviceTreeAssumption, Zenon DEF MapSplit, Reservation
<1>2. z \in R
  BY DEF NoReservation, Reservation
<1>3. lines \in Seq(R) /\ map \in Seq(R) /\ s = t /\ l <= n
  BY Zenon DEF MapSplit
<1>. HIDE DEF R, z
<1>4. l \in Nat /\ n \in Nat /\ m \in Nat
  BY <1>1, <1>3, LenProperties
<1>5. <<z>> \in Seq(R) /\ Len(<<z>>) = 1 /\ <<z>>[1] = z
  BY <1>2
<1>6. /\ Len(s) = l + m /\ \A i \in 1 .. l : s[i] = lines[i]
      /\ \A i \in 1 .. m : s[l + i] = map[i]
  BY <1>3, JoinBegins DEF Begins
<1>7. /\ Len(t) = n + Len(<<z>>) /\ \A i \in 1 .. n : t[i] = all[i]
      /\ \A i \in 1 .. Len(<<z>>) : t[n + i] = <<z>>[i]
  BY <1>1, <1>5, JoinBegins DEF Begins
<1>. HIDE DEF s, t, l, n, m
<1>8. m = n + 1 - l /\ m \in Nat \ {0}
  BY <1>3, <1>4, <1>5, <1>6, <1>7
<1>9. \A i \in 1 .. l : lines[i] = all[i]
  <2>1. \A i \in 1 .. l : i \in 1 .. n
    BY <1>3, <1>4
  <2>. QED  BY <1>3, <1>6, <1>7, <2>1, Zenon
<1>10. s[l + 1] = map[1]
  <2>1. 1 \in 1 .. m
    BY <1>8
  <2>. QED  BY <1>6, <2>1, Zenon
<1>11. l < n => map[1] = all[l + 1]
  <2>1. l < n => l + 1 \in 1 .. n
    BY <1>4
  <2>. QED  BY <1>3, <1>7, <1>10, <2>1, Zenon
<1>12. l = n => map[1] = z
  <2>1. 1 \in 1 .. 1
    OBVIOUS
  <2>2. t[n + 1] = z
    BY <1>5, <1>7, <2>1, Zenon
  <2>. QED  BY <1>3, <1>10, <2>2, Zenon
<1>. QED  BY <1>1, <1>4, <1>8, <1>9, <1>11, <1>12, Zenon DEF R, z, l, n, m

LEMMA EntryRead ==
  ASSUME NEW all, NEW lines, NEW map, MapSplit(all, lines, map)
  PROVE  LET entry == Head(map)
         IN  IF entry.address # 0 \/ entry.size # 0
             THEN MapSplit(all, Append(lines, entry), Tail(map))
             ELSE lines = all
<1> DEFINE R == Reservation
           l == Len(lines)
           n == Len(all)
           m == Len(map)
           entry == Head(map)
           Some(e) == e.address # 0 \/ e.size # 0
<1>1. /\ all \in Seq(R) /\ n \in Nat /\ l \in Nat /\ m = n + 1 - l /\ m \in Nat \ {0}
      /\ \A i \in 1 .. l : lines[i] = all[i]
      /\ l < n => map[1] = all[l + 1]
      /\ l = n => map[1] = NoReservation
  BY SplitPlaces
<1>2. /\ all \in Reservations /\ lines \in Seq(R) /\ map \in Seq(R)
      /\ lines \o map = all \o <<NoReservation>> /\ l <= n
  BY Zenon DEF MapSplit
<1>3. ~Some(NoReservation)
  BY DEF NoReservation
<1>4. \A i \in 1 .. n : Some(all[i])
  <2>1. DOMAIN all = 1 .. n
    BY <1>1, LenProperties
  <2>. QED  BY <1>2, <2>1, DeviceTreeAssumption, Zenon
<1>. HIDE DEF R, Some
<1>5. map # <<>>
  <2>1. Len(<<>>) = 0 /\ Len(map) # 0
    BY <1>1
  <2>. QED  BY <2>1, Zenon
<1>6. /\ entry \in R /\ Tail(map) \in Seq(R) /\ entry = map[1]
      /\ <<entry>> \o Tail(map) = map
  <2>1. entry \in R /\ Tail(map) \in Seq(R) /\ entry = map[1] /\ Len(Tail(map)) = m - 1
        /\ \A i \in 1 .. Len(Tail(map)) : Tail(map)[i] = map[i + 1]
    BY <1>2, <1>5, HeadTailProperties
  <2> DEFINE rest == Tail(map)
             s == <<entry>> \o rest
  <2>. HIDE DEF rest, entry
  <2>2. s \in Seq(R) /\ Len(s) = 1 + Len(rest) /\ s[1] = entry /\ \A j \in 1 .. Len(rest) : s[1 + j] = rest[j]
    <3>1. rest \in Seq(R)
      BY <2>1, Zenon DEF rest
    <3>. QED  BY <2>1, <3>1, PutBefore
  <2>. HIDE DEF s
  <2>3. Len(s) = m /\ Len(rest) = m - 1
    BY <1>1, <2>1, <2>2 DEF rest
  <2>4. ASSUME NEW i \in 1 .. m PROVE s[i] = map[i]
    <3>1. CASE i = 1
      BY <2>1, <2>2, <3>1
    <3>2. CASE i # 1
      <4>1. i - 1 \in 1 .. Len(rest) /\ 1 + (i - 1) = i /\ (i - 1) + 1 = i
        BY <1>1, <2>3, <3>2
      <4>. QED  BY <2>1, <2>2, <4>1 DEF rest
    <3>. QED  BY <3>1, <3>2
  <2>5. s = map
    BY <1>2, <2>2, <2>3, <2>4, SeqEqual
  <2>. QED  BY <2>1, <2>5, Zenon DEF s, rest
<1>. HIDE DEF entry
<1>7. CASE Some(entry)
  <2>1. l < n
    <3>1. l # n
      BY <1>1, <1>3, <1>6, <1>7, Zenon
    <3>. HIDE DEF l, n
    <3>. QED  BY <1>1, <1>2, <3>1
  <2>2. Append(lines, entry) \in Seq(R) /\ Len(Append(lines, entry)) = l + 1 /\ Append(lines, entry) = lines \o <<entry>>
    BY <1>2, <1>6
  <2>3. (lines \o <<entry>>) \o Tail(map) = lines \o (<<entry>> \o Tail(map))
    <3>1. <<entry>> \in Seq(R)
      BY <1>6
    <3>. QED  BY <1>2, <1>6, <3>1, ConcatAssociative
  <2>4. Append(lines, entry) \o Tail(map) = all \o <<NoReservation>>
    BY <1>2, <1>6, <2>2, <2>3, Zenon
  <2>5. Len(Append(lines, entry)) <= Len(all)
    BY <1>1, <2>1, <2>2
  <2>6. MapSplit(all, Append(lines, entry), Tail(map))
    BY <1>2, <1>6, <2>2, <2>4, <2>5, Zenon DEF MapSplit, R
  <2>. QED  BY <1>7, <2>6, Zenon DEF entry, Some
<1>8. CASE ~Some(entry)
  <2>1. ~(l < n)
    <3>1. l < n => l + 1 \in 1 .. n
      BY <1>1
    <3>. QED  BY <1>1, <1>4, <1>6, <1>8, <3>1, Zenon
  <2>2. l = n
    <3>. HIDE DEF l, n
    <3>. QED  BY <1>1, <1>2, <2>1
  <2>3. lines = all
    BY <1>1, <1>2, <2>2, SeqEqual
  <2>. QED  BY <1>8, <2>3, Zenon DEF entry, Some
<1>. QED
  BY <1>7, <1>8

(***************************************************************************)
(* The invariant.                                                          *)
(***************************************************************************)
TreeInv ==
  /\ devices \in Devices /\ structs = Blob(devices) /\ MapSplit(reservations, map_lines, mem_map)
  /\ reading \in {"reserved", "node", "rest", "read"}
  /\ reading = "reserved" => tree_lines = <<>> /\ depth_at = <<>>
  /\ reading # "reserved" => map_lines = reservations
  /\ reading = "node" => \E k : NodeAt(devices, depth_at, tree_lines, k)
  /\ reading \in {"rest", "read"} => tree_lines = TreeLines(devices)[Len(devices)]
  /\ reading = "rest" => /\ rest_at \in Nat
                         /\ rest_at + 1 - WordsUpTo(devices, Len(devices)) \in {0, 1}

LEMMA TreeStarts ==
  ASSUME TreeInit
  PROVE  TreeInv
<1>1. /\ devices \in Devices /\ reservations \in Reservations /\ reading = "reserved"
      /\ depth_at = <<>> /\ tree_lines = <<>> /\ map_lines = <<>>
      /\ mem_map = reservations \o <<NoReservation>> /\ structs = Blob(devices)
  BY Zenon DEF TreeInit, NoReservation, Blob, ItemsWords
<1>2. MapSplit(reservations, map_lines, mem_map)
  <2> DEFINE R == Reservation
             z == NoReservation
  <2>1. reservations \in Seq(R)
    BY <1>1, DeviceTreeAssumption, Zenon DEF Reservation
  <2>2. z \in R
    BY DEF NoReservation, Reservation
  <2>. HIDE DEF R, z
  <2>3. <<z>> \in Seq(R) /\ <<>> \in Seq(R) /\ Len(<<>>) = 0 /\ Len(reservations) \in Nat
    BY <2>1, <2>2, LenProperties
  <2>4. reservations \o <<z>> \in Seq(R)
    BY <2>1, <2>3, JoinBegins, Zenon
  <2>5. <<>> \o (reservations \o <<z>>) = reservations \o <<z>>
    BY <2>4, ConcatEmptySeq
  <2>6. Len(<<>>) <= Len(reservations)
    BY <2>3
  <2>. QED  BY <1>1, <2>3, <2>4, <2>5, <2>6, Zenon DEF MapSplit, R, z
<1>3. "reserved" # "node" /\ "reserved" # "rest" /\ "reserved" # "read"
  OBVIOUS
<1>. QED  BY <1>1, <1>2, <1>3, Zenon DEF TreeInv

LEMMA TreeGoesOn ==
  ASSUME TreeInv, [TreeNext]_tree_vars
  PROVE  TreeInv'
<1> DEFINE d == devices
           W == WordsUpTo(d, Len(d))
<1>1. /\ d \in Devices /\ structs = Blob(d) /\ MapSplit(reservations, map_lines, mem_map)
      /\ reading = "reserved" => tree_lines = <<>> /\ depth_at = <<>>
      /\ reading # "reserved" => map_lines = reservations
      /\ reading = "node" => \E k : NodeAt(devices, depth_at, tree_lines, k)
      /\ reading \in {"rest", "read"} => tree_lines = TreeLines(devices)[Len(devices)]
      /\ reading = "rest" => rest_at \in Nat /\ rest_at + 1 - W \in {0, 1}
  BY Zenon DEF TreeInv
<1>2. /\ "reserved" # "node" /\ "reserved" # "rest" /\ "reserved" # "read"
      /\ "node" # "rest" /\ "node" # "read" /\ "rest" # "read"
  OBVIOUS
<1>3. CASE Reserved
  <2> DEFINE entry == Head(mem_map)
             Some == entry.address # 0 \/ entry.size # 0
  <2>1. /\ reading = "reserved" /\ devices' = devices /\ reservations' = reservations /\ structs' = structs
        /\ Some => /\ map_lines' = Append(map_lines, entry) /\ mem_map' = Tail(mem_map)
                   /\ reading' = reading /\ depth_at' = depth_at /\ tree_lines' = tree_lines
        /\ ~Some => /\ Open(0) /\ reading' = "node" /\ mem_map' = mem_map /\ map_lines' = map_lines
    BY <1>3, Zenon DEF Reserved, TreeStep
  <2>2. /\ Some => MapSplit(reservations, Append(map_lines, entry), Tail(mem_map))
        /\ ~Some => map_lines = reservations
    BY <1>1, EntryRead, Zenon
  <2>. HIDE DEF Some, entry
  <2>3. CASE Some
    <3>1. reading' = "reserved" /\ depth_at' = <<>> /\ tree_lines' = <<>>
          /\ MapSplit(reservations', map_lines', mem_map')
      BY <1>1, <2>1, <2>2, <2>3, Zenon
    <3>. QED  BY <1>1, <1>2, <2>1, <3>1, Zenon DEF TreeInv
  <2>4. CASE ~Some
    <3>1. NodeAt(devices, depth_at', tree_lines', 1)
      BY <1>1, <2>1, <2>4, RootOpens, Zenon
    <3>2. /\ reading' = "node" /\ map_lines' = reservations' /\ MapSplit(reservations', map_lines', mem_map')
          /\ \E k : NodeAt(devices', depth_at', tree_lines', k)
      BY <1>1, <2>1, <2>2, <2>4, <3>1, Zenon
    <3>. QED  BY <1>1, <1>2, <2>1, <3>2, Zenon DEF TreeInv
  <2>. QED  BY <2>3, <2>4
<1>4. ASSUME NodeStep, reading' = reading, \E m : NodeAt(devices, depth_at', tree_lines', m)
      PROVE  TreeInv'
  <2>1. /\ reading = "node" /\ devices' = devices /\ reservations' = reservations /\ structs' = structs
        /\ mem_map' = mem_map /\ map_lines' = map_lines
    BY <1>4, Zenon DEF NodeStep, TreeStep
  <2>2. /\ reading' = "node" /\ map_lines' = reservations' /\ MapSplit(reservations', map_lines', mem_map')
        /\ \E m : NodeAt(devices', depth_at', tree_lines', m)
    BY <1>1, <1>2, <1>4, <2>1, Zenon
  <2>. QED  BY <1>1, <1>2, <2>1, <2>2, Zenon DEF TreeInv
<1>5. ASSUME NodeStep PROVE \E k : NodeAt(devices, depth_at, tree_lines, k)
  BY <1>1, <1>5, Zenon DEF NodeStep, TreeStep
<1>6. CASE BeginNode
  <2>1. NodeStep /\ reading' = reading
    BY <1>6, Zenon DEF BeginNode
  <2>2. PICK k : NodeAt(devices, depth_at, tree_lines, k)
    BY <1>5, <2>1, Zenon
  <2>3. NodeAt(devices, depth_at', tree_lines', k + 1)
    BY <1>1, <1>6, <2>2, BeginNodeReads, Zenon
  <2>. QED  BY <1>4, <2>1, <2>3, Zenon
<1>7. CASE Property
  <2>1. NodeStep /\ reading' = reading
    BY <1>7, Zenon DEF Property
  <2>2. PICK k : NodeAt(devices, depth_at, tree_lines, k)
    BY <1>5, <2>1, Zenon
  <2>3. NodeAt(devices, depth_at', tree_lines', k + 1)
    BY <1>1, <1>7, <2>2, PropertyReads, Zenon
  <2>. QED  BY <1>4, <2>1, <2>3, Zenon
<1>8. CASE UnknownWord
  <2>1. NodeStep /\ reading' = reading
    BY <1>8, Zenon DEF UnknownWord
  <2>2. PICK k : NodeAt(devices, depth_at, tree_lines, k)
    BY <1>5, <2>1, Zenon
  <2>3. \E m : NodeAt(devices, depth_at', tree_lines', m)
    BY <1>1, <1>8, <2>2, UnknownWordReads, Zenon
  <2>. QED  BY <1>4, <2>1, <2>3, Zenon
<1>9. CASE EndNode
  <2>1. NodeStep
    BY <1>9, Zenon DEF EndNode
  <2>2. PICK k : NodeAt(devices, depth_at, tree_lines, k)
    BY <1>5, <2>1, Zenon
  <2>3. \/ reading' = reading /\ NodeAt(devices, depth_at', tree_lines', k + 1)
        \/ /\ reading' = "rest" /\ tree_lines' = TreeLines(devices)[Len(devices)]
           /\ rest_at' \in Nat /\ rest_at' + 1 = WordsUpTo(devices, Len(devices))
    BY <1>1, <1>9, <2>2, EndNodeReads, Zenon
  <2>4. CASE reading' = reading /\ NodeAt(devices, depth_at', tree_lines', k + 1)
    BY <1>4, <2>1, <2>4, Zenon
  <2>5. CASE /\ reading' = "rest" /\ tree_lines' = TreeLines(devices)[Len(devices)]
             /\ rest_at' \in Nat /\ rest_at' + 1 = WordsUpTo(devices, Len(devices))
    <3>1. /\ reading = "node" /\ devices' = devices /\ reservations' = reservations /\ structs' = structs
          /\ mem_map' = mem_map /\ map_lines' = map_lines
      BY <2>1, Zenon DEF NodeStep, TreeStep
    <3>2. rest_at' + 1 - W \in {0, 1}
      BY <2>5
    <3>3. /\ map_lines' = reservations' /\ MapSplit(reservations', map_lines', mem_map')
          /\ tree_lines' = TreeLines(devices')[Len(devices')]
          /\ rest_at' + 1 - WordsUpTo(devices', Len(devices')) \in {0, 1}
      BY <1>1, <1>2, <2>5, <3>1, <3>2, Zenon
    <3>. QED  BY <1>1, <1>2, <2>5, <3>1, <3>3, Zenon DEF TreeInv
  <2>. QED  BY <2>3, <2>4, <2>5
<1>10. CASE Trailer
  <2>1. /\ reading = "rest" /\ devices' = devices /\ reservations' = reservations /\ structs' = structs
        /\ mem_map' = mem_map /\ map_lines' = map_lines /\ rest_at' = rest_at + 1
        /\ reading' = IF WordAt(0, rest_at + 1) = FDT_END THEN "read" ELSE "rest"
        /\ WordAt(0, rest_at + 1) \in {FDT_NOP, FDT_END} => tree_lines' = tree_lines
    BY <1>10, Zenon DEF Trailer, TreeStep
  <2>2. /\ tree_lines = TreeLines(devices)[Len(devices)] /\ map_lines = reservations
        /\ rest_at \in Nat /\ rest_at + 1 - W \in {0, 1}
    BY <1>1, <1>2, <2>1, Zenon
  <2>3. Blob(d)[W + 1] = FDT_NOP /\ Blob(d)[W + 2] = FDT_END /\ W \in Nat
    <3>1. Len(d) \in 0 .. Len(d)
      BY <1>1, TreesAre
    <3>. QED  BY <1>1, <3>1, ItemInBlob, Zenon
  <2>. HIDE DEF W
  <2>4. WordAt(0, rest_at + 1) = structs[rest_at + 2]
    <3>1. 0 + (rest_at + 1) + 1 = rest_at + 2
      BY <2>2
    <3>. QED  BY <3>1, Zenon DEF WordAt
  <2>5. rest_at + 2 = W + 1 \/ rest_at + 2 = W + 2
    BY <2>2, <2>3
  <2>6. \/ rest_at + 2 = W + 1 /\ WordAt(0, rest_at + 1) = FDT_NOP
        \/ rest_at + 2 = W + 2 /\ WordAt(0, rest_at + 1) = FDT_END
    BY <1>1, <2>3, <2>4, <2>5, Zenon
  <2>7. FDT_NOP # FDT_END
    BY DEF FDT_NOP, FDT_END
  <2>8. /\ tree_lines' = TreeLines(devices')[Len(devices')] /\ map_lines' = reservations'
        /\ MapSplit(reservations', map_lines', mem_map')
    BY <1>1, <2>1, <2>2, <2>6, Zenon
  <2>9. reading' = "read" \/ (reading' = "rest" /\ rest_at + 2 = W + 1)
    BY <2>1, <2>6, <2>7, Zenon
  <2>10. CASE reading' = "read"
    BY <1>1, <1>2, <2>1, <2>8, <2>10, Zenon DEF TreeInv
  <2>11. CASE reading' = "rest" /\ rest_at + 2 = W + 1
    <3>1. rest_at' \in Nat /\ rest_at' + 1 - W \in {0, 1}
      BY <2>1, <2>2, <2>3, <2>11
    <3>2. rest_at' + 1 - WordsUpTo(devices', Len(devices')) \in {0, 1}
      BY <2>1, <3>1, Zenon DEF W
    <3>. QED  BY <1>1, <1>2, <2>1, <2>8, <2>11, <3>1, <3>2, Zenon DEF TreeInv
  <2>. QED  BY <2>9, <2>10, <2>11
<1>11. CASE UNCHANGED tree_vars
  BY <1>11 DEF TreeInv, tree_vars, NodeAt
<1>. QED
  BY <1>3, <1>6, <1>7, <1>8, <1>9, <1>10, <1>11, Zenon DEF TreeNext

\* What begins a sequence is a prefix of it.
LEMMA BeginsIsPrefix ==
  ASSUME NEW A, NEW s \in Seq(A), NEW t \in Seq(A), Begins(s, t)
  PROVE  IsPrefix(s, t)
<1> DEFINE m == Len(s)
<1>1. /\ m \in Nat /\ m <= Len(t) /\ Len(t) \in Nat
      /\ \A i \in 1 .. m : t[i] = s[i] /\ s[i] \in A
  BY LenProperties DEF Begins
<1>. HIDE DEF m
<1>2. 1 \in Int /\ m \in Int /\ (\A i \in 1 .. m : s[i] \in A) /\ (\A i \in 1 .. m : t[i] \in A)
      /\ m - 1 + 1 = m /\ \A i \in 1 .. m : 1 + i - 1 = i
  BY <1>1
<1>3. /\ SubSeq(s, 1, m) \in Seq(A) /\ Len(SubSeq(s, 1, m)) = IF 1 <= m THEN m - 1 + 1 ELSE 0
      /\ \A i \in 1 .. m - 1 + 1 : SubSeq(s, 1, m)[i] = s[1 + i - 1]
  BY <1>2, SubSeqProperties
<1>4. /\ SubSeq(t, 1, m) \in Seq(A) /\ Len(SubSeq(t, 1, m)) = IF 1 <= m THEN m - 1 + 1 ELSE 0
      /\ \A i \in 1 .. m - 1 + 1 : SubSeq(t, 1, m)[i] = t[1 + i - 1]
  BY <1>2, SubSeqProperties
<1>5. (IF 1 <= m THEN m - 1 + 1 ELSE 0) = m
  BY <1>1
<1>6. SubSeq(s, 1, m) = SubSeq(t, 1, m)
  <2>1. Len(SubSeq(s, 1, m)) = m /\ Len(SubSeq(t, 1, m)) = m
    BY <1>3, <1>4, <1>5
  <2>2. \A i \in 1 .. m : SubSeq(s, 1, m)[i] = SubSeq(t, 1, m)[i]
    BY <1>1, <1>2, <1>3, <1>4, Zenon
  <2>. QED  BY <1>3, <1>4, <2>1, <2>2, SeqEqual
<1>. QED  BY <1>1, <1>6 DEF IsPrefix, m

LEMMA TreeInvTells ==
  ASSUME TreeInv
  PROVE  TreeReadBack
<1> DEFINE d == devices
           nodes == FlattenSeq(ItemsLines(d))
<1>1. /\ d \in Devices /\ MapSplit(reservations, map_lines, mem_map)
      /\ reading \in {"reserved", "node", "rest", "read"}
      /\ reading = "reserved" => tree_lines = <<>>
      /\ reading # "reserved" => map_lines = reservations
      /\ reading = "node" => \E k : NodeAt(devices, depth_at, tree_lines, k)
      /\ reading \in {"rest", "read"} => tree_lines = TreeLines(devices)[Len(devices)]
  BY Zenon DEF TreeInv
<1>2. nodes = FlattenSeq([k \in DOMAIN devices |-> LineOf(devices, k)])
  BY Zenon DEF ItemsLines
<1>3. IsPrefix(map_lines, reservations)
  <2>1. /\ reservations \in Seq(Reservation) /\ map_lines \in Seq(Reservation)
        /\ Len(map_lines) <= Len(reservations)
        /\ \A i \in 1 .. Len(map_lines) : map_lines[i] = reservations[i]
    BY <1>1, SplitPlaces, Zenon DEF MapSplit
  <2>2. Begins(map_lines, reservations)
    BY <2>1, Zenon DEF Begins
  <2>. QED  BY <2>1, <2>2, BeginsIsPrefix, Zenon
<1>4. Len(d) \in Nat \ {0} /\ Len(d) \in 1 .. Len(d) /\ Len(d) \in 0 .. Len(d)
  BY <1>1, TreesAre
<1>5. /\ nodes = TreeLines(d)[Len(d)] /\ nodes \in Seq(AnyLine)
      /\ \A k \in 0 .. Len(d) : TreeLines(d)[k] \in Seq(AnyLine)
      /\ \A k \in 1 .. Len(d) : Begins(TreeLines(d)[k], nodes)
  BY <1>1, <1>4, LinesOfTree, Zenon
<1>6. \A k \in 1 .. Len(d) : IsPrefix(TreeLines(d)[k], nodes)
  <2>1. \A k \in 1 .. Len(d) : k \in 0 .. Len(d)
    BY <1>4
  <2>. QED  BY <1>5, <2>1, BeginsIsPrefix, Zenon
<1>7. IsPrefix(<<>>, nodes)
  <2> DEFINE A == AnyLine
  <2>. HIDE DEF A
  <2>1. nodes \in Seq(A) /\ <<>> \in Seq(A)
    BY <1>5, EmptySeq, Zenon DEF A
  <2>. HIDE DEF nodes
  <2>2. Begins(<<>>, nodes)
    BY <2>1 DEF Begins
  <2>. QED  BY <2>1, <2>2, BeginsIsPrefix, Zenon
<1>. HIDE DEF nodes
<1>8. IsPrefix(tree_lines, nodes)
  <2>1. CASE reading = "reserved"
    BY <1>1, <1>7, <2>1, Zenon
  <2>2. CASE reading = "node"
    <3>1. PICK k : NodeAt(devices, depth_at, tree_lines, k)
      BY <1>1, <2>2, Zenon
    <3>2. k \in 1 .. Len(d) - 1 /\ tree_lines = TreeLines(d)[k]
      BY <3>1, Zenon DEF NodeAt
    <3>3. k \in 1 .. Len(d)
      BY <1>4, <3>2
    <3>. QED  BY <1>6, <3>2, <3>3, Zenon
  <2>3. CASE reading \in {"rest", "read"}
    BY <1>1, <1>4, <1>6, <2>3, Zenon
  <2>. QED  BY <1>1, <2>1, <2>2, <2>3, Zenon
<1>9. tree_lines # <<>> => map_lines = reservations
  BY <1>1, Zenon
<1>10. reading = "read" => tree_lines = nodes
  BY <1>1, <1>5, Zenon
<1>. QED  BY <1>2, <1>3, <1>8, <1>9, <1>10, Zenon DEF TreeReadBack

\* Every tree is printed as it is in its blob, whatever its depth, its names and
\* its values, behind all the reservations; a value that is not taken for numbers
\* but for its last byte (device-tree-parser.cpp:105, 123, 174).
THEOREM TreeIsReadBack == TreeSpec => []TreeReadBack
<1>1. TreeInit => TreeInv
  BY TreeStarts
<1>2. TreeInv /\ [TreeNext]_tree_vars => TreeInv'
  BY TreeGoesOn
<1>3. TreeInv => TreeReadBack
  BY TreeInvTells
<1>. QED
  BY <1>1, <1>2, <1>3, PTL DEF TreeSpec
=============================================================================
