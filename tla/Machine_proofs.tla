--------------------------- MODULE Machine_proofs ---------------------------
(***************************************************************************)
(* Proofs about the parts of the machine.  The interrupts: each end of     *)
(* interrupt is due and none is missing, the newest byte is kept, the      *)
(* mouse and its driver stay in step, no delay is short, the pointer lies  *)
(* over the text, and the mouse has started when initialize_mouse returns: *)
(* for every range of the tick, every set of packets and delays, and every *)
(* budget.                                                                 *)
(*                                                                         *)
(* The two locks: the critical section excludes, for every number of       *)
(* threads, and the ticket lock is a fair lock, for every finite set of    *)
(* threads and every number of tickets that is enough for them.            *)
(***************************************************************************)
EXTENDS Interrupts, MouseStart, CriticalSection, TicketLock, FiniteSetTheorems, SequenceTheorems,
        WellFoundedInduction, TLAPS

\* The lines in service while the handler of a line that asked is running.
Serving(irq) == IF irq \in Slave THEN {Cascade, irq} ELSE {irq}

\* A handler runs for a line that asked, or for one of the spurious two.
ServiceInv ==
  /\ requested \subseteq 0 .. 15
  /\ \/ running = 0 /\ in_service = {}
     \/ \E irq \in 0 .. 15 : running = Vector(irq) /\ in_service = Serving(irq)
     \/ running = Vector(7) /\ in_service = {}
     \/ running = Vector(15) /\ in_service = {Cascade}

\* Every non-empty set of natural numbers has a smallest element.
LEMMA Smallest ==
  ASSUME NEW S, S \subseteq Nat, S # {}
  PROVE  \E x \in S : \A y \in S : x <= y
<1>1. PICK x \in S : \A y \in S : <<y, x>> \notin OpToRel(<, Nat)
  BY NatLessThanWellFounded, WFMin
<1>2. ASSUME NEW y \in S
      PROVE  <<y, x>> \in Nat \X Nat /\ <<y, x>>[1] = y /\ <<y, x>>[2] = x
  BY SMT
<1>3. ASSUME NEW y \in S, y < x
      PROVE  <<y, x>> \in OpToRel(<, Nat)
  BY <1>2, <1>3, Zenon DEF OpToRel
<1>4. \A y \in S : ~(y < x)
  BY <1>1, <1>3, Zenon
<1> QED
  BY <1>4

\* The controller has a first line among those that ask.
LEMMA FirstIsIn ==
  ASSUME NEW lines, lines \subseteq 0 .. 15, lines # {}
  PROVE  First(lines) \in lines
<1> DEFINE ranks == {Rank(l) : l \in lines}
<1>0. \A l \in 0 .. 15 : Rank(l) \in Nat
  BY SMT DEF Rank, Slave, Cascade
<1>1. ranks \subseteq Nat /\ ranks # {}
  BY <1>0
<1>2. PICK r \in ranks : \A q \in ranks : r <= q
  BY <1>1, Smallest
<1>3. PICK l \in lines : Rank(l) = r
  BY <1>2
<1>4. \A k \in lines : Rank(l) <= Rank(k)
  BY <1>2, <1>3
<1> QED
  BY <1>3, <1>4 DEF First

LEMMA EoiOfOne == ASSUME NEW irq \in 0 .. 15 PROVE Eoi({irq}) = {}
<1>1. First({irq}) = irq
  BY FirstIsIn
<1> QED
  BY <1>1 DEF Eoi

LEMMA EoiOfNone == Eoi({}) = {}
BY DEF Eoi

\* Each end of interrupt finds a line in service and leaves none.
LEMMA EndsService ==
  ASSUME ServiceInv, running # 0
  PROVE  /\ Ended(running - 32) = {}
         /\ \A c \in Ends(running - 32) : InService(c) # {}
<1> DEFINE irq_now == running - 32
<1>1. /\ Controllers = {"master", "slave"}
      /\ InService("master") = in_service \ Slave
      /\ InService("slave") = in_service \cap Slave
  BY Zenon DEF Controllers, InService
<1>2. /\ \A irq \in 0 .. 15 : Vector(irq) - 32 = irq
      /\ Cascade \in 0 .. 15 \ Slave /\ 15 \in Slave /\ 7 \notin Slave
  BY DEF Vector, Cascade, Slave
<1>3. /\ \A irq \in 0 .. 15 \cap Slave : Serving(irq) \ Slave = {Cascade} /\ Serving(irq) \cap Slave = {irq}
      /\ \A irq \in 0 .. 15 \ Slave : Serving(irq) \ Slave = {irq} /\ Serving(irq) \cap Slave = {}
  BY <1>2, Zenon DEF Serving
<1>4. \* Where each controller that is sent an end has one line in service, and the other none.
      ASSUME \A c \in Controllers : IF c \in Ends(irq_now) THEN \E irq \in 0 .. 15 : InService(c) = {irq}
                                                        ELSE InService(c) = {},
             Ends(irq_now) \subseteq Controllers
      PROVE  Ended(irq_now) = {} /\ \A c \in Ends(irq_now) : InService(c) # {}
  <2>1. ASSUME NEW c \in Controllers
        PROVE  (IF c \in Ends(irq_now) THEN Eoi(InService(c)) ELSE InService(c)) = {}
    BY <1>4, EoiOfOne, Zenon
  <2>2. Ended(irq_now) = {}
    BY <2>1, Zenon DEF Ended
  <2>. QED  BY <1>4, <2>2, Zenon
<1>5. ASSUME NEW irq \in 0 .. 15, running = Vector(irq), in_service = Serving(irq)
      PROVE  Ended(irq_now) = {} /\ \A c \in Ends(irq_now) : InService(c) # {}
  <2>1. irq_now = irq
    BY <1>2, <1>5, Zenon
  <2>2. Genuine(irq)
    BY <1>5, Zenon DEF Genuine, Serving
  <2>3. CASE irq \in Slave
    <3>1. Ends(irq_now) = {"master", "slave"}
      BY <2>1, <2>2, <2>3, Zenon DEF Ends
    <3>2. InService("master") = {Cascade} /\ InService("slave") = {irq}
      BY <1>1, <1>3, <1>5, <2>3, Zenon
    <3>. QED  BY <1>1, <1>2, <1>4, <3>1, <3>2, Zenon
  <2>4. CASE irq \notin Slave
    <3>1. Ends(irq_now) = {"master"}
      BY <2>1, <2>2, <2>4, Zenon DEF Ends
    <3>2. InService("master") = {irq} /\ InService("slave") = {}
      BY <1>1, <1>3, <1>5, <2>4, Zenon
    <3>3. "slave" \notin Ends(irq_now)
      BY <3>1
    <3>. QED  BY <1>1, <1>4, <3>1, <3>2, <3>3, Zenon
  <2>. QED  BY <2>3, <2>4
<1>6. ASSUME running = Vector(7), in_service = {}
      PROVE  Ended(irq_now) = {} /\ \A c \in Ends(irq_now) : InService(c) # {}
  <2>1. irq_now = 7 /\ ~Genuine(7)
    BY <1>2, <1>6 DEF Genuine
  <2>2. Ends(irq_now) = {}
    BY <2>1, Zenon DEF Ends
  <2>3. InService("master") = {} /\ InService("slave") = {}
    BY <1>1, <1>6, Zenon
  <2>. QED  BY <1>1, <1>4, <2>2, <2>3, Zenon
<1>7. ASSUME running = Vector(15), in_service = {Cascade}
      PROVE  Ended(irq_now) = {} /\ \A c \in Ends(irq_now) : InService(c) # {}
  <2>1. irq_now = 15 /\ ~Genuine(15)
    BY <1>2, <1>7 DEF Genuine
  <2>2. Ends(irq_now) = {"master"}
    BY <2>1 DEF Ends
  <2>3. InService("master") = {Cascade} /\ InService("slave") = {}
    <3>1. {Cascade} \ Slave = {Cascade} /\ {Cascade} \cap Slave = {}
      BY <1>2
    <3>. QED  BY <1>1, <1>7, <3>1, Zenon
  <2>4. "slave" \notin Ends(irq_now)
    BY <2>2
  <2>. QED  BY <1>1, <1>2, <1>4, <2>2, <2>3, <2>4, Zenon
<1>. HIDE DEF irq_now
<1>8. \/ \E irq \in 0 .. 15 : running = Vector(irq) /\ in_service = Serving(irq)
      \/ running = Vector(7) /\ in_service = {}
      \/ running = Vector(15) /\ in_service = {Cascade}
  BY DEF ServiceInv
<1> QED
  BY <1>5, <1>6, <1>7, <1>8, Zenon DEF irq_now

LEMMA ServiceInit == ASSUME MachineInit PROVE ServiceInv
BY DEF MachineInit, ServiceInv

LEMMA ServiceNext == ASSUME ServiceInv, [MachineNext]_machine_vars PROVE ServiceInv'
<1>1. CASE UNCHANGED <<in_service, running>> /\ requested' \subseteq requested \cup 0 .. 15
  BY <1>1 DEF ServiceInv
<1>2. CASE Devices
  <2>1. \A p \in 1 .. 4 : Line(p) \in 0 .. 15
    BY DEF Line
  <2> QED
    BY <1>1, <1>2, <2>1 DEF Devices, PitTick, Key, MouseByte, SerialByte, UartAsk, Device
<1>3. CASE Accept
  <2> DEFINE irq == First(requested)
  <2>1. irq \in requested
    BY <1>3, FirstIsIn DEF Accept, ServiceInv
  <2>2. in_service = {}
    BY <1>3 DEF Accept, TakeRequest, ServiceInv, Vector
  <2>3. running' = Vector(irq) /\ in_service' = Serving(irq) /\ requested' \subseteq requested
    BY <1>3, <2>2 DEF Accept, TakeRequest, Serving
  <2> QED
    BY <2>1, <2>3 DEF ServiceInv
<1>4. CASE Spurious
  <2>1. in_service = {}
    BY <1>4 DEF Spurious, TakeRequest, ServiceInv, Vector
  <2> QED
    BY <1>4, <2>1 DEF Spurious, TakeRequest, ServiceInv
<1>5. CASE Handle
  BY <1>5, EndsService DEF Handle, ServiceInv
<1>6. CASE GetChar
  BY <1>1, <1>6 DEF GetChar, WaitForKey, Choose, SerialChar, ReadKey, Step
<1>7. CASE TimerCalls
  BY <1>1, <1>7 DEF TimerCalls, Delay, CheckOverflow, DelayLoop, Disable, Enable, Step
<1>8. CASE DrawTexts
  BY <1>1, <1>8 DEF DrawTexts, pic_vars
<1>9. CASE UNCHANGED machine_vars
  BY <1>1, <1>9 DEF machine_vars, pic_vars
<1> QED
  BY <1>2, <1>3, <1>4, <1>5, <1>6, <1>7, <1>8, <1>9 DEF MachineNext

\* Whatever interrupts come, spurious or not, a controller is sent an end of
\* interrupt where a line of it is in service, and none is left in service when
\* the handler is done (driver.cpp:301-356).
THEOREM ServiceEnds == MachineSpec => []EndsAreDue
<1>1. ASSUME ServiceInv PROVE EndsAreDue
  <2>1. running = 0 => in_service = {}
    BY <1>1 DEF ServiceInv, Vector
  <2>. QED  BY <1>1, <2>1, EndsService, Zenon DEF EndsAreDue
<1> QED
  BY <1>1, ServiceInit, ServiceNext, PTL DEF MachineSpec

-----------------------------------------------------------------------------
\* The byte last taken from a port is waiting, or was returned, or is about to
\* be (serial_16650.cpp:280).
THEOREM SerialKeepsNewest == MachineSpec => []NewestByteKept
<1>1. MachineInit => NewestByteKept
  BY DEF MachineInit, NewestByteKept
<1>2. ASSUME NewestByteKept, [MachineNext]_machine_vars
      PROVE  NewestByteKept'
  <2> USE DEF NewestByteKept
  <2>1. CASE UNCHANGED <<newest, serial_data_ch, serial_data_waiting, returned, stage>>
    BY <1>2, <2>1
  <2>2. CASE Devices
    BY <2>1, <2>2 DEF Devices, PitTick, Key, MouseByte, SerialByte, UartAsk, Device, serial_vars
  <2>3. CASE Accept \/ Spurious
    BY <2>1, <2>3 DEF Accept, Spurious, TakeRequest, serial_vars
  <2>4. CASE Handle
    <3>1. CASE SerialPortHandler
      BY <1>2, <2>4, <3>1 DEF Handle, SerialPortHandler
    <3>2. CASE UNCHANGED serial_vars
      BY <2>1, <2>4, <3>2 DEF Handle, serial_vars
    <3> QED
      BY <2>4, <3>1, <3>2 DEF Handle, Dispatch, TimerHandler, MouseHandler
  <2>5. CASE WaitForKey \/ Choose \/ ReadKey
    BY <1>2, <2>5 DEF WaitForKey, Choose, ReadKey, Step, Reading
  <2>6. CASE SerialChar
    BY <1>2, <2>6 DEF SerialChar, Step, Reading
  <2>7. CASE TimerCalls
    BY <1>2, <2>7 DEF TimerCalls, Delay, CheckOverflow, DelayLoop, Disable, Enable, Step,
                      Waiting, Still, TimerFunctions
  <2>8. CASE DrawTexts
    BY <2>1, <2>8 DEF DrawTexts, serial_vars
  <2>9. CASE UNCHANGED machine_vars
    BY <2>1, <2>9 DEF machine_vars, serial_vars
  <2> QED
    BY <1>2, <2>2, <2>3, <2>4, <2>5, <2>6, <2>7, <2>8, <2>9 DEF MachineNext, GetChar
<1> QED
  BY <1>1, <1>2, PTL DEF MachineSpec

-----------------------------------------------------------------------------
\* How many bytes of a packet are in the buffer, and how many have been sent or
\* are still to come: none or all three.
InBuffer == IF buffer.full /\ buffer.mouse THEN 1 ELSE 0
Bytes == current_packet + Len(packet) + InBuffer

\* A first byte in the buffer is one; the mouse asks only for its own byte; and
\* the program takes only keys for keys.
PacketInv ==
  /\ current_packet \in 0 .. 2
  /\ packet \in Seq(0 .. 255) /\ Len(packet) <= 2
  /\ buffer \in [full : BOOLEAN, mouse : BOOLEAN, byte : 0 .. 255]
  /\ Bytes \in {0, 3}
  /\ buffer.full /\ buffer.mouse /\ current_packet = 0 => Bit(buffer.byte, ALWAYS_ONE)
  /\ 12 \in requested \/ running = Vector(12) => buffer.full /\ buffer.mouse
  /\ ~(12 \in requested /\ running = Vector(12))
  /\ stage = "key" => KeyWaiting
  /\ stage = "choose" => serial_data_waiting \/ KeyWaiting

LEMMA PacketInit == ASSUME MachineInit PROVE PacketInv
BY DEF MachineInit, PointerInit, PacketInv, Bytes, InBuffer, KeyWaiting, Vector

LEMMA TripleIsSeq ==
  ASSUME NEW S, NEW s \in S \X S \X S
  PROVE  s \in Seq(S) /\ s # <<>> /\ Len(s) = 3
<1>1. s = <<s[1], s[2], s[3]>> /\ s[1] \in S /\ s[2] \in S /\ s[3] \in S
  OBVIOUS
<1>2. \A a, b, c \in S : <<a, b, c>> \in Seq(S) /\ <<a, b, c>> # <<>> /\ Len(<<a, b, c>>) = 3
  OBVIOUS
<1> QED
  BY <1>1, <1>2, Zenon

LEMMA DevicesKeepPacket == ASSUME PacketInv, Devices PROVE PacketInv'
<1> USE DEF PacketInv, Bytes, InBuffer, KeyWaiting
<1>1. CASE PitTick
  BY <1>1 DEF PitTick, Device, ps2_vars, serial_vars, pointer_vars, packet_vars
<1>2. CASE Key
  BY <1>2 DEF Key, Device, serial_vars, pointer_vars, packet_vars
<1>3. CASE MouseByte
  <2>0. UNCHANGED <<running, stage, serial_data_waiting, current_packet>>
    BY <1>3 DEF MouseByte, Device, serial_vars, pointer_vars, packet_vars
  <2>1. ~buffer.full /\ requested' = requested \cup {12} /\ running # Vector(12) /\ stage # "key"
    BY <1>3 DEF MouseByte
  <2>2. /\ buffer' \in [full : BOOLEAN, mouse : BOOLEAN, byte : 0 .. 255]
        /\ buffer'.full /\ buffer'.mouse /\ packet' \in Seq(0 .. 255)
        /\ \/ packet = <<>> /\ Len(packet') = 2 /\ Bit(buffer'.byte, ALWAYS_ONE)
           \/ packet # <<>> /\ Len(packet') = Len(packet) - 1
    <3>1. CASE packet # <<>>
      <4>1. /\ buffer' = [full |-> TRUE, mouse |-> TRUE, byte |-> Head(packet)]
            /\ packet' = Tail(packet)
        BY <1>3, <3>1 DEF MouseByte
      <4>2. /\ Head(packet) \in 0 .. 255 /\ Tail(packet) \in Seq(0 .. 255)
            /\ Len(Tail(packet)) = Len(packet) - 1
        BY <3>1, HeadTailProperties DEF PacketInv
      <4> QED
        BY <3>1, <4>1, <4>2
    <3>2. CASE packet = <<>>
      <4>1. PICK bytes \in Packets :
              /\ buffer' = [full |-> TRUE, mouse |-> TRUE, byte |-> Head(bytes)]
              /\ packet' = Tail(bytes)
        BY <1>3, <3>2 DEF MouseByte
      <4>0. bytes \in (0 .. 255) \X (0 .. 255) \X (0 .. 255)
        BY MachineAssumption
      <4>2. Bit(bytes[1], ALWAYS_ONE)
        BY MachineAssumption
      <4>3. bytes \in Seq(0 .. 255) /\ bytes # <<>> /\ Len(bytes) = 3
        BY <4>0, TripleIsSeq
      <4>4. Head(bytes) = bytes[1] /\ bytes[1] \in 0 .. 255
        BY <4>0
      <4>5. Tail(bytes) \in Seq(0 .. 255) /\ Len(Tail(bytes)) = 2
        BY <4>3, HeadTailProperties
      <4> HIDE DEF Bit, ALWAYS_ONE
      <4> QED
        BY <3>2, <4>1, <4>2, <4>4, <4>5
    <3> QED
      BY <3>1, <3>2
  <2>3. Len(packet) \in Nat /\ (packet = <<>> => Len(packet) = 0) /\ (packet # <<>> => Len(packet) > 0)
    BY DEF PacketInv
  <2>4. CASE packet = <<>>
    <3>1. current_packet = 0
      BY <2>1, <2>3, <2>4
    <3>2. Len(packet') = 2 /\ InBuffer' = 1 /\ current_packet' = 0
      BY <2>0, <2>2, <2>4, <3>1
    <3>3. Bytes' = 3
      BY <3>2
    <3> QED
      BY <2>0, <2>1, <2>2, <2>4, <3>1, <3>2, <3>3
  <2>5. CASE packet # <<>>
    <3>1. current_packet + Len(packet) = 3 /\ current_packet # 0
      BY <2>1, <2>3, <2>5
    <3>2. Len(packet') = Len(packet) - 1 /\ InBuffer' = 1 /\ current_packet' = current_packet
      BY <2>0, <2>2, <2>5
    <3>3. Bytes' = 3 /\ Len(packet') <= 2
      BY <2>3, <3>1, <3>2
    <3> QED
      BY <2>0, <2>1, <2>2, <2>5, <3>1, <3>2, <3>3
  <2> QED
    BY <2>4, <2>5
<1>4. ASSUME NEW p \in 1 .. 4, SerialByte(p) PROVE PacketInv'
  BY <1>4 DEF SerialByte, Device, ps2_vars, pointer_vars, packet_vars
<1>5. ASSUME NEW p \in 1 .. 4, UartAsk(p) PROVE PacketInv'
  <2>1. Line(p) # 12
    BY DEF Line
  <2> QED
    BY <1>5, <2>1 DEF UartAsk, Device, ps2_vars, serial_vars, pointer_vars, packet_vars
<1> QED
  BY <1>1, <1>2, <1>3, <1>4, <1>5 DEF Devices

LEMMA MouseHandlerKeepsPacket ==
  ASSUME PacketInv, Handle, running = Vector(12)
  PROVE  PacketInv'
<1> USE DEF PacketInv, Bytes, InBuffer, KeyWaiting
<1>1. MouseHandler /\ running' = 0 /\ UNCHANGED <<requested, stage>>
  <2>1. running - 32 = 12 /\ Genuine(12)
    BY DEF Vector, Genuine
  <2> QED
    BY <2>1 DEF Handle, Dispatch
<1>2. buffer.full /\ buffer.mouse /\ 12 \notin requested /\ stage # "key"
  BY DEF PacketInv
<1>3. current_packet' = IF current_packet = 2 THEN 0 ELSE current_packet + 1
  BY <1>1, <1>2 DEF MouseHandler, ProcessPacket
<1>4. UNCHANGED <<packet, serial_data_waiting>>
      /\ buffer' = [buffer EXCEPT !.full = FALSE]
  BY <1>1 DEF MouseHandler, serial_vars
<1>5. stage = "choose" => serial_data_waiting
  BY <1>2
<1>6. Len(packet) \in Nat
  BY DEF PacketInv
<1>7. current_packet' + Len(packet) \in {0, 3} /\ current_packet' \in 0 .. 2
  BY <1>2, <1>3, <1>6
<1>8. buffer' \in [full : BOOLEAN, mouse : BOOLEAN, byte : 0 .. 255] /\ ~buffer'.full
  BY <1>4
<1>9. Bytes' \in {0, 3}
  BY <1>4, <1>7, <1>8
<1> QED
  BY <1>1, <1>2, <1>4, <1>5, <1>7, <1>8, <1>9 DEF Vector

LEMMA PacketNext == ASSUME PacketInv, ServiceInv, [MachineNext]_machine_vars PROVE PacketInv'
<1> USE DEF PacketInv, Bytes, InBuffer, KeyWaiting
<1>2. CASE Devices
  BY <1>2, DevicesKeepPacket
<1>3. CASE Accept
  <2> DEFINE irq == First(requested)
  <2>1. irq \in requested /\ irq \in 0 .. 15
    BY <1>3, FirstIsIn DEF Accept, ServiceInv
  <2>2. running' = Vector(irq) /\ requested' = requested \ {irq}
    BY <1>3 DEF Accept, TakeRequest
  <2>3. UNCHANGED <<current_packet, packet, buffer, stage, serial_data_waiting>>
    BY <1>3 DEF Accept, TakeRequest, ps2_vars, serial_vars, pointer_vars, packet_vars
  <2>4. running' = Vector(12) <=> irq = 12
    BY <2>1, <2>2, SMTT(30) DEF Vector
  <2> QED
    BY <2>1, <2>2, <2>3, <2>4
<1>4. CASE Spurious
  <2>1. running' # Vector(12)
    BY <1>4 DEF Spurious, TakeRequest, Vector
  <2>2. UNCHANGED <<current_packet, packet, buffer, stage, serial_data_waiting, requested>>
    BY <1>4 DEF Spurious, TakeRequest, ps2_vars, serial_vars, pointer_vars, packet_vars
  <2> QED
    BY <2>1, <2>2
<1>5. CASE Handle
  <2>1. CASE running = Vector(12)
    BY <1>5, <2>1, MouseHandlerKeepsPacket
  <2>2. CASE running # Vector(12)
    <3>1. running - 32 # 12
      BY <2>2 DEF Vector, ServiceInv
    <3>2. UNCHANGED <<current_packet, packet, buffer>> /\ (serial_data_waiting => serial_data_waiting')
      BY <1>5, <3>1 DEF Handle, Dispatch, TimerHandler, SerialPortHandler, serial_vars, ps2_vars,
                        pointer_vars, packet_vars
    <3>3. UNCHANGED <<requested, stage>> /\ running' # Vector(12)
      BY <1>5 DEF Handle, Vector
    <3> QED
      BY <3>2, <3>3
  <2> QED
    BY <2>1, <2>2
<1>6. CASE WaitForKey
  BY <1>6 DEF WaitForKey, Step, Reading, pointer_vars, packet_vars
<1>7. CASE Choose
  BY <1>7 DEF Choose, Step, Reading, pointer_vars, packet_vars
<1>8. CASE SerialChar
  BY <1>8 DEF SerialChar, Step, Reading, pointer_vars, packet_vars
<1>9. CASE ReadKey
  BY <1>9 DEF ReadKey, Step, Reading, pointer_vars, packet_vars
<1>10. CASE TimerCalls
  <2>1. stage' \notin {"key", "choose"}
    BY <1>10 DEF TimerCalls, Delay, CheckOverflow, DelayLoop, Disable, Enable, Step, TimerFunctions
  <2>2. UNCHANGED <<requested, running, packet, buffer, current_packet>>
    BY <1>10 DEF TimerCalls, Delay, CheckOverflow, DelayLoop, Disable, Enable, Step, Waiting, Still,
                 pointer_vars, packet_vars
  <2> QED
    BY <2>1, <2>2
<1>11. CASE DrawTexts
  <2>1. UNCHANGED <<packet_vars, pic_vars, serial_vars, ps2_vars, stage>>
    BY <1>11 DEF DrawTexts, DrawStep, BeginText, RestoreMouse, PutGlyphs, SaveMouse, PaintMouse
  <2> QED
    BY <2>1 DEF packet_vars, pic_vars, serial_vars, ps2_vars
<1>12. CASE UNCHANGED machine_vars
  BY <1>12 DEF machine_vars, packet_vars, pic_vars, serial_vars, ps2_vars, pointer_vars
<1> QED
  BY <1>2, <1>3, <1>4, <1>5, <1>6, <1>7, <1>8, <1>9, <1>10, <1>11, <1>12 DEF MachineNext, GetChar

\* The mouse and the driver stay in step (keyboard_intel_8048.cpp:26).
THEOREM PacketsStayInStep == MachineSpec => []PacketInStep
<1>1. PacketInv => PacketInStep
  <2> SUFFICES ASSUME PacketInv PROVE PacketInStep
    OBVIOUS
  <2>1. Bytes % 3 = 0
    BY DEF PacketInv
  <2> QED
    BY <2>1 DEF PacketInStep, Bytes, InBuffer
<1> QED
  BY <1>1, PacketInit, PacketNext, ServiceInit, ServiceNext, PTL DEF MachineSpec

-----------------------------------------------------------------------------
\* While a delay has not seen its ticks, the tick it waits for is as far ahead
\* as it has ticks left; only before the check may that be past the wrap.
Left == wanted - elapsed
DelayInv ==
  program = "delays" =>
    /\ current_tick_ \in 0 .. TickRange - 1 /\ finish_at \in 0 .. TickRange - 1
    /\ wanted \in 0 .. TickRange - 1 /\ elapsed \in 0 .. wanted
    /\ stage \in {"idle"} \cup TimerFunctions => Left = 0
    /\ stage = "check" /\ Left # 0 =>
         current_tick_ + Left \in {finish_at, finish_at + TickRange}
    /\ stage \in {"loop", "next", "tick"} /\ Left # 0 => current_tick_ + Left = finish_at

LEMMA Remainder ==
  ASSUME NEW a \in Nat, NEW n \in Nat \ {0}, a < n + n
  PROVE  /\ a % n \in 0 .. n - 1
         /\ a % n = a \/ a % n = a - n
         /\ a < n => a % n = a
         /\ a >= n => a % n = a - n
BY SMT

LEMMA DelayInit == ASSUME MachineInit PROVE DelayInv
BY MachineAssumption DEF MachineInit, DelayInv, Left, TimerFunctions

LEMMA TickKeepsDelay ==
  ASSUME DelayInv, program = "delays", TimerHandler, UNCHANGED <<delay_vars, program, stage>>
  PROVE  DelayInv'
<1> USE DEF DelayInv, Left, delay_vars
<1>1. TickRange \in Nat \ {0} /\ current_tick_ \in Nat /\ current_tick_ < TickRange
  BY MachineAssumption
<1>2. /\ current_tick_' \in 0 .. TickRange - 1
      /\ \/ current_tick_' = current_tick_ + 1
         \/ current_tick_' = 0 /\ current_tick_ = TickRange - 1
  <2>1. PICK x \in Nat : x = current_tick_ + 1
    BY <1>1
  <2>2. x < TickRange + TickRange
    BY <1>1, <2>1
  <2>3. /\ x % TickRange \in 0 .. TickRange - 1
        /\ x < TickRange => x % TickRange = x
        /\ x >= TickRange => x % TickRange = x - TickRange
    BY <1>1, <2>2, Remainder
  <2>4. current_tick_' = x % TickRange
    BY <2>1 DEF TimerHandler
  <2> QED
    BY <1>1, <2>1, <2>3, <2>4
<1>3. /\ elapsed' \in 0 .. wanted
      /\ Left # 0 => elapsed' = elapsed + 1
      /\ Left = 0 => elapsed' = elapsed
  BY DEF TimerHandler, Least
<1>4. Left' # 0 => Left # 0 /\ Left' = Left - 1
  BY <1>3
<1>5. stage \in {"idle"} \cup TimerFunctions => Left' = 0
  BY <1>3
<1>6. stage = "check" /\ Left' # 0 => current_tick_' + Left' \in {finish_at, finish_at + TickRange}
  BY <1>1, <1>2, <1>3, <1>4
<1>7. stage \in {"loop", "next", "tick"} /\ Left' # 0 => current_tick_' + Left' = finish_at
  BY <1>1, <1>2, <1>3, <1>4
<1> QED
  BY <1>2, <1>3, <1>5, <1>6, <1>7

LEMMA DelayNext == ASSUME DelayInv, [MachineNext]_machine_vars PROVE DelayInv'
<1> USE DEF DelayInv, Left
<1>1. CASE UNCHANGED <<program, stage, current_tick_, finish_at, wanted, elapsed>>
  BY <1>1
<1>2. CASE Devices
  BY <1>1, <1>2 DEF Devices, PitTick, Key, MouseByte, SerialByte, UartAsk, Device, timer_vars, delay_vars
<1>3. CASE Accept \/ Spurious
  BY <1>1, <1>3 DEF Accept, Spurious, TakeRequest, timer_vars, delay_vars
<1>4. CASE Handle
  <2>1. UNCHANGED <<delay_vars, program, stage>>
    BY <1>4 DEF Handle
  <2>2. CASE UNCHANGED <<timer_vars, elapsed>>
    BY <1>1, <2>1, <2>2 DEF timer_vars, delay_vars
  <2>3. CASE TimerHandler
    <3>1. CASE program = "delays"
      BY <2>1, <2>3, <3>1, TickKeepsDelay
    <3>2. CASE program # "delays"
      BY <2>1, <3>2
    <3> QED
      BY <3>1, <3>2
  <2> QED
    BY <1>4, <2>2, <2>3 DEF Handle, Dispatch, SerialPortHandler, MouseHandler
<1>5. CASE GetChar
  <2>1. program = "reads" /\ program' = program
    BY <1>5 DEF GetChar, WaitForKey, Choose, SerialChar, ReadKey, Step
  <2> QED
    BY <2>1
<1>6. CASE TimerCalls
  <2>1. program = "delays" /\ program' = program
    BY <1>6 DEF TimerCalls, Delay, CheckOverflow, DelayLoop, Disable, Enable, Step
  <2>0. TickRange \in Nat \ {0}
    BY MachineAssumption
  <2>2. ASSUME NEW n \in Delays, Delay(n)
        PROVE  DelayInv'
    <3>1. CASE timer_not_installed_blocking
      BY <2>1, <2>2, <3>1 DEF Delay, Step, Waiting, timer_vars, TimerFunctions
    <3>2. CASE ~timer_not_installed_blocking
      <4>1. n \in 0 .. TickRange - 1 /\ TickRange \in Nat \ {0}
        BY MachineAssumption
      <4>2. /\ finish_at' \in 0 .. TickRange - 1
            /\ current_tick_ + n \in {finish_at', finish_at' + TickRange}
        <5>1. PICK x \in Nat : x = current_tick_ + n
          BY <2>1, <4>1
        <5>2. x < TickRange + TickRange
          BY <2>1, <4>1, <5>1
        <5>3. /\ x % TickRange \in 0 .. TickRange - 1
              /\ x % TickRange = x \/ x % TickRange = x - TickRange
          BY <4>1, <5>2, Remainder
        <5>4. finish_at' = x % TickRange
          BY <2>2, <3>2, <5>1 DEF Delay
        <5> QED
          BY <4>1, <5>1, <5>3, <5>4
      <4>3. stage' = "check" /\ wanted' = n /\ elapsed' = 0 /\ current_tick_' = current_tick_
        BY <2>2, <3>2 DEF Delay, Step, Waiting, timer_vars
      <4> QED
        BY <2>1, <4>1, <4>2, <4>3 DEF TimerFunctions
    <3> QED
      BY <3>1, <3>2
  <2>3. CASE CheckOverflow
    <3>1. /\ stage = "check"
          /\ stage' = IF current_tick_ > finish_at THEN "stopped" ELSE "loop"
          /\ UNCHANGED <<current_tick_, finish_at, wanted, elapsed>>
      BY <2>3 DEF CheckOverflow, Step, Waiting, timer_vars, delay_vars
    <3>2. Left \in Nat /\ Left < TickRange
      BY <2>0, <2>1
    <3>3. current_tick_ <= finish_at /\ Left # 0 => current_tick_ + Left = finish_at
      BY <2>0, <2>1, <3>1, <3>2
    <3> QED
      BY <2>1, <3>1, <3>3 DEF TimerFunctions
  <2>4. CASE DelayLoop
    <3>1. UNCHANGED <<current_tick_, wanted, elapsed>>
      BY <2>4 DEF DelayLoop, Waiting, timer_vars
    <3>2. CASE stage = "loop" /\ current_tick_ >= finish_at /\ stage' = "idle" /\ finish_at' = 0
      <4>1. Left = 0
        BY <2>0, <2>1, <3>2
      <4> QED
        BY <2>0, <2>1, <3>1, <3>2, <4>1
    <3>3. CASE stage \in {"loop", "next", "tick"} /\ stage' \in {"loop", "next", "tick"} /\ finish_at' = finish_at
      BY <2>1, <3>1, <3>3 DEF TimerFunctions
    <3> QED
      BY <2>4, <3>2, <3>3 DEF DelayLoop, Step
  <2>5. ASSUME NEW f \in TimerFunctions, Disable(f)
        PROVE  DelayInv'
    BY <2>1, <2>5 DEF Disable, Step, Still, timer_vars, delay_vars, TimerFunctions
  <2>6. ASSUME NEW f \in TimerFunctions, Enable(f)
        PROVE  DelayInv'
    <3>1. current_tick_' \in {0, current_tick_}
      BY <2>6 DEF Enable
    <3> QED
      BY <2>1, <2>6, <3>1, MachineAssumption DEF Enable, Step, Still, delay_vars, TimerFunctions
  <2> QED
    BY <1>6, <2>2, <2>3, <2>4, <2>5, <2>6 DEF TimerCalls
<1>7. CASE DrawTexts
  BY <1>1, <1>7 DEF DrawTexts, timer_vars, delay_vars
<1>8. CASE UNCHANGED machine_vars
  BY <1>1, <1>8 DEF machine_vars, timer_vars, delay_vars
<1> QED
  BY <1>2, <1>3, <1>4, <1>5, <1>6, <1>7, <1>8 DEF MachineNext

\* A delay never returns before it has seen its ticks, wherever the tick wraps
\* and the timer is set back (driver.cpp:468).
THEOREM DelaysAreLongEnough == MachineSpec => []DelayNotShort
<1>1. DelayInv => DelayNotShort
  BY DEF DelayInv, Left, DelayNotShort
<1> QED
  BY <1>1, DelayInit, DelayNext, PTL DEF MachineSpec

-----------------------------------------------------------------------------
\* The screen shows the text with the pointer over it.
Overlaid ==
  \A c \in Columns :
    IF saved_under /\ c \in Covered(saved_x, saved_y)
    THEN shown[c] = "arrow" /\ saved_pixels[c] = text[c]
    ELSE shown[c] = text[c]

\* The pointer is off the screen while a text that touches it is drawn.
PlainText == \A c \in Columns : shown[c] = text[c]
SavedText == \A c \in Covered(saved_x, saved_y) : saved_pixels[c] = text[c]

Touched == Overlaps(saved_x, saved_y, draw.column, draw.length)

PointerTypes ==
  /\ saved_x \in Int /\ saved_y \in Int
  /\ mouse_state.x \in Int /\ mouse_state.y \in Int
  /\ current_state \in [flags : 0 .. 255, x : Int, y : Int]
  /\ draw \in [at : {"idle", "restore", "glyphs", "save", "paint"}, column : Nat,
               length : Nat, glyph : Glyphs, overlaps : BOOLEAN]

\* What holds at each place of drawText.
PlacesInv ==
  /\ draw.at # "idle" => draw.overlaps = Touched
  /\ draw.at \in {"restore", "save", "paint"} => draw.overlaps
  /\ draw.at \in {"idle", "restore"} \/ ~draw.overlaps => Overlaid
  /\ draw.at \in {"glyphs", "save", "paint"} /\ draw.overlaps => PlainText
  /\ draw.at \in {"glyphs", "save"} /\ draw.overlaps => ~saved_under
  /\ draw.at = "paint" => saved_under /\ SavedText

PointerInv == PointerTypes /\ (~clash => PlacesInv)

\* A text the pointer does not touch has no column under it.
LEMMA UntouchedText ==
  ASSUME NEW x \in Int, NEW y \in Int, NEW column \in Nat, NEW length \in Nat,
         ~Overlaps(x, y, column, length), NEW c \in Covered(x, y)
  PROVE  c \notin column .. column + length - 1
BY PointerAssumption DEF Overlaps, Covered

LEMMA RestoredIsText == ASSUME Overlaid PROVE \A c \in Columns : Restored[c] = text[c]
BY DEF Overlaid, Restored

LEMMA PointerInitInv == ASSUME MachineInit PROVE PointerInv
BY PointerAssumption
   DEF MachineInit, PointerInit, PointerInv, PointerTypes, PlacesInv, Overlaid, Idle

LEMMA BeginTextKeepsPointer ==
  ASSUME PointerInv, NEW t \in Texts, NEW g \in Glyphs, BeginText(t[1], t[2], g)
  PROVE  PointerInv'
<1> DEFINE overlaps == Overlaps(saved_x, saved_y, t[1], t[2])
<1>1. t[1] \in Nat /\ t[2] \in Nat
  BY MachineAssumption
<1>2. overlaps \in BOOLEAN
  BY DEF Overlaps
<1>3. /\ draw.at = "idle"
      /\ draw' = [at |-> IF overlaps THEN "restore" ELSE "glyphs", column |-> t[1],
                  length |-> t[2], glyph |-> g, overlaps |-> overlaps]
      /\ UNCHANGED <<packet_vars, overlay_vars, text, clash>>
  BY DEF BeginText
<1> HIDE DEF overlaps
<1>4. PointerTypes'
  BY <1>1, <1>2, <1>3 DEF PointerInv, PointerTypes, packet_vars, overlay_vars
<1>5. Touched' = overlaps
  BY <1>3 DEF Touched, overlaps, overlay_vars, Overlaps
<1>6. Overlaid => Overlaid'
  BY <1>3 DEF Overlaid, overlay_vars, Covered
<1>7. ~clash => PlacesInv'
  BY <1>2, <1>3, <1>5, <1>6 DEF PointerInv, PlacesInv
<1> QED
  BY <1>3, <1>4, <1>7 DEF PointerInv

LEMMA DrawStepKeepsPointer == ASSUME PointerInv, DrawStep PROVE PointerInv'
<1> USE DEF At
<1>0. PointerTypes'
  <2>1. UNCHANGED <<packet_vars, saved_x, saved_y>> /\ draw' \in {[draw EXCEPT !.at = p] :
          p \in {"glyphs", "save", "paint"}} \cup {Idle}
    BY DEF DrawStep, RestoreMouse, PutGlyphs, SaveMouse, PaintMouse
  <2>2. \A p \in {"glyphs", "save", "paint"} :
          [draw EXCEPT !.at = p] \in [at : {"idle", "restore", "glyphs", "save", "paint"},
             column : Nat, length : Nat, glyph : Glyphs, overlaps : BOOLEAN]
    BY DEF PointerInv, PointerTypes
  <2>3. Idle \in [at : {"idle", "restore", "glyphs", "save", "paint"},
             column : Nat, length : Nat, glyph : Glyphs, overlaps : BOOLEAN]
    BY PointerAssumption DEF Idle
  <2> QED
    BY <2>1, <2>2, <2>3 DEF PointerInv, PointerTypes, packet_vars
<1>1. SUFFICES ASSUME ~clash, PlacesInv PROVE PlacesInv'
  BY <1>0 DEF PointerInv, DrawStep, RestoreMouse, PutGlyphs, SaveMouse, PaintMouse
<1>2. draw \in [at : {"idle", "restore", "glyphs", "save", "paint"}, column : Nat,
               length : Nat, glyph : Glyphs, overlaps : BOOLEAN]
  BY DEF PointerInv, PointerTypes
<1>3. CASE RestoreMouse
  <2>1. draw.at = "restore" /\ draw.overlaps /\ Touched /\ Overlaid
    BY <1>1, <1>3 DEF RestoreMouse, PlacesInv
  <2>2. draw'.at = "glyphs" /\ draw'.overlaps /\ ~saved_under'
    BY <1>2, <1>3, <2>1 DEF RestoreMouse
  <2>3. Touched' = Touched
    BY <1>2, <1>3 DEF RestoreMouse, Touched, Overlaps
  <2>4. PlainText'
    BY <1>3, <2>1, RestoredIsText DEF RestoreMouse, PlainText
  <2> QED
    BY <2>1, <2>2, <2>3, <2>4 DEF PlacesInv
<1>4. CASE PutGlyphs
  <2>0. /\ draw.at = "glyphs" /\ shown' = WithText(shown) /\ text' = WithText(text)
        /\ UNCHANGED <<saved_under, saved_x, saved_y, saved_pixels>>
    BY <1>4 DEF PutGlyphs
  <2>1. CASE draw.overlaps
    <3>1. draw' = [draw EXCEPT !.at = "save"]
      BY <1>4, <2>1 DEF PutGlyphs
    <3>2. draw'.at = "save" /\ draw'.overlaps
      BY <1>2, <2>1, <3>1
    <3>3. Touched' = Touched
      BY <1>2, <2>0, <3>1 DEF Touched, Overlaps
    <3>4. PlainText'
      BY <1>1, <2>0, <2>1 DEF PlacesInv, PlainText, WithText
    <3> QED
      BY <1>1, <2>0, <2>1, <3>2, <3>3, <3>4 DEF PlacesInv
  <2>2. CASE ~draw.overlaps
    <3>1. draw' = Idle /\ Overlaid /\ ~Touched
      BY <1>1, <1>4, <2>0, <2>2 DEF PutGlyphs, PlacesInv
    <3>2. \A c \in Covered(saved_x, saved_y) : c \notin draw.column .. draw.column + draw.length - 1
      BY <1>2, <3>1, UntouchedText DEF Touched, PointerInv, PointerTypes
    <3>3. \A c \in Covered(saved_x, saved_y) : shown'[c] = shown[c] /\ text'[c] = text[c]
      BY <2>0, <3>2 DEF WithText, Covered
    <3>4. \A c \in Columns : shown[c] = text[c] => shown'[c] = text'[c]
      BY <2>0 DEF WithText
    <3>5. Covered(saved_x, saved_y)' = Covered(saved_x, saved_y)
      BY <2>0 DEF Covered
    <3>6. Overlaid'
      BY <2>0, <3>1, <3>3, <3>4, <3>5 DEF Overlaid
    <3> QED
      BY <3>1, <3>6 DEF PlacesInv, Idle
  <2> QED
    BY <1>2, <2>1, <2>2
<1>5. CASE SaveMouse
  <2>1. /\ draw.at = "save" /\ saved_pixels' = Saved(shown, saved_x, saved_y) /\ saved_under'
        /\ UNCHANGED <<shown, text, saved_x, saved_y>>
        /\ draw' = [draw EXCEPT !.at = "paint"]
    BY <1>5 DEF SaveMouse
  <2>2. draw.overlaps /\ Touched /\ PlainText
    BY <1>1, <2>1 DEF PlacesInv
  <2>3. draw'.at = "paint" /\ draw'.overlaps
    BY <1>2, <2>1, <2>2
  <2>4. Touched' = Touched
    BY <1>2, <2>1 DEF Touched, Overlaps
  <2>5. PlainText' /\ SavedText'
    BY <2>1, <2>2 DEF PlainText, SavedText, Saved, Covered
  <2> QED
    BY <2>1, <2>2, <2>3, <2>4, <2>5 DEF PlacesInv
<1>6. CASE PaintMouse
  <2>1. /\ draw.at = "paint" /\ shown' = Painted(shown, saved_x, saved_y) /\ draw' = Idle
        /\ UNCHANGED <<saved_under, saved_x, saved_y, saved_pixels, text>>
    BY <1>6 DEF PaintMouse
  <2>2. PlainText /\ SavedText /\ saved_under
    BY <1>1, <2>1 DEF PlacesInv
  <2>3. Overlaid'
    BY <2>1, <2>2 DEF Overlaid, PlainText, SavedText, Painted, Covered
  <2> QED
    BY <2>1, <2>3 DEF PlacesInv, Idle
<1> QED
  BY <1>3, <1>4, <1>5, <1>6 DEF DrawStep

LEMMA IntegerPlaces ==
  /\ \A n \in Int : Int16(n) \in Int
  /\ \A n \in Int : Least(5 * Greatest(n \div 4, 0), 1280) \in Int
  /\ \A n \in Int : Least(5 * Greatest(n \div 4, 0), 1024) \in Int
BY DEF Int16, Least, Greatest

LEMMA PacketKeepsPointer ==
  ASSUME PointerInv, NEW byte \in 0 .. 255, ProcessPacket(byte)
  PROVE  PointerInv'
<1>0. PointerTypes
  BY DEF PointerInv
<1>1. CASE UNCHANGED <<mouse_state, overlay_vars, clash>>
           /\ current_state' \in [flags : 0 .. 255, x : Int, y : Int]
  <2>1. UNCHANGED <<draw, text>>
    BY DEF ProcessPacket
  <2>2. PointerTypes'
    BY <1>0, <1>1, <2>1 DEF PointerTypes, overlay_vars
  <2>3. PlacesInv => PlacesInv'
    BY <1>1, <2>1 DEF PlacesInv, Overlaid, PlainText, SavedText, Touched, overlay_vars, Covered, Overlaps
  <2> QED
    BY <1>1, <2>2, <2>3 DEF PointerInv
<1>2. ASSUME NEW before \in Int, NEW sign, NEW overflow
      PROVE  Movement(current_state.flags, sign, overflow, byte, before) \in Int
  BY <1>2 DEF Movement
<1>3. CASE current_packet = 0
  BY <1>0, <1>1, <1>3 DEF ProcessPacket, PointerTypes
<1>4. CASE current_packet = 1
  <2>1. current_state.x \in Int
    BY <1>0 DEF PointerTypes
  <2>2. PICK x \in Int : current_state' = [current_state EXCEPT !.x = x]
    BY <1>2, <1>4, <2>1 DEF ProcessPacket
  <2> QED
    BY <1>0, <1>1, <1>4, <2>2 DEF ProcessPacket, PointerTypes
<1>5. CASE current_packet = 2
  <2>1. current_state.y \in Int
    BY <1>0 DEF PointerTypes
  <2>2. PICK d \in Int : current_state' = [current_state EXCEPT !.y = d]
    BY <1>2, <1>5, <2>1 DEF ProcessPacket
  <2>3. current_state' \in [flags : 0 .. 255, x : Int, y : Int]
    BY <1>0, <2>2 DEF PointerTypes
  <2>4. OnComplete(current_state') /\ UNCHANGED <<draw, text>>
    BY <1>5 DEF ProcessPacket
  <2>5. PICK x \in Int, y \in Int :
          mouse_state' = [x |-> x, y |-> y]
          /\ DrawMousePointer2(Greatest(x \div 4, 0), Greatest(y \div 4, 0))
    <3>1. mouse_state.x + current_state'.x \in Int /\ mouse_state.y - current_state'.y \in Int
      BY <1>0, <2>3 DEF PointerTypes
    <3> QED
      BY <2>4, <3>1, IntegerPlaces DEF OnComplete
  <2>6. PICK px \in Int, py \in Int :
          /\ saved_x' = px /\ saved_y' = py /\ saved_under'
          /\ saved_pixels' = Saved(Restored, px, py)
          /\ shown' = Painted(Restored, px, py)
          /\ clash' = (clash \/ /\ draw.at # "idle"
                                /\ \/ Overlaps(saved_x, saved_y, draw.column, draw.length)
                                   \/ Overlaps(px, py, draw.column, draw.length))
    BY <2>5, IntegerPlaces DEF DrawMousePointer2
  <2>7. PointerTypes'
    BY <1>0, <2>3, <2>4, <2>5, <2>6 DEF PointerTypes
  <2>8. ASSUME ~clash' PROVE PlacesInv'
    <3>1. ~clash /\ PlacesInv
      BY <2>6, <2>8 DEF PointerInv
    <3>2. draw.at # "idle" => ~Touched /\ ~Touched' /\ ~draw.overlaps
      BY <2>4, <2>6, <2>8, <3>1 DEF Touched, PlacesInv
    <3>3. Overlaid
      BY <3>1, <3>2 DEF PlacesInv
    <3>4. \A c \in Columns : Restored[c] = text[c]
      BY <3>3, RestoredIsText
    <3>5. Overlaid'
      BY <2>4, <2>6, <3>4 DEF Overlaid, Saved, Painted, Covered
    <3>6. draw.at \notin {"restore", "save", "paint"}
      BY <3>1, <3>2 DEF PlacesInv
    <3>7. draw' = draw /\ (draw.at # "idle" => draw.overlaps = FALSE /\ Touched' = FALSE)
      BY <2>4, <3>2, <1>0 DEF PointerTypes, Touched, Overlaps
    <3> QED
      BY <3>5, <3>6, <3>7 DEF PlacesInv
  <2> QED
    BY <2>7, <2>8 DEF PointerInv
<1> QED
  BY <1>3, <1>4, <1>5 DEF ProcessPacket

LEMMA PointerNext ==
  ASSUME PointerInv, PacketInv, [MachineNext]_machine_vars
  PROVE  PointerInv'
<1>1. CASE UNCHANGED pointer_vars
  <2>1. PointerTypes'
    BY <1>1 DEF PointerInv, PointerTypes, pointer_vars, packet_vars, overlay_vars
  <2>2. PlacesInv => PlacesInv'
    BY <1>1 DEF PlacesInv, Overlaid, PlainText, SavedText, Touched, pointer_vars, packet_vars,
                overlay_vars, Covered, Overlaps
  <2> QED
    BY <1>1, <2>1, <2>2 DEF PointerInv, pointer_vars
<1>2. CASE Devices
  BY <1>1, <1>2 DEF Devices, PitTick, Key, MouseByte, SerialByte, UartAsk, Device
<1>3. CASE Accept \/ Spurious
  BY <1>1, <1>3 DEF Accept, Spurious, TakeRequest
<1>4. CASE Handle
  <2>1. CASE MouseHandler
    BY <2>1, PacketKeepsPointer DEF MouseHandler, PacketInv
  <2> QED
    BY <1>1, <1>4, <2>1 DEF Handle, Dispatch, TimerHandler, SerialPortHandler
<1>5. CASE GetChar
  BY <1>1, <1>5 DEF GetChar, WaitForKey, Choose, SerialChar, ReadKey, Reading
<1>6. CASE TimerCalls
  BY <1>1, <1>6 DEF TimerCalls, Delay, CheckOverflow, DelayLoop, Disable, Enable, Waiting, Still
<1>7. CASE DrawTexts
  BY <1>7, DrawStepKeepsPointer, BeginTextKeepsPointer DEF DrawTexts
<1>8. CASE UNCHANGED machine_vars
  BY <1>1, <1>8 DEF machine_vars
<1> QED
  BY <1>2, <1>3, <1>4, <1>5, <1>6, <1>7, <1>8 DEF MachineNext

\* As long as no packet moves the pointer off or onto a text that is being drawn,
\* nothing but the pointer hides the text (entry.cpp:573).
THEOREM PointerStaysOverText == MachineSpec => []PointerOverText
<1>1. PointerInv => PointerOverText
  BY DEF PointerInv, PlacesInv, PointerOverText, Overlaid
<1> QED
  BY <1>1, PointerInitInv, PointerNext, PacketInit, PacketNext, ServiceInit, ServiceNext, PTL
     DEF MachineSpec

-----------------------------------------------------------------------------
(***************************************************************************)
(* The start of the mouse, for any number of bytes that the keyboard sends *)
(* meanwhile: the steps of initialize_mouse and what the two controllers   *)
(* have been asked for are in step.                                        *)
(***************************************************************************)
Commands == {1, 3, 5, 8}
DataSteps == {4, 6, 9}

\* The steps by their number.
DoesAt(k) == IF k \in Commands THEN "command" ELSE IF k \in DataSteps THEN "data" ELSE "read"
WhatAt(k) ==
  IF k = 1 THEN "get status" ELSE IF k = 3 THEN "set status"
  ELSE IF k \in {2, 4} THEN "status" ELSE IF k \in {5, 8} THEN "to the mouse"
  ELSE IF k = 6 THEN "defaults" ELSE IF k = 9 THEN "stream" ELSE "answer"

\* The last step up to the nth that writes, and what it has written.
LastWrite(n) == IF n \in {2, 7, 10} THEN n - 1 ELSE n
Written(k) ==
  [port |-> DoesAt(k), what |-> WhatAt(k), byte |-> IF k = 4 THEN mouse_status ELSE {}]

\* How many steps the controller is done with.
TakenUpto == IF to_controller = Taken THEN upto ELSE LastWrite(upto) - 1

\* How many bytes it has been asked for, and how many the driver has read.
Asked == (IF TakenUpto >= 1 THEN 1 ELSE 0) + (IF TakenUpto >= 6 THEN 1 ELSE 0)
         + (IF TakenUpto >= 9 THEN 1 ELSE 0)
BytesRead == (IF upto >= 2 THEN 1 ELSE 0) + (IF upto >= 7 THEN 1 ELSE 0)
             + (IF upto >= 10 THEN 1 ELSE 0)
Unread == IF data_port.from \in {"controller", "mouse"} THEN 1 ELSE 0

StartTypeOK ==
  /\ upto \in 0 .. 10
  /\ data_port \in [from : {"nobody", "controller", "mouse", "keyboard"}, byte : Byte]
  /\ to_controller.byte \in Byte
  /\ owed \in Nat
  /\ strays \in Nat
  /\ scan_codes \in Nat
  /\ gave_up \in BOOLEAN
  /\ config \in Byte
  /\ first_config \in Byte
  /\ mouse_status \in Byte

\* What was not taken is the last that was written.
PendingInv == to_controller # Taken => upto > 0 /\ to_controller = Written(LastWrite(upto))

AwaitsInv ==
  awaits = IF TakenUpto = 3 THEN "set status"
           ELSE IF TakenUpto \in {5, 8} THEN "to the mouse" ELSE "none"

\* Every byte asked for is owed, unread, or read but for the strays.
BytesInv == owed + Unread + BytesRead = Asked + strays

\* Before the mouse is asked only the command byte can have come.
FirstByteInv ==
  /\ TakenUpto < 6 => owed = 0
  /\ upto < 6 /\ data_port.from \in {"controller", "mouse"} => data_port.byte = first_config

StatusInv ==
  /\ upto >= 2 => /\ AUX_INTERRUPT \in mouse_status
                  /\ AUX_DISABLED \notin mouse_status
                  /\ strays = 0 => mouse_status = (first_config \cup {AUX_INTERRUPT}) \ {AUX_DISABLED}
  /\ config = IF TakenUpto < 4 THEN first_config ELSE mouse_status
  /\ TakenUpto >= 9 => streaming

StartInv ==
  /\ StartTypeOK
  /\ ~gave_up => PendingInv /\ AwaitsInv /\ BytesInv /\ FirstByteInv /\ StatusInv

-----------------------------------------------------------------------------
\* The steps of initialize_mouse (driver.cpp:179), one by one.
LEMMA StepsOf ==
  /\ Len(initialize_mouse) = 10
  /\ \A k \in 1 .. 10 : initialize_mouse[k] = [does |-> DoesAt(k), what |-> WhatAt(k)]
  BY SMT DEF initialize_mouse, PortStep, to_the_mouse, read_answer, DoesAt, WhatAt, Commands, DataSteps

\* What is awaited and asked for is the same whether the driver's next step is a read or not.
LEMMA InitStart == MouseStartInit => StartInv
<1> SUFFICES ASSUME MouseStartInit PROVE StartInv
  OBVIOUS
<1>1. StartTypeOK
  <2>1. {} \in Byte /\ config \in Byte
    BY MouseStartAssumption DEF MouseStartAssumption, MouseStartInit, Byte
  <2>2. data_port \in [from : {"nobody", "controller", "mouse", "keyboard"}, byte : Byte]
    BY <2>1 DEF MouseStartInit
  <2>3. first_config \in Byte /\ mouse_status \in Byte
    BY <2>1 DEF MouseStartInit
  <2>4. upto \in 0 .. 10 /\ owed \in Nat /\ strays \in Nat /\ scan_codes \in Nat
    BY DEF MouseStartInit
  <2>5. gave_up \in BOOLEAN
    BY DEF MouseStartInit
  <2>6. to_controller.byte \in Byte
    BY <2>1 DEF MouseStartInit, Taken
  <2>. QED BY <2>1, <2>2, <2>3, <2>4, <2>5, <2>6 DEF StartTypeOK
<1>2. upto = 0 /\ to_controller = Taken /\ TakenUpto = 0 /\ data_port.from = "nobody"
  BY DEF MouseStartInit, TakenUpto
<1>3. PendingInv /\ AwaitsInv /\ FirstByteInv /\ StatusInv
  BY <1>2 DEF MouseStartInit, PendingInv, AwaitsInv, FirstByteInv, StatusInv
<1>4. BytesInv
  BY <1>2 DEF MouseStartInit, BytesInv, Asked, BytesRead, Unread
<1>. QED BY <1>1, <1>3, <1>4 DEF StartInv

\* A write goes to a controller that has taken what was before (driver.cpp:124, 130).
LEMMA WritePortKeeps == StartInv /\ WritePort => StartInv'
<1> SUFFICES ASSUME StartInv, WritePort, NEW k, k = upto + 1 PROVE StartInv'
  OBVIOUS
<1>1. /\ upto \in 0 .. 9 /\ k \in 1 .. 10 /\ upto' = k
      /\ Now = [does |-> DoesAt(k), what |-> WhatAt(k)]
  BY StepsOf DEF StartInv, StartTypeOK, WritePort, Now
<1>2. k \in {1, 3, 4, 5, 6, 8, 9} /\ upto \in {0, 2, 3, 4, 5, 7, 8}
  BY <1>1 DEF WritePort, DoesAt, Commands, DataSteps
<1>3. to_controller' = Written(k)
  <2>1. Now.does = DoesAt(k) /\ Now.what = WhatAt(k)
    BY <1>1
  <2>2. WhatAt(k) = "status" <=> k = 4
    BY <1>2 DEF WhatAt
  <2>. QED BY <2>1, <2>2 DEF WritePort, Written
<1>4. Written(k).port # "none" /\ Written(k) # Taken /\ mouse_status' = mouse_status
  BY DEF Written, Taken, DoesAt, WritePort
<1>5. StartTypeOK'
  <2>1. to_controller'.byte \in Byte
    BY <1>3 DEF StartInv, StartTypeOK, Written, Byte
  <2>. QED BY <1>1, <2>1 DEF StartInv, StartTypeOK, WritePort
<1>6. ASSUME ~gave_up' PROVE (PendingInv /\ AwaitsInv /\ BytesInv /\ FirstByteInv /\ StatusInv)'
  <2>1. ~gave_up /\ to_controller = Taken
    BY <1>6 DEF StartInv, StartTypeOK, WritePort
  <2>2. LastWrite(k) = k /\ TakenUpto = upto /\ TakenUpto' = upto
    <3>1. LastWrite(k) = k
      BY <1>2 DEF LastWrite
    <3>. QED BY <1>1, <1>3, <1>4, <2>1, <3>1 DEF TakenUpto
  <2>3. PendingInv'
    BY <1>1, <1>3, <1>4, <2>2 DEF PendingInv, Written
  <2>4. AwaitsInv'
    BY <2>1, <2>2 DEF StartInv, AwaitsInv, WritePort
  <2>5. FirstByteInv'
    BY <1>1, <2>1, <2>2 DEF StartInv, FirstByteInv, WritePort
  <2>6. StatusInv'
    BY <1>1, <1>2, <2>1, <2>2 DEF StartInv, StatusInv, WritePort
  <2>7. BytesInv'
    <3>1. Asked' = Asked /\ Unread' = Unread
      BY <2>2 DEF Asked, Unread, WritePort
    <3>2. BytesRead' = BytesRead
      BY <1>1, <1>2 DEF BytesRead
    <3>. QED BY <2>1, <3>1, <3>2 DEF StartInv, BytesInv, WritePort
  <2>. QED BY <2>3, <2>4, <2>5, <2>6, <2>7
<1>. QED BY <1>5, <1>6 DEF StartInv

\* A read takes the byte that is there, whosever it is (driver.cpp:118).
LEMMA ReadPortKeeps == StartInv /\ read_data_port => StartInv'
<1> SUFFICES ASSUME StartInv, read_data_port, NEW k, k = upto + 1 PROVE StartInv'
  OBVIOUS
<1>1. /\ upto \in 0 .. 9 /\ k \in 1 .. 10 /\ upto' = k
      /\ Now = [does |-> DoesAt(k), what |-> WhatAt(k)]
  BY StepsOf DEF StartInv, StartTypeOK, read_data_port, Now
<1>2. k \in {2, 7, 10} /\ upto \in {1, 6, 9}
  BY <1>1 DEF read_data_port, DoesAt, Commands, DataSteps
<1>3. Now.what = IF k = 2 THEN "status" ELSE "answer"
  <2>1. Now.what = WhatAt(k)
    BY <1>1
  <2>2. k = 2 => WhatAt(k) = "status"
    BY DEF WhatAt
  <2>3. k = 7 \/ k = 10 => WhatAt(k) = "answer"
    BY DEF WhatAt
  <2>. QED BY <1>2, <2>1, <2>2, <2>3
<1>4. StartTypeOK'
  <2>1. mouse_status' \in Byte
    BY <1>3 DEF StartInv, StartTypeOK, read_data_port, Byte, AUX_INTERRUPT
  <2>. QED BY <1>1, <2>1 DEF StartInv, StartTypeOK, read_data_port
<1>5. ASSUME ~gave_up' PROVE (PendingInv /\ AwaitsInv /\ BytesInv /\ FirstByteInv /\ StatusInv)'
  <2>1. /\ ~gave_up
        /\ data_port.from \in {"controller", "mouse", "keyboard"}
        /\ data_port'.from = "nobody" /\ data_port'.byte = data_port.byte
    BY <1>5 DEF StartInv, StartTypeOK, read_data_port
  <2>2. LastWrite(upto) = upto /\ LastWrite(k) = upto /\ to_controller' = to_controller
    BY <1>1, <1>2 DEF LastWrite, read_data_port
  <2>3. TakenUpto' = IF to_controller = Taken THEN k ELSE upto - 1
    BY <1>1, <2>2 DEF TakenUpto
  <2>4. TakenUpto = IF to_controller = Taken THEN upto ELSE upto - 1
    BY <2>2 DEF TakenUpto
  <2>5. PendingInv'
    <3>1. to_controller # Taken =>
            to_controller = [port |-> DoesAt(upto), what |-> WhatAt(upto), byte |-> {}]
      BY <1>2, <2>1, <2>2 DEF StartInv, PendingInv, Written
    <3>. QED BY <1>1, <1>2, <2>2, <3>1 DEF PendingInv, Written
  <2>6. AwaitsInv'
    <3>1. (TakenUpto' = 3 <=> TakenUpto = 3) /\ (TakenUpto' \in {5, 8} <=> TakenUpto \in {5, 8})
      BY <1>1, <1>2, <2>3, <2>4
    <3>. QED BY <2>1, <3>1 DEF StartInv, AwaitsInv, read_data_port
  <2>7. BytesInv'
    <3>1. Asked' = Asked
      BY <1>1, <1>2, <2>3, <2>4 DEF Asked
    <3>2. BytesRead' = BytesRead + 1
      BY <1>1, <1>2 DEF BytesRead
    <3>3. Asked \in Nat /\ BytesRead \in Nat /\ owed \in Nat /\ strays \in Nat
      BY DEF Asked, BytesRead, StartInv, StartTypeOK
    <3>4. owed + Unread + BytesRead = Asked + strays /\ owed' = owed /\ Unread' = 0
      BY <2>1 DEF StartInv, BytesInv, Unread, read_data_port
    <3>5. CASE data_port.from = "keyboard"
      <4>1. Unread = 0 /\ strays' = strays + 1
        BY <3>5 DEF Unread, read_data_port
      <4>2. owed + (BytesRead + 1) = Asked + (strays + 1)
        BY <3>3, <3>4, <4>1
      <4>. QED BY <3>1, <3>2, <3>3, <3>4, <4>1, <4>2 DEF BytesInv
    <3>6. CASE data_port.from # "keyboard"
      <4>1. Unread = 1 /\ strays' = strays
        BY <2>1, <3>6 DEF Unread, read_data_port
      <4>2. owed + (BytesRead + 1) = Asked + strays
        BY <3>3, <3>4, <4>1
      <4>. QED BY <3>1, <3>2, <3>3, <3>4, <4>1, <4>2 DEF BytesInv
    <3>. QED BY <3>5, <3>6
  <2>8. FirstByteInv'
    BY <1>1, <1>2, <2>1, <2>3, <2>4 DEF StartInv, FirstByteInv, read_data_port
  <2>9. StatusInv'
    <3>1. CASE k = 2
      <4>1. mouse_status' = (data_port.byte \cup {AUX_INTERRUPT}) \ {AUX_DISABLED}
        BY <1>3, <3>1 DEF read_data_port
      <4>2. strays' = 0 => data_port.byte = first_config
        BY <1>1, <2>1, <3>1 DEF StartInv, StartTypeOK, FirstByteInv, read_data_port
      <4>3. TakenUpto < 4 /\ TakenUpto' < 4
        BY <1>1, <2>3, <2>4, <3>1
      <4>4. config' = first_config' /\ first_config' = first_config
        BY <2>1, <4>3 DEF StartInv, StatusInv, read_data_port
      <4>5. AUX_INTERRUPT \in mouse_status' /\ AUX_DISABLED \notin mouse_status'
        BY <4>1 DEF AUX_INTERRUPT, AUX_DISABLED
      <4>6. TakenUpto' < 9
        BY <1>1, <2>3, <3>1
      <4>7. strays' = 0 => mouse_status' = (first_config' \cup {AUX_INTERRUPT}) \ {AUX_DISABLED}
        BY <4>1, <4>2, <4>4
      <4>8. (TakenUpto < 4)' /\ ~(TakenUpto >= 9)'
        BY <1>1, <2>3, <3>1
      <4>. QED BY <4>4, <4>5, <4>7, <4>8 DEF StatusInv, AUX_INTERRUPT, AUX_DISABLED
    <3>2. CASE k # 2
      <4>1. mouse_status' = mouse_status /\ (strays' = 0 => strays = 0) /\ upto >= 2
        BY <1>2, <1>3, <3>2 DEF StartInv, StartTypeOK, read_data_port
      <4>2. (TakenUpto < 4 <=> TakenUpto' < 4) /\ (TakenUpto' >= 9 => TakenUpto >= 9)
        BY <1>1, <1>2, <2>3, <2>4, <3>2
      <4>. QED BY <1>1, <2>1, <4>1, <4>2 DEF StartInv, StatusInv, read_data_port
    <3>. QED BY <3>1, <3>2
  <2>. QED BY <2>5, <2>6, <2>7, <2>8, <2>9
<1>. QED BY <1>4, <1>5 DEF StartInv

\* What the controller takes is what the last step that writes has written.
LEMMA PendingStep ==
  ASSUME StartInv, ~gave_up, to_controller # Taken, NEW k, k = LastWrite(upto)
  PROVE  /\ upto \in 1 .. 10 /\ k \in {1, 3, 4, 5, 6, 8, 9}
         /\ upto = k \/ (upto = k + 1 /\ k \in {1, 6, 9})
         /\ to_controller = Written(k)
         /\ TakenUpto = k - 1
<1>1. upto \in 1 .. 10 /\ to_controller = Written(k)
  BY DEF StartInv, StartTypeOK, PendingInv
<1>2. upto \in {2, 7, 10} \/ (upto \notin {2, 7, 10} /\ k = upto)
  BY DEF LastWrite
<1>. QED BY <1>1, <1>2 DEF LastWrite, TakenUpto

\* A command is taken (driver.cpp:110): the first asks for a byte, the others
\* say what the next data is.
LEMMA TakeCommandKeeps == StartInv /\ TakeCommand => StartInv'
<1> SUFFICES ASSUME StartInv, TakeCommand, NEW k, k = LastWrite(upto) PROVE StartInv'
  OBVIOUS
<1>1. to_controller # Taken /\ to_controller' = Taken /\ TakenUpto' = upto
  <2>1. to_controller.port # Taken.port /\ to_controller' = Taken /\ upto' = upto
    BY DEF TakeCommand, Taken
  <2>. QED BY <2>1 DEF TakenUpto
<1>2. StartTypeOK'
  <2>1. data_port' \in [from : {"nobody", "controller", "mouse", "keyboard"}, byte : Byte]
    <3>1. config \in Byte /\ data_port \in [from : {"nobody", "controller", "mouse", "keyboard"}, byte : Byte]
      BY DEF StartInv, StartTypeOK
    <3>2. data_port' = data_port \/ data_port' = [from |-> "controller", byte |-> config]
      BY DEF TakeCommand, Send
    <3>. QED BY <3>1, <3>2
  <2>2. to_controller'.byte \in Byte
    BY <1>1 DEF Taken, Byte
  <2>. QED BY <2>1, <2>2 DEF StartInv, StartTypeOK, TakeCommand
<1>3. ASSUME ~gave_up' PROVE (PendingInv /\ AwaitsInv /\ BytesInv /\ FirstByteInv /\ StatusInv)'
  <2>1. ~gave_up
    BY <1>3 DEF TakeCommand
  <2>2. /\ upto \in 1 .. 10 /\ k \in {1, 3, 4, 5, 6, 8, 9}
        /\ upto = k \/ (upto = k + 1 /\ k \in {1, 6, 9})
        /\ to_controller = Written(k) /\ TakenUpto = k - 1
    BY <1>1, <2>1, PendingStep
  <2>3. k \in {1, 3, 5, 8} /\ (k = 1 \/ upto = k)
    <3>1. DoesAt(k) = "command"
      BY <2>2 DEF TakeCommand, Written
    <3>2. k \in Commands
      BY <3>1 DEF DoesAt
    <3>. QED BY <2>2, <3>2 DEF Commands
  <2>4. to_controller.what = WhatAt(k)
    BY <2>2 DEF Written
  <2>5. AwaitsInv /\ BytesInv /\ FirstByteInv /\ StatusInv
    BY <2>1 DEF StartInv
  <2>6. PendingInv'
    BY <1>1 DEF PendingInv
  <2>7. StatusInv'
    <3>1. (TakenUpto < 4)' <=> TakenUpto < 4
      BY <1>1, <2>2, <2>3
    <3>2. ~(TakenUpto >= 9)'
      BY <1>1, <2>2, <2>3
    <3>. QED BY <2>5, <3>1, <3>2 DEF StatusInv, TakeCommand
  <2>8. CASE k = 1
    <3>1. to_controller.what = "get status"
      BY <2>4, <2>8 DEF WhatAt
    <3>2. /\ data_port.from = "nobody" /\ data_port' = [from |-> "controller", byte |-> config]
          /\ awaits' = awaits
      BY <3>1 DEF TakeCommand, Send
    <3>3. TakenUpto = 0 /\ upto \in {1, 2} /\ TakenUpto' = upto /\ upto' = upto
      <4>1. upto' = upto
        BY DEF TakeCommand
      <4>. QED BY <1>1, <2>2, <2>8, <4>1
    <3>4. AwaitsInv'
      BY <2>5, <3>2, <3>3 DEF AwaitsInv
    <3>5. FirstByteInv'
      <4>1. config = first_config /\ owed = 0
        BY <2>5, <3>3 DEF FirstByteInv, StatusInv
      <4>2. first_config' = first_config /\ owed' = owed /\ data_port'.byte = config
        BY <3>2 DEF TakeCommand
      <4>. QED BY <3>3, <4>1, <4>2 DEF FirstByteInv
    <3>6. BytesInv'
      <4>1. Unread = 0 /\ Unread' = 1 /\ Asked = 0 /\ Asked' = 1
        BY <3>2, <3>3 DEF Unread, Asked
      <4>2. BytesRead' = BytesRead /\ BytesRead \in Nat
        BY <3>3 DEF BytesRead
      <4>3. owed' = owed /\ strays' = strays /\ owed \in Nat /\ strays \in Nat
        BY DEF TakeCommand, StartInv, StartTypeOK
      <4>. QED BY <2>5, <4>1, <4>2, <4>3 DEF BytesInv
    <3>. QED BY <2>6, <2>7, <3>4, <3>5, <3>6
  <2>9. CASE k # 1
    <3>1. to_controller.what = (IF k = 3 THEN "set status" ELSE "to the mouse")
      <4>1. k = 3 => WhatAt(k) = "set status"
        BY DEF WhatAt
      <4>2. k = 5 \/ k = 8 => WhatAt(k) = "to the mouse"
        BY DEF WhatAt
      <4>. QED BY <2>3, <2>4, <2>9, <4>1, <4>2
    <3>2. data_port' = data_port /\ awaits' = to_controller.what
      BY <3>1 DEF TakeCommand
    <3>3. TakenUpto' = k /\ upto' = upto /\ upto = k
      BY <1>1, <2>3, <2>9 DEF TakeCommand
    <3>4. AwaitsInv'
      BY <2>3, <2>9, <3>1, <3>2, <3>3 DEF AwaitsInv
    <3>5. FirstByteInv'
      <4>1. (TakenUpto < 6)' => TakenUpto < 6
        BY <2>2, <3>3
      <4>2. owed' = owed /\ first_config' = first_config
        BY DEF TakeCommand
      <4>. QED BY <2>5, <3>2, <3>3, <4>1, <4>2 DEF FirstByteInv
    <3>6. BytesInv'
      <4>1. Unread' = Unread /\ BytesRead' = BytesRead
        BY <3>2, <3>3 DEF Unread, BytesRead
      <4>2. Asked' = Asked
        BY <2>2, <2>3, <2>9, <3>3 DEF Asked
      <4>. QED BY <2>5, <4>1, <4>2 DEF BytesInv, TakeCommand
    <3>. QED BY <2>6, <2>7, <3>4, <3>5, <3>6
  <2>. QED BY <2>8, <2>9
<1>. QED BY <1>2, <1>3 DEF StartInv

\* Data is taken (driver.cpp:130): the command byte, or a command for the mouse,
\* which then owes an answer.
LEMMA TakeDataKeeps == StartInv /\ TakeData => StartInv'
<1> SUFFICES ASSUME StartInv, TakeData, NEW k, k = LastWrite(upto) PROVE StartInv'
  OBVIOUS
<1>1. to_controller # Taken /\ to_controller' = Taken /\ TakenUpto' = upto
  <2>1. to_controller.port # Taken.port /\ to_controller' = Taken /\ upto' = upto
    BY DEF TakeData, Taken
  <2>. QED BY <2>1 DEF TakenUpto
<1>2. ASSUME ~gave_up
      PROVE  /\ upto \in 1 .. 10 /\ k \in {4, 6, 9}
             /\ upto = k \/ (upto = k + 1 /\ k \in {6, 9})
             /\ to_controller = Written(k) /\ TakenUpto = k - 1
  <2>1. /\ upto \in 1 .. 10 /\ k \in {1, 3, 4, 5, 6, 8, 9}
        /\ upto = k \/ (upto = k + 1 /\ k \in {1, 6, 9})
        /\ to_controller = Written(k) /\ TakenUpto = k - 1
    BY <1>1, <1>2, PendingStep
  <2>2. k \in DataSteps
    BY <2>1 DEF TakeData, Written, DoesAt, DataSteps, Commands
  <2>. QED BY <2>1, <2>2 DEF DataSteps
<1>3. StartTypeOK'
  <2>1. to_controller'.byte \in Byte
    BY <1>1 DEF Taken, Byte
  <2>2. config' \in Byte
    BY DEF StartInv, StartTypeOK, TakeData
  <2>3. owed' \in Nat
    <3>1. owed \in Nat /\ (owed' = owed \/ owed' = owed + 1)
      BY DEF StartInv, StartTypeOK, TakeData
    <3>. QED BY <3>1
  <2>. QED BY <2>1, <2>2, <2>3 DEF StartInv, StartTypeOK, TakeData
<1>4. ASSUME ~gave_up' PROVE (PendingInv /\ AwaitsInv /\ BytesInv /\ FirstByteInv /\ StatusInv)'
  <2>1. ~gave_up /\ upto' = upto /\ data_port' = data_port /\ strays' = strays
    BY <1>4 DEF TakeData
  <2>2. /\ upto \in 1 .. 10 /\ k \in {4, 6, 9}
        /\ upto = k \/ (upto = k + 1 /\ k \in {6, 9})
        /\ to_controller = Written(k) /\ TakenUpto = k - 1
    BY <1>2, <2>1
  <2>3. AwaitsInv /\ BytesInv /\ FirstByteInv /\ StatusInv
    BY <2>1 DEF StartInv
  <2>4. (k = 4 => awaits = "set status") /\ (k # 4 => awaits = "to the mouse")
    <3>1. TakenUpto = (IF k = 4 THEN 3 ELSE IF k = 6 THEN 5 ELSE 8)
      BY <2>2
    <3>. QED BY <2>2, <2>3, <3>1 DEF AwaitsInv
  <2>5. PendingInv'
    BY <1>1 DEF PendingInv
  <2>6. AwaitsInv'
    <3>1. TakenUpto' \notin {3, 5, 8}
      BY <1>1, <2>1, <2>2
    <3>2. awaits' = "none"
      BY DEF TakeData
    <3>. QED BY <3>1, <3>2 DEF AwaitsInv
  <2>7. Unread' = Unread /\ BytesRead' = BytesRead
    BY <2>1 DEF Unread, BytesRead
  <2>8. CASE k = 4
    <3>1. TakenUpto = 3 /\ TakenUpto' = 4 /\ upto = 4
      BY <1>1, <2>2, <2>8
    <3>2. config' = mouse_status /\ owed' = owed /\ mouse_status' = mouse_status
      BY <2>2, <2>4, <2>8 DEF TakeData, Written
    <3>3. first_config' = first_config
      BY DEF TakeData
    <3>4. Asked' = Asked
      BY <3>1 DEF Asked
    <3>5. BytesInv'
      BY <2>1, <2>3, <2>7, <3>2, <3>4 DEF BytesInv
    <3>6. FirstByteInv'
      BY <2>1, <2>3, <3>1, <3>2, <3>3 DEF FirstByteInv
    <3>7. StatusInv'
      BY <2>1, <2>3, <3>1, <3>2, <3>3 DEF StatusInv
    <3>. QED BY <2>5, <2>6, <3>5, <3>6, <3>7
  <2>9. CASE k # 4
    <3>1. /\ k \in {6, 9} /\ TakenUpto = k - 1 /\ TakenUpto' = upto /\ upto' = upto
          /\ upto \in {k, k + 1}
      BY <1>1, <2>1, <2>2, <2>9
    <3>2. config' = config /\ owed' = owed + 1 /\ streaming' = (to_controller.what = "stream")
      BY <2>4, <2>9 DEF TakeData
    <3>3. mouse_status' = mouse_status /\ first_config' = first_config
      BY DEF TakeData
    <3>4. Asked' = Asked + 1 /\ Asked \in Nat /\ BytesRead \in Nat /\ Unread \in Nat
      BY <3>1 DEF Asked, BytesRead, Unread
    <3>5. BytesInv'
      <4>1. owed \in Nat /\ strays \in Nat
        BY DEF StartInv, StartTypeOK
      <4>. QED BY <2>1, <2>3, <2>7, <3>2, <3>4, <4>1 DEF BytesInv
    <3>6. FirstByteInv'
      BY <3>1 DEF FirstByteInv
    <3>7. StatusInv'
      <4>1. k = 9 => streaming'
        <5>1. to_controller.what = WhatAt(k)
          BY <2>2 DEF Written
        <5>2. k = 9 => WhatAt(k) = "stream"
          BY DEF WhatAt
        <5>. QED BY <3>2, <5>1, <5>2
      <4>2. (TakenUpto >= 9)' => k = 9
        BY <3>1
      <4>3. ~(TakenUpto < 4) /\ ~(TakenUpto < 4)' /\ upto >= 2
        BY <3>1
      <4>4. config' = mouse_status'
        BY <2>3, <3>2, <3>3, <4>3 DEF StatusInv
      <4>. QED BY <2>1, <2>3, <3>3, <4>1, <4>2, <4>3, <4>4 DEF StatusInv
    <3>. QED BY <2>5, <2>6, <3>5, <3>6, <3>7
  <2>. QED BY <2>8, <2>9
<1>. QED BY <1>3, <1>4 DEF StartInv

\* An answer comes, or a byte of the keyboard: what the controller has taken
\* and the driver has done stays.
LEMMA SendKeeps ==
  ASSUME StartInv, NEW source \in {"mouse", "keyboard"}, NEW byte \in Byte,
         Send(source, byte),
         \/ source = "mouse" /\ owed > 0 /\ owed' = owed - 1 /\ scan_codes' = scan_codes
         \/ source = "keyboard" /\ owed' = owed /\ scan_codes' = scan_codes + 1,
         UNCHANGED <<upto, mouse_status, to_controller, awaits, config, first_config, streaming,
                     strays, gave_up>>
  PROVE  StartInv'
<1>1. /\ data_port.from = "nobody"
      /\ data_port'.from = source
      /\ data_port' \in [from : {"nobody", "controller", "mouse", "keyboard"}, byte : Byte]
  BY DEF Send
<1>2. owed \in Nat /\ owed' \in Nat /\ scan_codes' \in Nat /\ strays \in Nat /\ upto \in 0 .. 10
  BY DEF StartInv, StartTypeOK
<1>3. StartTypeOK'
  BY <1>1, <1>2 DEF StartInv, StartTypeOK
<1>4. ASSUME ~gave_up' PROVE (PendingInv /\ AwaitsInv /\ BytesInv /\ FirstByteInv /\ StatusInv)'
  <2>1. PendingInv /\ AwaitsInv /\ BytesInv /\ FirstByteInv /\ StatusInv
    BY <1>4 DEF StartInv
  <2>2. TakenUpto' = TakenUpto /\ Asked' = Asked /\ BytesRead' = BytesRead
    BY DEF TakenUpto, Asked, BytesRead
  <2>3. PendingInv'
    BY <2>1 DEF PendingInv, Written
  <2>4. AwaitsInv' /\ StatusInv'
    BY <2>1, <2>2 DEF AwaitsInv, StatusInv
  <2>5. BytesInv'
    <3>1. Unread = 0 /\ Unread' = IF source = "mouse" THEN 1 ELSE 0
      BY <1>1 DEF Unread
    <3>2. Asked \in Nat /\ BytesRead \in Nat
      BY DEF Asked, BytesRead
    <3>3. owed' + Unread' = owed + Unread
      <4>1. CASE source = "mouse"
        BY <1>2, <3>1, <4>1
      <4>2. CASE source = "keyboard"
        BY <1>2, <3>1, <4>2
      <4>. QED BY <4>1, <4>2
    <3>. QED BY <1>2, <2>1, <2>2, <3>1, <3>2, <3>3 DEF BytesInv
  <2>6. FirstByteInv'
    <3>1. source = "mouse" => TakenUpto >= 6
      <4>1. TakenUpto \in Int
        BY <1>2 DEF TakenUpto, LastWrite
      <4>. QED BY <1>2, <2>1, <4>1 DEF FirstByteInv
    <3>2. source = "mouse" => upto >= 6
      <4>1. TakenUpto <= upto
        BY <1>2 DEF TakenUpto, LastWrite
      <4>2. TakenUpto \in Int
        BY <1>2 DEF TakenUpto, LastWrite
      <4>. QED BY <1>2, <3>1, <4>1, <4>2
    <3>3. owed = 0 => owed' = 0
      BY <1>2
    <3>. QED BY <1>1, <1>2, <2>1, <2>2, <3>2, <3>3 DEF FirstByteInv
  <2>. QED BY <2>3, <2>4, <2>5, <2>6
<1>. QED BY <1>3, <1>4 DEF StartInv

\* Every step keeps the invariant.
LEMMA StepKeeps == StartInv /\ [MouseStartNext]_mouse_start_vars => StartInv'
<1> SUFFICES ASSUME StartInv, [MouseStartNext]_mouse_start_vars PROVE StartInv'
  OBVIOUS
<1>1. CASE WritePort
  BY <1>1, WritePortKeeps
<1>2. CASE read_data_port
  BY <1>2, ReadPortKeeps
<1>3. CASE TakeCommand
  BY <1>3, TakeCommandKeeps
<1>4. CASE TakeData
  BY <1>4, TakeDataKeeps
<1>5. CASE MouseAnswers
  <2>1. ACK \in Byte
    BY DEF ACK, Byte
  <2>. QED BY <1>5, <2>1, SendKeeps DEF MouseAnswers
<1>6. CASE KeyboardSends
  <2>1. PICK code \in ScanCodes : Send("keyboard", code)
    BY <1>6 DEF KeyboardSends
  <2>2. code \in Byte
    BY MouseStartAssumption DEF MouseStartAssumption
  <2>. QED BY <1>6, <2>1, <2>2, SendKeeps DEF KeyboardSends
<1>7. CASE UNCHANGED mouse_start_vars
  <2>1. StartTypeOK'
    BY <1>7 DEF mouse_start_vars, StartInv, StartTypeOK
  <2>2. TakenUpto' = TakenUpto /\ Asked' = Asked /\ BytesRead' = BytesRead /\ Unread' = Unread
    BY <1>7 DEF mouse_start_vars, TakenUpto, Asked, BytesRead, Unread
  <2>3. ~gave_up => PendingInv' /\ AwaitsInv' /\ BytesInv' /\ FirstByteInv' /\ StatusInv'
    BY <1>7, <2>2 DEF mouse_start_vars, StartInv, PendingInv, Written, AwaitsInv, BytesInv,
                      FirstByteInv, StatusInv
  <2>. QED BY <1>7, <2>1, <2>3 DEF mouse_start_vars, StartInv
<1>. QED BY <1>1, <1>2, <1>3, <1>4, <1>5, <1>6, <1>7 DEF MouseStartNext

\* At the end everything is taken, three bytes were asked for and three read.
LEMMA StartedAtTheEnd == StartInv => MouseStarted
<1> SUFFICES ASSUME StartInv, upto = 10, to_controller = Taken, ~gave_up
             PROVE  /\ streaming
                    /\ AUX_INTERRUPT \in config
                    /\ AUX_DISABLED \notin config
                    /\ owed + Unread = strays
                    /\ strays = 0 => config = (first_config \cup {AUX_INTERRUPT}) \ {AUX_DISABLED}
  BY StepsOf DEF MouseStarted, Unread
<1>1. TakenUpto = 10
  BY DEF TakenUpto
<1>2. BytesInv /\ StatusInv
  BY DEF StartInv
<1>3. Asked = 3 /\ BytesRead = 3
  BY <1>1 DEF Asked, BytesRead
<1>4. owed \in Nat /\ strays \in Nat /\ Unread \in Nat
  BY DEF StartInv, StartTypeOK, Unread
<1>5. owed + Unread = strays
  BY <1>2, <1>3, <1>4 DEF BytesInv
<1>6. streaming /\ config = mouse_status
  BY <1>1, <1>2 DEF StatusInv
<1>. QED BY <1>2, <1>5, <1>6 DEF StatusInv

\* After initialize_mouse (driver.cpp:179) the mouse streams and may interrupt,
\* and as many bytes stay behind as the keyboard's were taken for others,
\* whatever the keyboard sends, and however often.
THEOREM MouseHasStarted == MouseStartSpec => []MouseStarted
<1>1. MouseStartInit => StartInv
  BY InitStart
<1>2. StartInv /\ [MouseStartNext]_mouse_start_vars => StartInv'
  BY StepKeeps
<1>3. StartInv => MouseStarted
  BY StartedAtTheEnd
<1>. QED BY <1>1, <1>2, <1>3, PTL DEF MouseStartSpec

-----------------------------------------------------------------------------
(***************************************************************************)
(* The locks.                                                              *)
(***************************************************************************)
\* What thread i did not find active since it became active itself.
Passed(i, j) ==
  /\ flags[i] = "ACTIVE"
  /\ \/ pc[i] = "others" /\ index[i] > j
     \/ pc[i] \in {"mine", "whose", "idle"} \/ InSection(i)

SectionInv ==
  /\ SectionTypeOK
  /\ \A i \in Indices : pc[i] \in {"others", "mine", "whose", "idle", "again"} \/ InSection(i)
                          => flags[i] = "ACTIVE"
  /\ \A i \in Indices : pc[i] \in {"scan", "search", "pass"} => index[i] \in Indices
  /\ \A i \in Indices : pc[i] = "idle" => index[i] \in Indices
  /\ \A i, j \in Indices : i # j => ~(Passed(i, j) /\ Passed(j, i))

LEMMA NextInRange == ASSUME NEW i \in Indices PROVE next(i) \in Indices
<1>1. PICK x \in Nat : x = i + 1
  BY SectionAssumption DEF Indices
<1>2. \A n \in Nat \ {0} : x % n \in 0 .. n - 1
  BY SMT
<1> QED
  BY <1>1, <1>2, SectionAssumption DEF next, Indices

LEMMA SectionInitInv == ASSUME SectionInit PROVE SectionInv
BY SectionAssumption
   DEF SectionInit, SectionInv, SectionTypeOK, InSection, Passed, Indices

LEMMA SectionStepKeepsType ==
  ASSUME SectionInv, NEW i \in Indices, SectionStep(i)
  PROVE  /\ SectionTypeOK'
         /\ \A j \in Indices : pc'[j] \in {"scan", "search", "pass", "idle"} => index'[j] \in Indices
<1> USE DEF SectionInv, SectionTypeOK, Go, Index, Flag
<1>0. next(i) \in Indices /\ next(activeIndex) \in Indices
      /\ (index[i] \in Indices => next(index[i]) \in Indices)
  BY NextInRange
<1>1. Indices \subseteq 0 .. MAX_CONCURRENT /\ 0 \in 0 .. MAX_CONCURRENT
      /\ Indices = 0 .. MAX_CONCURRENT - 1 /\ MAX_CONCURRENT \in Nat
  BY SectionAssumption DEF Indices
<1>a. CASE Announce(i)
  BY <1>a DEF Announce
<1>b. CASE LoadActive(i)
  BY <1>b, <1>1 DEF LoadActive
<1>c. CASE Scan(i)
  <2>1. index[i] \in Indices /\ next(index[i]) \in 0 .. MAX_CONCURRENT
    BY <1>c, <1>0, <1>1 DEF Scan
  <2>2. CASE flags[index[i]] # "IDLE"
    BY <1>c, <2>2 DEF Scan
  <2>3. CASE flags[index[i]] = "IDLE"
    BY <1>c, <1>0, <2>1, <2>3 DEF Scan
  <2> QED
    BY <2>2, <2>3
<1>d. CASE Claim(i)
  BY <1>d, <1>1 DEF Claim
<1>e. CASE FindActive(i)
  <2>1. CASE index[i] < MAX_CONCURRENT /\ (index[i] = i \/ flags[index[i]] # "ACTIVE")
    <3>1. index[i] + 1 \in 0 .. MAX_CONCURRENT
      BY <1>1, <2>1
    <3> QED
      BY <1>e, <2>1, <3>1 DEF FindActive
  <2>2. CASE ~(index[i] < MAX_CONCURRENT /\ (index[i] = i \/ flags[index[i]] # "ACTIVE"))
    <3>1. /\ index' = index /\ flags' = flags /\ activeIndex' = activeIndex
          /\ pc' = [pc EXCEPT ![i] = "again"] \/ pc' = [pc EXCEPT ![i] = "mine"]
      BY <1>e, <2>2 DEF FindActive
    <3> QED
      BY <3>1
  <2> QED
    BY <2>1, <2>2
<1>f. CASE IsMine(i)
  BY <1>f DEF IsMine
<1>g. CASE Whose(i)
  BY <1>g, <1>1 DEF Whose
<1>h. CASE IsIdle(i)
  BY <1>h DEF IsIdle
<1>i. CASE Entered(i)
  BY <1>i DEF Entered
<1>j. CASE BeginLeave(i)
  BY <1>j, <1>0, <1>1 DEF BeginLeave
<1>k. CASE Search(i)
  <2>1. index[i] \in Indices /\ next(index[i]) \in 0 .. MAX_CONCURRENT
    BY <1>k, <1>0, <1>1 DEF Search
  <2>2. CASE flags[index[i]] # "IDLE"
    BY <1>k, <2>2 DEF Search
  <2>3. CASE flags[index[i]] = "IDLE"
    BY <1>k, <1>0, <2>1, <2>3 DEF Search
  <2> QED
    BY <2>2, <2>3
<1>l. CASE Pass(i)
  BY <1>l DEF Pass
<1>m. CASE EndLeave(i)
  BY <1>m DEF EndLeave
<1> QED
  BY <1>a, <1>b, <1>c, <1>d, <1>e, <1>f, <1>g, <1>h, <1>i, <1>j, <1>k, <1>l, <1>m
     DEF SectionStep

\* Thread i passes only those that are not active, and nobody passed it since
\* it became active.
LEMMA SectionStepPasses ==
  ASSUME SectionInv, NEW i \in Indices, SectionStep(i), NEW j \in Indices, i # j
  PROVE  /\ pc'[j] = pc[j] /\ index'[j] = index[j] /\ flags'[j] = flags[j]
         /\ Passed(i, j)' => Passed(i, j) \/ flags[j] # "ACTIVE"
         /\ pc'[i] \in {"others", "mine", "whose", "idle", "again"} \/ InSection(i)'
              => flags'[i] = "ACTIVE"
<1> USE DEF SectionInv, SectionTypeOK, Go, Index, Flag, Passed, InSection
<1>1. Indices = 0 .. MAX_CONCURRENT - 1 /\ MAX_CONCURRENT \in Nat
  BY SectionAssumption DEF Indices
<1>a. CASE Announce(i)
  BY <1>a DEF Announce
<1>b. CASE LoadActive(i)
  BY <1>b DEF LoadActive
<1>c. CASE Scan(i)
  BY <1>c DEF Scan
<1>d. CASE Claim(i)
  BY <1>d, <1>1 DEF Claim
<1>e. CASE FindActive(i)
  <2>0. index[i] \in 0 .. MAX_CONCURRENT /\ flags[i] = "ACTIVE" /\ j \in 0 .. MAX_CONCURRENT - 1
    BY <1>e, <1>1 DEF FindActive
  <2>1. CASE index[i] < MAX_CONCURRENT /\ (index[i] = i \/ flags[index[i]] # "ACTIVE")
    <3>1. index'[i] = index[i] + 1 /\ pc' = pc /\ flags' = flags
          /\ \A k \in Indices : k # i => index'[k] = index[k]
      BY <1>e, <2>1 DEF FindActive
    <3>2. index[i] + 1 > j => index[i] > j \/ index[i] = j
      BY <1>1, <2>0
    <3> QED
      BY <1>e, <2>0, <2>1, <3>1, <3>2 DEF FindActive
  <2>2. CASE ~(index[i] < MAX_CONCURRENT /\ (index[i] = i \/ flags[index[i]] # "ACTIVE"))
    <3>1. index' = index /\ flags' = flags /\ pc[i] = "others"
          /\ pc' = [pc EXCEPT ![i] = IF index[i] < MAX_CONCURRENT THEN "again" ELSE "mine"]
      BY <1>e, <2>2 DEF FindActive
    <3>2. ~(index[i] < MAX_CONCURRENT) => index[i] > j
      BY <1>1, <2>0
    <3> QED
      BY <2>0, <3>1, <3>2
  <2> QED
    BY <2>1, <2>2
<1>f. CASE IsMine(i)
  BY <1>f DEF IsMine
<1>g. CASE Whose(i)
  BY <1>g DEF Whose
<1>h. CASE IsIdle(i)
  BY <1>h DEF IsIdle
<1>i. CASE Entered(i)
  BY <1>i DEF Entered
<1>j. CASE BeginLeave(i)
  BY <1>j DEF BeginLeave
<1>k. CASE Search(i)
  BY <1>k DEF Search
<1>l. CASE Pass(i)
  BY <1>l DEF Pass
<1>m. CASE EndLeave(i)
  BY <1>m DEF EndLeave
<1> QED
  BY <1>a, <1>b, <1>c, <1>d, <1>e, <1>f, <1>g, <1>h, <1>i, <1>j, <1>k, <1>l, <1>m
     DEF SectionStep

LEMMA SectionInvInductive ==
  ASSUME SectionInv, [SectionNext]_section_vars
  PROVE  SectionInv'
<1>1. CASE UNCHANGED section_vars
  BY <1>1 DEF section_vars, SectionInv, SectionTypeOK, Passed, InSection
<1>2. ASSUME NEW i \in Indices, SectionStep(i)
      PROVE  SectionInv'
  <2>1. /\ SectionTypeOK'
        /\ \A j \in Indices : pc'[j] \in {"scan", "search", "pass", "idle"} => index'[j] \in Indices
    BY <1>2, SectionStepKeepsType
  <2>2. \A j \in Indices : j # i =>
          /\ pc'[j] = pc[j] /\ index'[j] = index[j] /\ flags'[j] = flags[j]
          /\ Passed(i, j)' => Passed(i, j) \/ flags[j] # "ACTIVE"
    BY <1>2, SectionStepPasses
  <2>3. pc'[i] \in {"others", "mine", "whose", "idle", "again"} \/ InSection(i)'
          => flags'[i] = "ACTIVE"
    <3>1. CASE Indices = {i}
      BY <1>2, <3>1 DEF SectionInv, SectionTypeOK, Go, Index, Flag, InSection, SectionStep,
           Announce, LoadActive, Scan, Claim, FindActive, IsMine, Whose, IsIdle, Entered,
           BeginLeave, Search, Pass, EndLeave
    <3>2. CASE \E j \in Indices : j # i
      BY <1>2, <3>2, SectionStepPasses
    <3> QED
      BY <3>1, <3>2
  <2>4. \A k \in Indices : pc'[k] \in {"others", "mine", "whose", "idle", "again"} \/ InSection(k)'
                          => flags'[k] = "ACTIVE"
    BY <2>2, <2>3 DEF SectionInv, InSection
  <2>5. ASSUME NEW k \in Indices, NEW j \in Indices, k # j, Passed(k, j)', Passed(j, k)'
        PROVE  FALSE
    <3>1. \A a \in Indices : a # i => \A b \in Indices : Passed(a, b)' <=> Passed(a, b)
      BY <2>2 DEF Passed, InSection
    <3>2. \A a, b \in Indices : a # b => ~(Passed(a, b) /\ Passed(b, a))
      BY DEF SectionInv
    <3>3. \A a, b \in Indices : Passed(a, b) => flags[a] = "ACTIVE"
      BY DEF Passed
    <3> QED
      BY <2>2, <2>5, <3>1, <3>2, <3>3
  <2> QED
    BY <2>1, <2>4, <2>5 DEF SectionInv
<1> QED
  BY <1>1, <1>2 DEF SectionNext

\* Never are two threads inside the critical section, for every number of
\* threads that may call Enter (resources.h:649).
THEOREM CriticalSectionExcludes == SectionSpec => []MutualExclusion
<1>1. SectionInit => SectionInv
  BY SectionInitInv
<1>2. SectionInv /\ [SectionNext]_section_vars => SectionInv'
  BY SectionInvInductive
<1>3. SectionInv => MutualExclusion
  BY DEF SectionInv, MutualExclusion, Passed
<1> QED
  BY <1>1, <1>2, <1>3, PTL DEF SectionSpec

-----------------------------------------------------------------------------
(***************************************************************************)
(* The ticket lock.                                                        *)
(***************************************************************************)
\* The remainder of a number below two times the divisor.
LEMMA SmallRemainder ==
  ASSUME NEW n \in Nat \ {0}, NEW a \in Nat, a < n + n
  PROVE  a % n = IF a < n THEN a ELSE a - n
BY SMT

\* The remainder is in range.
LEMMA RemainderInRange ==
  ASSUME NEW n \in Nat \ {0}, NEW a \in Nat
  PROVE  a % n \in 0 .. n - 1
BY SMT

\* A remainder may be taken before or after adding.
LEMMA RemainderOfSum ==
  ASSUME NEW n \in Nat \ {0}, NEW a \in Nat, NEW k \in Nat, a + k < n + n
  PROVE  ((a % n) + k) % n = (a + k) % n
<1>1. (a + k) % n = IF a + k < n THEN a + k ELSE a + k - n
  <2>1. PICK x \in Nat : x = a + k
    OBVIOUS
  <2>2. x % n = IF x < n THEN x ELSE x - n
    BY <2>1, SmallRemainder
  <2> QED
    BY <2>1, <2>2
<1>2. CASE a < n
  <2>1. a % n = a
    BY <1>2, SmallRemainder
  <2> QED
    BY <2>1
<1>3. CASE ~(a < n)
  <2>1. a % n = a - n
    <3>1. a < n + n
      OBVIOUS
    <3> QED
      BY <1>3, <3>1, SmallRemainder
  <2>2. a - n + k \in Nat /\ a - n + k < n
    BY <1>3
  <2>3. (a - n + k) % n = a - n + k
    <3>1. PICK x \in Nat : x = a - n + k
      BY <2>2
    <3>2. x < n /\ x < n + n
      BY <2>2, <3>1
    <3>3. x % n = x
      BY <3>2, SmallRemainder
    <3> QED
      BY <3>1, <3>3
  <2> QED
    BY <1>1, <1>3, <2>1, <2>3
<1> QED
  BY <1>2, <1>3

\* A line in which no thread stands twice is no longer than the tickets last.
LEMMA LineBound ==
  ASSUME NEW s \in Seq(Threads),
         \A i, j \in 1 .. Len(s) : s[i] = s[j] => i = j
  PROVE  Len(s) <= Tickets
<1>1. Len(s) \in Nat
  OBVIOUS
<1>2. s \in Injection(1 .. Len(s), Threads)
  <2>1. s \in [1 .. Len(s) -> Threads]
    OBVIOUS
  <2> QED
    BY <2>1 DEF Injection, IsInjective
<1>3. Cardinality(1 .. Len(s)) <= Cardinality(Threads)
  BY <1>2, FS_Injection, TicketAssumption
<1>4. Cardinality(1 .. Len(s)) = Len(s)
  <2>1. Cardinality(1 .. Len(s)) = IF 1 > Len(s) THEN 0 ELSE Len(s) - 1 + 1
    BY <1>1, FS_Interval
  <2> QED
    BY <1>1, <2>1
<1>5. Cardinality(Threads) \in Nat
  BY FS_CardinalityType, TicketAssumption
<1> QED
  BY <1>1, <1>3, <1>4, <1>5, TicketAssumption

-----------------------------------------------------------------------------
TicketInv == TicketTypeOK /\ LineInOrder

\* The thread inside is the first in line, and the next one inside.
LEMMA OnlyFirstInside ==
  ASSUME TicketInv, NEW t \in Threads, at[t] = "in"
  PROVE  /\ line # <<>> /\ line[1] = t /\ Len(line) >= 1
         /\ Inside = {line[1]}
<1>1. PICK i \in 1 .. Len(line) : line[i] = t
  BY DEF TicketInv, LineInOrder
<1>2. i = 1
  BY <1>1 DEF TicketInv, LineInOrder
<1>3. line \in Seq(Threads)
  BY DEF TicketInv, TicketTypeOK
<1>4. line # <<>> /\ line[1] = t /\ Len(line) >= 1
  BY <1>1, <1>2, <1>3
<1>5. \A u \in Threads : at[u] = "in" => u = t
  BY <1>4 DEF TicketInv, LineInOrder
<1> QED
  BY <1>4, <1>5 DEF Inside

\* The thread whose ticket is served is the first in line, and nobody is inside.
LEMMA ServedIsFirst ==
  ASSUME TicketInv, NEW t \in Threads, at[t] = "spin", now_serving = my_ticket[t]
  PROVE  line # <<>> /\ line[1] = t /\ Len(line) >= 1 /\ Inside = {}
<1>0. /\ line \in Seq(Threads) /\ Len(line) \in Nat
      /\ now_serving \in 0 .. Tickets - 1 /\ Tickets \in Nat \ {0}
  BY TicketAssumption DEF TicketInv, TicketTypeOK
<1>1. PICK i \in 1 .. Len(line) : line[i] = t
  BY DEF TicketInv, LineInOrder
<1>2. Len(line) <= Tickets
  BY <1>0, LineBound DEF TicketInv, LineInOrder
<1>3. (now_serving + i - 1) % Tickets = now_serving
  BY <1>1 DEF TicketInv, LineInOrder
<1>4. now_serving + i - 1 \in Nat /\ now_serving + i - 1 < Tickets + Tickets
  BY <1>0, <1>1, <1>2
<1>5. i = 1
  <2>1. (now_serving + i - 1) % Tickets
          = IF now_serving + i - 1 < Tickets THEN now_serving + i - 1
            ELSE now_serving + i - 1 - Tickets
    <3>1. PICK x \in Nat : x = now_serving + i - 1
      BY <1>4
    <3>2. x < Tickets + Tickets
      BY <1>4, <3>1
    <3>3. x % Tickets = IF x < Tickets THEN x ELSE x - Tickets
      BY <1>0, <3>2, SmallRemainder
    <3> QED
      BY <1>0, <3>1, <3>3
  <2> QED
    BY <1>0, <1>1, <1>2, <1>3, <2>1
<1>6. line # <<>> /\ line[1] = t /\ Len(line) >= 1
  BY <1>0, <1>1, <1>5
<1>7. \A u \in Threads : at[u] # "in"
  BY <1>6, OnlyFirstInside
<1> QED
  BY <1>6, <1>7 DEF Inside

-----------------------------------------------------------------------------
LEMMA DrawKeepsInv ==
  ASSUME TicketInv, NEW t \in Threads, Draw(t)
  PROVE  TicketInv'
<1>0. /\ line \in Seq(Threads) /\ Len(line) \in Nat
      /\ now_serving \in 0 .. Tickets - 1 /\ Tickets \in Nat \ {0}
      /\ next_ticket \in 0 .. Tickets - 1
  BY TicketAssumption DEF TicketInv, TicketTypeOK
<1>1. /\ line' \in Seq(Threads)
      /\ Len(line') = Len(line) + 1
      /\ \A i \in 1 .. Len(line) : line'[i] = line[i]
      /\ line'[Len(line) + 1] = t
  BY <1>0, AppendProperties DEF Draw
<1>2. \A i \in 1 .. Len(line) : line[i] # t
  BY DEF TicketInv, LineInOrder, Draw
<1>3. \A i, j \in 1 .. Len(line') : line'[i] = line'[j] => i = j
  <2>1. \A i, j \in 1 .. Len(line) : line[i] = line[j] => i = j
    BY DEF TicketInv, LineInOrder
  <2> QED
    BY <1>0, <1>1, <1>2, <2>1
<1>4. Len(line) + 1 <= Tickets
  BY <1>1, <1>3, LineBound
<1>5. TicketTypeOK'
  <2>1. next_ticket' \in 0 .. Tickets - 1
    <3>1. PICK x \in Nat : x = next_ticket + 1
      BY <1>0
    <3> QED
      BY <1>0, <3>1, RemainderInRange DEF Draw
  <2> QED
    BY <1>1, <2>1 DEF Draw, TicketInv, TicketTypeOK
<1>6. \A u \in Threads : at'[u] # "out" <=> \E i \in 1 .. Len(line') : line'[i] = u
  <2>1. \A u \in Threads : at[u] # "out" <=> \E i \in 1 .. Len(line) : line[i] = u
    BY DEF TicketInv, LineInOrder
  <2>2. at' = [at EXCEPT ![t] = "spin"] /\ at \in [Threads -> {"out", "spin", "in"}]
    BY DEF Draw, TicketInv, TicketTypeOK
  <2> QED
    BY <1>0, <1>1, <2>1, <2>2, SMTT(30)
<1>7. \A i \in 1 .. Len(line') : my_ticket'[line'[i]] = (now_serving' + i - 1) % Tickets
  <2>1. my_ticket' = [my_ticket EXCEPT ![t] = next_ticket] /\ now_serving' = now_serving
        /\ my_ticket \in [Threads -> 0 .. Tickets - 1]
    BY DEF Draw, TicketInv, TicketTypeOK
  <2>2. next_ticket = (now_serving + Len(line)) % Tickets
    BY DEF TicketInv, LineInOrder
  <2>3. \A i \in 1 .. Len(line) : my_ticket[line[i]] = (now_serving + i - 1) % Tickets
    BY DEF TicketInv, LineInOrder
  <2>4. ASSUME NEW i \in 1 .. Len(line')
        PROVE  my_ticket'[line'[i]] = (now_serving' + i - 1) % Tickets
    <3>1. CASE i = Len(line) + 1
      <4>1. now_serving + i - 1 = now_serving + Len(line)
        BY <1>0, <3>1
      <4> QED
        BY <1>1, <2>1, <2>2, <3>1, <4>1
    <3>2. CASE i \in 1 .. Len(line)
      <4>1. line'[i] = line[i] /\ line[i] \in Threads /\ line[i] # t
        BY <1>0, <1>1, <1>2, <3>2
      <4>2. my_ticket'[line'[i]] = my_ticket[line[i]]
        BY <2>1, <4>1
      <4>3. now_serving' + i - 1 = now_serving + i - 1
        BY <2>1
      <4> QED
        BY <2>3, <3>2, <4>2, <4>3
    <3> QED
      BY <1>0, <1>1, <3>1, <3>2
  <2> QED
    BY <2>4
<1>8. next_ticket' = (now_serving' + Len(line')) % Tickets
  <2>1. next_ticket = (now_serving + Len(line)) % Tickets
    BY DEF TicketInv, LineInOrder
  <2>2. PICK x \in Nat : x = now_serving + Len(line)
    BY <1>0
  <2>3. ((x % Tickets) + 1) % Tickets = (x + 1) % Tickets
    <3>1. x + 1 < Tickets + Tickets
      BY <1>0, <1>4, <2>2
    <3>2. PICK k \in Nat : k = 1
      OBVIOUS
    <3>3. ((x % Tickets) + k) % Tickets = (x + k) % Tickets
      BY <1>0, <3>1, <3>2, RemainderOfSum
    <3> QED
      BY <3>2, <3>3
  <2>4. x + 1 = now_serving' + Len(line')
    BY <1>0, <1>1, <2>2 DEF Draw
  <2> QED
    BY <1>0, <2>1, <2>2, <2>3, <2>4 DEF Draw
<1>9. \A i \in 1 .. Len(line') : at'[line'[i]] = "in" => i = 1
  <2>1. \A i \in 1 .. Len(line) : at[line[i]] = "in" => i = 1
    BY DEF TicketInv, LineInOrder
  <2>2. at' = [at EXCEPT ![t] = "spin"] /\ at \in [Threads -> {"out", "spin", "in"}]
    BY DEF Draw, TicketInv, TicketTypeOK
  <2> QED
    BY <1>0, <1>1, <1>2, <2>1, <2>2
<1> QED
  BY <1>3, <1>5, <1>6, <1>7, <1>8, <1>9 DEF TicketInv, LineInOrder

LEMMA ServedKeepsInv ==
  ASSUME TicketInv, NEW t \in Threads, Served(t)
  PROVE  TicketInv'
<1>1. line[1] = t /\ Len(line) >= 1 /\ line \in Seq(Threads)
  BY ServedIsFirst DEF Served, TicketInv, TicketTypeOK
<1>2. at' = [at EXCEPT ![t] = "in"] /\ at \in [Threads -> {"out", "spin", "in"}]
      /\ at[t] = "spin"
  BY DEF Served, TicketInv, TicketTypeOK
<1>3. UNCHANGED <<next_ticket, now_serving, my_ticket, line>>
  BY DEF Served
<1>4. TicketTypeOK'
  BY <1>2, <1>3 DEF TicketInv, TicketTypeOK
<1>5. \A u \in Threads : at'[u] # "out" <=> \E i \in 1 .. Len(line') : line'[i] = u
  BY <1>2, <1>3 DEF TicketInv, LineInOrder
<1>6. \A i \in 1 .. Len(line') : at'[line'[i]] = "in" => i = 1
  BY <1>1, <1>2, <1>3 DEF TicketInv, LineInOrder
<1> QED
  BY <1>3, <1>4, <1>5, <1>6 DEF TicketInv, LineInOrder

LEMMA UnLockKeepsInv ==
  ASSUME TicketInv, NEW t \in Threads, UnLock(t)
  PROVE  TicketInv'
<1>0. /\ line \in Seq(Threads) /\ Len(line) \in Nat
      /\ now_serving \in 0 .. Tickets - 1 /\ Tickets \in Nat \ {0}
  BY TicketAssumption DEF TicketInv, TicketTypeOK
<1>1. line # <<>> /\ line[1] = t /\ Len(line) >= 1
  BY OnlyFirstInside DEF UnLock
<1>2. /\ line' \in Seq(Threads)
      /\ Len(line') = Len(line) - 1
      /\ \A i \in 1 .. Len(line') : line'[i] = line[i + 1]
  BY <1>0, <1>1, HeadTailProperties DEF UnLock
<1>3. at' = [at EXCEPT ![t] = "out"] /\ at \in [Threads -> {"out", "spin", "in"}]
  BY DEF UnLock, TicketInv, TicketTypeOK
<1>4. Len(line) <= Tickets
  BY <1>0, LineBound DEF TicketInv, LineInOrder
<1>5. TicketTypeOK'
  <2>1. now_serving' \in 0 .. Tickets - 1
    <3>1. PICK x \in Nat : x = now_serving + 1
      BY <1>0
    <3> QED
      BY <1>0, <3>1, RemainderInRange DEF UnLock
  <2> QED
    BY <1>2, <1>3, <2>1 DEF UnLock, TicketInv, TicketTypeOK
<1>6. \A i, j \in 1 .. Len(line) : line[i] = line[j] => i = j
  BY DEF TicketInv, LineInOrder
<1>7. \A i, j \in 1 .. Len(line') : line'[i] = line'[j] => i = j
  BY <1>0, <1>2, <1>6
<1>8. \A u \in Threads : at'[u] # "out" <=> \E i \in 1 .. Len(line') : line'[i] = u
  <2>1. \A u \in Threads : at[u] # "out" <=> \E i \in 1 .. Len(line) : line[i] = u
    BY DEF TicketInv, LineInOrder
  <2>2. ASSUME NEW u \in Threads, at'[u] # "out"
        PROVE  \E i \in 1 .. Len(line') : line'[i] = u
    <3>1. PICK i \in 1 .. Len(line) : line[i] = u
      BY <1>3, <2>1, <2>2
    <3>2. i # 1
      BY <1>1, <1>3, <2>2, <3>1
    <3>3. i - 1 \in 1 .. Len(line') /\ line'[i - 1] = line[i - 1 + 1]
      BY <1>0, <1>2, <3>2
    <3> QED
      BY <3>1, <3>3
  <2>3. ASSUME NEW i \in 1 .. Len(line')
        PROVE  at'[line'[i]] # "out"
    <3>1. i + 1 \in 1 .. Len(line) /\ line'[i] = line[i + 1] /\ i + 1 # 1
      BY <1>0, <1>2
    <3>2. line[i + 1] # t /\ line[i + 1] \in Threads
      BY <1>0, <1>1, <1>6, <3>1
    <3> QED
      BY <1>3, <2>1, <3>1, <3>2
  <2> QED
    BY <2>2, <2>3
<1>9. \A i \in 1 .. Len(line') : my_ticket'[line'[i]] = (now_serving' + i - 1) % Tickets
  <2>1. \A i \in 1 .. Len(line) : my_ticket[line[i]] = (now_serving + i - 1) % Tickets
    BY DEF TicketInv, LineInOrder
  <2>2. ASSUME NEW i \in 1 .. Len(line')
        PROVE  my_ticket'[line'[i]] = (now_serving' + i - 1) % Tickets
    <3>0. PICK k \in Nat : k = i - 1
      BY <1>0, <1>2
    <3>1. PICK x \in Nat : x = now_serving + 1 /\ k = i - 1
      BY <1>0, <3>0
    <3>2. ((x % Tickets) + k) % Tickets = (x + k) % Tickets
      <4>1. x + k < Tickets + Tickets
        BY <1>0, <1>2, <1>4, <3>1
      <4> QED
        BY <1>0, <4>1, RemainderOfSum
    <3>3. i + 1 \in 1 .. Len(line) /\ line'[i] = line[i + 1]
      BY <1>0, <1>2, SMTT(30)
    <3>4. x + k = now_serving + (i + 1) - 1
      BY <1>0, <1>2, <3>1
    <3>5. now_serving' = x % Tickets /\ my_ticket' = my_ticket
      BY <1>0, <3>1 DEF UnLock
    <3>6. now_serving' + i - 1 = (x % Tickets) + k
      <4>1. now_serving' \in 0 .. Tickets - 1
        BY <1>5 DEF TicketTypeOK
      <4> QED
        BY <1>0, <3>1, <3>5, <4>1
    <3> QED
      BY <2>1, <3>2, <3>3, <3>4, <3>5, <3>6
  <2> QED
    BY <2>2
<1>10. next_ticket' = (now_serving' + Len(line')) % Tickets
  <2>0. PICK k \in Nat : k = Len(line')
    BY <1>0, <1>1, <1>2
  <2>1. PICK x \in Nat : x = now_serving + 1 /\ k = Len(line')
    BY <1>0, <2>0
  <2>2. ((x % Tickets) + k) % Tickets = (x + k) % Tickets
    <3>1. x + k < Tickets + Tickets
      BY <1>0, <1>2, <1>4, <2>1
    <3> QED
      BY <1>0, <3>1, RemainderOfSum
  <2>3. x + k = now_serving + Len(line)
    BY <1>0, <1>2, <2>1
  <2>4. now_serving' = x % Tickets /\ next_ticket' = next_ticket
    BY <1>0, <2>1 DEF UnLock
  <2> QED
    BY <2>1, <2>2, <2>3, <2>4 DEF TicketInv, LineInOrder
<1>11. \A i \in 1 .. Len(line') : at'[line'[i]] = "in" => i = 1
  <2>1. ASSUME NEW i \in 1 .. Len(line'), at'[line'[i]] = "in"
        PROVE  FALSE
    <3>1. i + 1 \in 1 .. Len(line) /\ line'[i] = line[i + 1] /\ i + 1 # 1
      BY <1>0, <1>2
    <3>2. line[i + 1] \in Threads
      BY <1>0, <3>1
    <3>3. at[line[i + 1]] = "in"
      BY <1>3, <2>1, <3>1, <3>2
    <3> QED
      BY <3>1, <3>3 DEF TicketInv, LineInOrder
  <2> QED
    BY <2>1
<1> QED
  BY <1>5, <1>7, <1>8, <1>9, <1>10, <1>11 DEF TicketInv, LineInOrder

LEMMA TicketInvInductive ==
  ASSUME TicketInv, [TicketNext]_ticket_vars
  PROVE  TicketInv'
<1>1. CASE UNCHANGED ticket_vars
  BY <1>1 DEF ticket_vars, TicketInv, TicketTypeOK, LineInOrder
<1>2. CASE TicketNext
  BY <1>2, DrawKeepsInv, ServedKeepsInv, UnLockKeepsInv DEF TicketNext, TicketStep
<1> QED
  BY <1>1, <1>2

LEMMA TicketInitInv ==
  ASSUME TicketInit
  PROVE  TicketInv
<1>1. TicketTypeOK
  BY TicketAssumption DEF TicketInit, TicketTypeOK
<1>2. Len(line) = 0 /\ 1 .. Len(line) = {}
  BY DEF TicketInit
<1>3. (now_serving + Len(line)) % Tickets = 0
  <2>1. 0 % Tickets = 0
    BY TicketAssumption, SmallRemainder
  <2> QED
    BY <1>2, <2>1 DEF TicketInit
<1> QED
  BY <1>1, <1>2, <1>3 DEF TicketInit, TicketInv, LineInOrder

\* The threads stand in line in the order of their tickets, each once, and only
\* the first of them is inside: TicketLock excludes, whatever the threads
\* (resources.h:578).
THEOREM LineInOrderAlways == TicketSpec => []LineInOrder
<1>1. TicketInit => TicketInv
  BY TicketInitInv
<1>2. TicketInv /\ [TicketNext]_ticket_vars => TicketInv'
  BY TicketInvInductive
<1>3. TicketInv => LineInOrder
  BY DEF TicketInv
<1> QED
  BY <1>1, <1>2, <1>3, PTL DEF TicketSpec

-----------------------------------------------------------------------------
\* Each instruction of the lock is a step of a fair lock, or none.
LEMMA TicketStepIsFair ==
  ASSUME TicketInv, TicketInv', [TicketNext]_ticket_vars
  PROVE  [Fair!Next]_(Fair!vars)
<1>0. /\ line \in Seq(Threads) /\ at \in [Threads -> {"out", "spin", "in"}]
      /\ DOMAIN line = 1 .. Len(line)
  BY DEF TicketInv, TicketTypeOK
<1>1. CASE UNCHANGED ticket_vars
  BY <1>1 DEF ticket_vars, Fair!vars, Inside
<1>2. ASSUME NEW t \in Threads, Draw(t)
      PROVE  Fair!Ask(t)
  <2>1. \A i \in 1 .. Len(line) : line[i] # t
    BY <1>2 DEF TicketInv, LineInOrder, Draw
  <2>2. Inside' = Inside
    BY <1>0, <1>2 DEF Draw, Inside
  <2> QED
    BY <1>0, <1>2, <2>1, <2>2 DEF Draw, Fair!Ask
<1>3. ASSUME NEW t \in Threads, Served(t)
      PROVE  Fair!Grant
  <2>1. line # <<>> /\ line[1] = t /\ Inside = {}
    BY <1>3, ServedIsFirst DEF Served
  <2>2. Inside' = {line[1]}
    BY <1>0, <1>3, <2>1 DEF Served, Inside
  <2> QED
    BY <1>0, <1>3, <2>1, <2>2 DEF Served, Fair!Grant
<1>4. ASSUME NEW t \in Threads, UnLock(t)
      PROVE  Fair!Release
  <2>1. line # <<>> /\ line[1] = t /\ Inside = {line[1]}
    BY <1>4, OnlyFirstInside DEF UnLock
  <2>2. Inside' = {}
    BY <1>0, <1>4, <2>1 DEF UnLock, Inside
  <2> QED
    BY <1>0, <1>4, <2>1, <2>2 DEF UnLock, Fair!Release
<1> QED
  BY <1>1, <1>2, <1>3, <1>4 DEF TicketNext, TicketStep, Fair!Next

\* TicketLock implements the fair lock: it lets in one thread at a time, in the
\* order in which they asked, also when the tickets wrap (resources.h:581).
THEOREM TicketLockIsFair == TicketSpec => IsFairLock
<1>1. TicketInit => TicketInv
  BY TicketInitInv
<1>2. TicketInv /\ [TicketNext]_ticket_vars => TicketInv'
  BY TicketInvInductive
<1>3. TicketInit => Fair!Init
  BY DEF TicketInit, Fair!Init, Inside
<1>4. TicketInv /\ TicketInv' /\ [TicketNext]_ticket_vars => [Fair!Next]_(Fair!vars)
  BY TicketStepIsFair
<1> QED
  BY <1>1, <1>2, <1>3, <1>4, PTL DEF TicketSpec, IsFairLock, Fair!Spec
=============================================================================
