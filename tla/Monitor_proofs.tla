---------------------------- MODULE Monitor_proofs ---------------------------
(***************************************************************************)
(* Proofs about the log on the monitor, for every box, every character and *)
(* number that is logged, and calls without a bound.                       *)
(*                                                                         *)
(* A call is good for the terminal and the log when, however they are      *)
(* before it, its orders lead to a terminal that shows what was logged     *)
(* (Good).  That its orders, from where it is, are good for them is the    *)
(* invariant: an order that is done takes the first step of them.          *)
(***************************************************************************)
EXTENDS Heapsort_proofs, Monitor, SequenceTheorems

-----------------------------------------------------------------------------
(***************************************************************************)
(* The terminal, byte after byte.                                          *)
(***************************************************************************)
\* A function of the numbers from 1 on; of what does not matter.
IsSequence(s) == \E A : s \in Seq(A)

\* The terminal after each of the bytes.
Arrives(g, t, bytes) == g[0] = t /\ \A i \in 1 .. Len(bytes) : g[i] = Receives(g[i - 1], bytes[i])

\* Receive is the last of the terminals that the bytes lead to.
LEMMA ReceiveRuns ==
  ASSUME NEW t, NEW bytes, Len(bytes) \in Nat
  PROVE  \E g : Arrives(g, t, bytes) /\ Receive(t, bytes) = g[Len(bytes)]
<1> DEFINE n == Len(bytes)
           Next(x, i) == Receives(x, bytes[i])
           Is(h) == h = [i \in 0 .. n |-> IF i = 0 THEN t ELSE Next(h[i - 1], i)]
           run == CHOOSE h : Is(h)
           Runs(g, k) == g[0] = t /\ \A i \in 1 .. k : g[i] = Next(g[i - 1], i)
           Steps == {k \in 0 .. n : \E g : Runs(g, k)}
<1>1. n \in Nat
  OBVIOUS
<1>2. Receive(t, bytes) = run[n]
  BY Zenon DEF Receive, run, Is, Next, n
<1>. HIDE DEF n, Next
<1>3. 0 \in Steps
  <2>1. Runs([i \in 0 .. 0 |-> t], 0)
    OBVIOUS
  <2>. HIDE DEF Runs
  <2>. QED  BY <1>1, <2>1
<1>4. ASSUME NEW k \in 0 .. n - 1, k \in Steps
      PROVE  k + 1 \in Steps
  <2>1. PICK g : Runs(g, k)
    BY <1>4, Zenon
  <2> DEFINE h == [i \in 0 .. k + 1 |-> IF i = k + 1 THEN Next(g[k], k + 1) ELSE g[i]]
  <2>2. k \in 0 .. k /\ k + 1 \in 0 .. n
    BY <1>1
  <2>3. \A i \in 0 .. k + 1 : h[i] = IF i = k + 1 THEN Next(g[k], k + 1) ELSE g[i]
    OBVIOUS
  <2>. HIDE DEF h
  <2>4. h[0] = t
    BY <2>1, <2>3
  <2>5. ASSUME NEW i \in 1 .. k + 1
        PROVE  h[i] = Next(h[i - 1], i)
    <3>1. i \in 0 .. k + 1 /\ i - 1 \in 0 .. k + 1 /\ i - 1 # k + 1
      OBVIOUS
    <3>2. h[i - 1] = g[i - 1]
      BY <2>3, <3>1
    <3>3. CASE i = k + 1
      <4>1. i - 1 = k
        BY <3>3
      <4>. QED  BY <2>3, <3>1, <3>2, <3>3, <4>1
    <3>4. CASE i # k + 1
      <4>1. i \in 1 .. k
        BY <3>4
      <4>. QED  BY <2>1, <2>3, <3>1, <3>2, <3>4, <4>1
    <3>. QED  BY <3>3, <3>4
  <2>6. Runs(h, k + 1)
    BY <2>4, <2>5
  <2>. HIDE DEF Runs
  <2>. QED  BY <2>2, <2>6
<1>5. n \in Steps
  <2>. HIDE DEF Steps
  <2>1. \A k \in 0 .. n : k \in Steps
    BY <1>1, <1>3, <1>4, Upward
  <2>. QED  BY <1>1, <2>1
<1>6. PICK g : Runs(g, n)
  BY <1>5, Zenon
<1> DEFINE f == [i \in 0 .. n |-> g[i]]
<1>7. Is(f)
  <2>1. \A i \in 0 .. n : g[i] = IF i = 0 THEN t ELSE Next(g[i - 1], i)
    BY <1>6
  <2>2. \A i \in 0 .. n : f[i] = IF i = 0 THEN t ELSE Next(f[i - 1], i)
    <3>1. \A i \in 0 .. n : i # 0 => i - 1 \in 0 .. n
      BY <1>1
    <3>. QED  BY <2>1, <3>1
  <2>3. f = [i \in 0 .. n |-> f[i]]
    OBVIOUS
  <2>. HIDE DEF f
  <2>. QED  BY <2>2, <2>3, Zenon
<1>8. Is(run)
  <2>. HIDE DEF f, Is
  <2>. QED  BY <1>7, Zenon DEF run
<1>. HIDE DEF run
<1>9. \A i \in 0 .. n : run[i] = IF i = 0 THEN t ELSE Next(run[i - 1], i)
  BY <1>8, Zenon
<1>10. run[0] = t /\ \A i \in 1 .. n : run[i] = Next(run[i - 1], i)
  <2>1. 0 \in 0 .. n /\ \A i \in 1 .. n : i \in 0 .. n /\ i # 0
    BY <1>1
  <2>. QED  BY <1>9, <2>1, Zenon
<1>. QED
  BY <1>2, <1>10, Zenon DEF Arrives, n, Next

\* Bytes that follow others are received by the terminal that those lead to.
LEMMA ReceiveJoins ==
  ASSUME NEW t, NEW A, NEW a \in Seq(A), NEW b \in Seq(A)
  PROVE  Receive(t, a \o b) = Receive(Receive(t, a), b)
<1> DEFINE m == Len(a)
           n == Len(b)
           ab == a \o b
           u == Receive(t, a)
<1>1. m \in Nat /\ n \in Nat /\ Len(ab) = m + n /\ Len(ab) \in Nat
      /\ (\A i \in 1 .. m : ab[i] = a[i]) /\ (\A i \in 1 .. n : ab[m + i] = b[i])
  OBVIOUS
<1>2. PICK f : Arrives(f, t, a) /\ u = f[m]
  BY <1>1, ReceiveRuns, Zenon
<1>3. PICK g : Arrives(g, t, ab) /\ Receive(t, ab) = g[Len(ab)]
  BY <1>1, ReceiveRuns, Zenon
<1>4. PICK h : Arrives(h, u, b) /\ Receive(u, b) = h[n]
  BY <1>1, ReceiveRuns, Zenon
<1>5. /\ f[0] = t /\ g[0] = t /\ h[0] = u
      /\ \A i \in 1 .. m : f[i] = Receives(f[i - 1], a[i])
      /\ \A i \in 1 .. n : h[i] = Receives(h[i - 1], b[i])
      /\ \A i \in 1 .. Len(ab) : g[i] = Receives(g[i - 1], ab[i])
  BY <1>2, <1>3, <1>4, Zenon DEF Arrives
<1>. HIDE DEF m, n, ab, u
<1>6. \A i \in 1 .. m + n : g[i] = Receives(g[i - 1], ab[i])
  BY <1>1, <1>5
<1>7. g[m] = f[m]
  <2>1. ASSUME NEW i \in 1 .. m, g[i - 1] = f[i - 1]
        PROVE  g[i] = f[i]
    <3>1. i \in 1 .. m + n
      BY <1>1
    <3>. QED  BY <1>1, <1>5, <1>6, <2>1, <3>1, Zenon
  <2>. QED  BY <1>1, <1>5, <2>1, AgreeUpTo
<1> DEFINE g2 == [i \in 0 .. n |-> g[m + i]]
<1>8. g2[n] = h[n]
  <2>1. ASSUME NEW i \in 1 .. n, g2[i - 1] = h[i - 1]
        PROVE  g2[i] = h[i]
    <3>1. m + i \in 1 .. m + n /\ (m + i) - 1 = m + (i - 1) /\ i \in 0 .. n /\ i - 1 \in 0 .. n
      BY <1>1
    <3>2. g[m + i] = Receives(g[(m + i) - 1], ab[m + i])
      BY <1>6, <3>1, Zenon
    <3>3. g2[i] = g[m + i] /\ g2[i - 1] = g[m + (i - 1)]
      BY <3>1
    <3>. HIDE DEF g2
    <3>4. g[m + i] = Receives(h[i - 1], b[i])
      BY <1>1, <2>1, <3>1, <3>2, <3>3
    <3>. QED  BY <1>5, <3>3, <3>4, Zenon
  <2>2. g2[0] = h[0]
    <3>1. 0 \in 0 .. n /\ m + 0 = m
      BY <1>1
    <3>. QED  BY <1>2, <1>5, <1>7, <3>1
  <2>. HIDE DEF g2
  <2>. QED  BY <1>1, <2>1, <2>2, AgreeUpTo
<1>9. g[m + n] = h[n]
  <2>1. n \in 0 .. n
    BY <1>1
  <2>. QED  BY <1>8, <2>1
<1>. QED
  BY <1>1, <1>3, <1>4, <1>9 DEF ab, u

\* One byte, and none.
LEMMA ReceiveOne ==
  ASSUME NEW t, NEW byte
  PROVE  Receive(t, <<byte>>) = Receives(t, byte)
<1> DEFINE bytes == <<byte>>
<1>1. Len(bytes) = 1 /\ Len(bytes) \in Nat /\ bytes[1] = byte
  OBVIOUS
<1>. HIDE DEF bytes
<1>2. PICK g : Arrives(g, t, bytes) /\ Receive(t, bytes) = g[Len(bytes)]
  BY <1>1, ReceiveRuns, Zenon
<1>3. g[0] = t /\ g[1] = Receives(g[1 - 1], bytes[1])
  <2>1. 1 \in 1 .. Len(bytes)
    BY <1>1
  <2>. QED  BY <1>2, <2>1, Zenon DEF Arrives
<1>4. g[1 - 1] = t
  BY <1>3
<1>5. g[1] = Receives(t, byte)
  BY <1>1, <1>3, <1>4, Zenon
<1>. QED
  BY <1>1, <1>2, <1>5, Zenon DEF bytes

Writable == Logged \cup PlainCharacters
Single == {"E2", "ESC"} \cup Writable

\* Nothing is pending, or but the one byte of a full block.
Idle(t) == t.pending \in {<<>>, <<"E2">>}

\* No byte but the first of a box, and no character, begins a box or a control sequence.
LEMMA BytesApart ==
  /\ "E2" \notin Writable /\ "ESC" \notin Writable /\ FullBlock # "" /\ "E2" # "ESC"
  /\ \A ch \in DOMAIN BoxBytes :
       /\ ch \in Writable /\ ch # FullBlock /\ ch \notin PlainCharacters /\ ch # "ESC"
       /\ \E A : BoxBytes[ch] \in Seq(A)
       /\ Len(BoxBytes[ch]) = 3 /\ BoxBytes[ch][1] = "E2"
       /\ \A i \in 2 .. 3 : BoxBytes[ch][i] \notin Single
       /\ \A other \in DOMAIN BoxBytes : BoxBytes[other] = BoxBytes[ch] => other = ch
<1>1. "E2" \notin PlainCharacters /\ "ESC" \notin PlainCharacters
  BY DEF PlainCharacters, DigitNames
<1>2. {"E2", "ESC"} \cap Logged = {}
  BY MonitorAssumption, Zenon
<1>3. "E2" \notin Writable /\ "ESC" \notin Writable
  BY <1>1, <1>2 DEF Writable
<1>4. DOMAIN BoxBytes \cup {"\n"} \subseteq Logged
  BY MonitorAssumption, Zenon
<1>5. DOMAIN BoxBytes \cap ({FullBlock} \cup PlainCharacters) = {}
  BY MonitorAssumption, Zenon
<1>6. ASSUME NEW ch \in DOMAIN BoxBytes
      PROVE  /\ ch \in Writable /\ ch # FullBlock /\ ch \notin PlainCharacters /\ ch # "ESC"
             /\ \E A : BoxBytes[ch] \in Seq(A)
             /\ Len(BoxBytes[ch]) = 3 /\ BoxBytes[ch][1] = "E2"
             /\ \A i \in 2 .. 3 : BoxBytes[ch][i] \notin Single
             /\ \A other \in DOMAIN BoxBytes : BoxBytes[other] = BoxBytes[ch] => other = ch
  <2>1. /\ BoxBytes[ch] \in Seq(STRING) /\ Len(BoxBytes[ch]) = 3 /\ BoxBytes[ch][1] = "E2"
        /\ \A i \in 2 .. 3 : BoxBytes[ch][i] \notin {"E2", "ESC"} \cup PlainCharacters \cup Logged
        /\ \A other \in DOMAIN BoxBytes : BoxBytes[other] = BoxBytes[ch] => other = ch
    BY MonitorAssumption, Zenon
  <2>2. \A i \in 2 .. 3 : BoxBytes[ch][i] \notin Single
    BY <2>1, Zenon DEF Writable, Single
  <2>3. ch \in Writable /\ ch # FullBlock /\ ch \notin PlainCharacters /\ ch # "ESC"
    <3>1. ch \in Logged
      BY <1>4
    <3>2. ch \in Writable
      BY <3>1, Zenon DEF Writable
    <3>. HIDE DEF FullBlock
    <3>. QED  BY <1>3, <1>5, <3>2
  <2>. QED  BY <2>1, <2>2, <2>3, Zenon
<1>7. FullBlock # "" /\ "E2" # "ESC"
  BY DEF FullBlock
<1>. QED
  BY <1>3, <1>6, <1>7, Zenon

\* Sequences that grow by one.
LEMMA AppendPair ==
  ASSUME NEW a, NEW b, NEW c
  PROVE  Append(<<a>>, b) = <<a, b>> /\ Append(<<a, b>>, c) = <<a, b, c>>
<1> DEFINE A == {a, b, c}
<1>1. <<a, b>> \in Seq(A) /\ Len(<<a, b>>) = 2 /\ <<a, b, c>> \in Seq(A) /\ Len(<<a, b, c>>) = 3
  OBVIOUS
<1>2. Append(<<a>>, b) \in Seq(A) /\ Len(Append(<<a>>, b)) = 2
      /\ Append(<<a, b>>, c) \in Seq(A) /\ Len(Append(<<a, b>>, c)) = 3
  OBVIOUS
<1>3. (\A i \in 1 .. 2 : Append(<<a>>, b)[i] = <<a, b>>[i])
      /\ \A i \in 1 .. 3 : Append(<<a, b>>, c)[i] = <<a, b, c>>[i]
  OBVIOUS
<1>. HIDE DEF A
<1>. QED  BY <1>1, <1>2, <1>3, SeqEqual

\* A byte when no more is pending.
LEMMA ReceivesPlain ==
  ASSUME NEW t, Idle(t), NEW byte \in Single
  PROVE  Receives(t, byte) = Plainly(t, byte)
<1> DEFINE bytes == Append(t.pending, byte)
           boxes == {ch \in DOMAIN BoxBytes : BoxBytes[ch] = bytes}
           begun == {ch \in DOMAIN BoxBytes : \E n \in 1 .. 2 : bytes = SubSeq(BoxBytes[ch], 1, n)}
<1>1. CASE t.pending = <<>> \/ byte = "ESC"
  BY <1>1, Zenon DEF Receives
<1>2. CASE t.pending # <<>> /\ byte # "ESC"
  <2>1. t.pending = <<"E2">> /\ t.pending # <<>>
    BY <1>2 DEF Idle
  <2>2. Len(bytes) = 2 /\ bytes[1] = "E2" /\ bytes[2] = byte /\ Head(bytes) = "E2"
        /\ bytes # <<"ESC", "c">>
    <3>1. bytes = <<"E2", byte>>
      BY <2>1, AppendPair, Zenon
    <3>. HIDE DEF bytes
    <3>. QED  BY <3>1
  <2>. HIDE DEF bytes
  <2>3. begun = {}
    <3>. SUFFICES ASSUME NEW ch \in DOMAIN BoxBytes, NEW n \in 1 .. 2, bytes = SubSeq(BoxBytes[ch], 1, n)
         PROVE FALSE
      BY Zenon
    <3>1. PICK A : BoxBytes[ch] \in Seq(A)
      BY BytesApart, Zenon
    <3>2. Len(BoxBytes[ch]) = 3 /\ BoxBytes[ch][2] \notin Single
      <4>1. 2 \in 2 .. 3
        OBVIOUS
      <4>. QED  BY <4>1, BytesApart, Zenon
    <3>3. Len(bytes) = n /\ \A i \in 1 .. n : bytes[i] = BoxBytes[ch][i]
      BY <3>1, <3>2
    <3>4. bytes[2] = BoxBytes[ch][2]
      BY <2>2, <3>3
    <3>. QED  BY <2>2, <3>2, <3>4 DEF Single
  <2>4. boxes = {}
    <3>. SUFFICES ASSUME NEW ch \in DOMAIN BoxBytes, BoxBytes[ch] = bytes PROVE FALSE
      BY Zenon
    <3>1. Len(BoxBytes[ch]) = 3
      BY BytesApart, Zenon
    <3>2. 2 # 3
      OBVIOUS
    <3>. QED  BY <2>2, <3>1, <3>2, Zenon
  <2>5. Head(bytes) # "ESC"
    BY <2>2
  <2>. HIDE DEF boxes, begun
  <2>. QED  BY <1>2, <2>2, <2>3, <2>4, <2>5, Zenon DEF Receives, bytes, boxes, begun
<1>. QED
  BY <1>1, <1>2, Zenon

\* The three bytes of a box.
LEMMA BoxReceived ==
  ASSUME NEW t, Idle(t), NEW ch \in DOMAIN BoxBytes
  PROVE  Receive(t, BoxBytes[ch]) = [shows |-> t.shows \o Means("text", ch, 0, 0), pending |-> <<>>]
<1> DEFINE box == BoxBytes[ch]
           u == [shows |-> t.shows, pending |-> <<"E2">>]
           v == [shows |-> t.shows, pending |-> <<"E2", box[2]>>]
           w == [shows |-> t.shows \o Means("text", ch, 0, 0), pending |-> <<>>]
<1>1. PICK A : box \in Seq(A)
  BY BytesApart, Zenon
<1>2. Len(box) = 3 /\ box[1] = "E2" /\ box[2] \notin Single
      /\ box[3] \notin Single
  <2>1. 2 \in 2 .. 3 /\ 3 \in 2 .. 3
    OBVIOUS
  <2>. QED  BY <2>1, BytesApart, Zenon
<1>3. ch \in Writable /\ "E2" \notin Writable /\ "ESC" \notin Writable /\ \A other \in DOMAIN BoxBytes : BoxBytes[other] = box => other = ch
  BY BytesApart, Zenon
<1>4. PICK g : Arrives(g, t, box) /\ Receive(t, box) = g[Len(box)]
  <2>1. Len(box) \in Nat
    BY <1>2
  <2>. QED  BY <2>1, ReceiveRuns, Zenon
<1>. HIDE DEF box
<1>5. /\ g[0] = t /\ g[1] = Receives(g[0], box[1]) /\ g[2] = Receives(g[1], box[2])
      /\ g[3] = Receives(g[2], box[3])
  BY <1>2, <1>4 DEF Arrives
<1>6. g[1] = u
  <2>1. Receives(t, "E2") = Plainly(t, "E2")
    <3>1. "E2" \in Single
      BY DEF Single
    <3>. QED  BY <3>1, ReceivesPlain, Zenon
  <2>. QED  BY <1>2, <1>5, <2>1 DEF Plainly
<1>7. g[2] = v
  <2> DEFINE bytes == Append(u.pending, box[2])
             begun == {c \in DOMAIN BoxBytes : \E n \in 1 .. 2 : bytes = SubSeq(BoxBytes[c], 1, n)}
  <2>1. bytes = <<"E2", box[2]>> /\ bytes # <<"ESC", "c">> /\ Head(bytes) = "E2" /\ Head(bytes) # "ESC"
        /\ u.pending # <<>> /\ u.shows = t.shows
    <3>1. u.pending = <<"E2">> /\ u.shows = t.shows
      OBVIOUS
    <3>2. bytes = <<"E2", box[2]>>
      BY <3>1, AppendPair, Zenon
    <3>. HIDE DEF bytes, u
    <3>. QED  BY <3>1, <3>2
  <2>2. ch \in begun
    <3>1. <<"E2", box[2]>> = SubSeq(box, 1, 2)
      BY <1>1, <1>2
    <3>2. 2 \in 1 .. 2
      OBVIOUS
    <3>. QED  BY <2>1, <3>1, <3>2, Zenon DEF box
  <2>3. box[2] # "ESC" /\ begun # {}
    <3>1. "ESC" \in Single
      BY DEF Single
    <3>. HIDE DEF begun
    <3>. QED  BY <1>2, <2>2, <3>1
  <2>. HIDE DEF bytes, begun, u
  <2>4. Receives(u, box[2]) = [shows |-> u.shows, pending |-> bytes]
    BY <2>1, <2>3, Zenon DEF Receives, bytes, begun
  <2>. QED  BY <1>5, <1>6, <2>1, <2>4, Zenon
<1>8. g[3] = w
  <2> DEFINE bytes == Append(v.pending, box[3])
             boxes == {c \in DOMAIN BoxBytes : BoxBytes[c] = bytes}
             begun == {c \in DOMAIN BoxBytes : \E n \in 1 .. 2 : bytes = SubSeq(BoxBytes[c], 1, n)}
  <2>1. bytes = <<"E2", box[2], box[3]>> /\ bytes # <<"ESC", "c">> /\ Head(bytes) = "E2" /\ Head(bytes) # "ESC"
        /\ v.pending # <<>> /\ v.shows = t.shows
    <3>1. v.pending = <<"E2", box[2]>> /\ v.shows = t.shows
      OBVIOUS
    <3>2. bytes = <<"E2", box[2], box[3]>>
      BY <3>1, AppendPair, Zenon
    <3>. HIDE DEF bytes, v
    <3>. QED  BY <3>1, <3>2
  <2>2. bytes = box
    BY <1>1, <1>2, <2>1
  <2>. HIDE DEF bytes, v
  <2>3. begun = {}
    <3>. SUFFICES ASSUME NEW c \in DOMAIN BoxBytes, NEW n \in 1 .. 2, bytes = SubSeq(BoxBytes[c], 1, n)
         PROVE FALSE
      BY Zenon
    <3>1. PICK B : BoxBytes[c] \in Seq(B)
      BY BytesApart, Zenon
    <3>2. Len(BoxBytes[c]) = 3
      BY BytesApart, Zenon
    <3>3. Len(bytes) = n
      BY <3>1, <3>2
    <3>. QED  BY <1>2, <2>2, <3>3
  <2>4. boxes = {ch}
    BY <1>3, <2>2, Zenon DEF box
  <2>. HIDE DEF boxes, begun
  <2>5. (IF boxes # {} THEN CHOOSE c \in boxes : TRUE ELSE box[3]) = ch
    BY <2>4
  <2>6. box[3] # "ESC"
    BY <1>2 DEF Single
  <2>7. Receives(v, box[3]) = Plainly(v, IF boxes # {} THEN CHOOSE c \in boxes : TRUE ELSE box[3])
    BY <2>1, <2>3, <2>6, Zenon DEF Receives, bytes, boxes, begun
  <2>8. Receives(v, box[3]) = Plainly(v, ch)
    BY <2>5, <2>7
  <2>9. ch \notin {"E2", "ESC"}
    BY <1>3
  <2>10. Plainly(v, ch) = w
    BY <2>1, <2>9, Zenon DEF Plainly
  <2>. QED  BY <1>5, <1>7, <2>8, <2>10, Zenon
<1>. QED
  BY <1>2, <1>4, <1>8 DEF box

\* A character in a text.
LEMMA CharacterReceived ==
  ASSUME NEW t, Idle(t), NEW ch \in Writable
  PROVE  /\ Idle(Receive(t, BytesOf(ch)))
         /\ Receive(t, BytesOf(ch)).shows =
              IF ch = FullBlock THEN t.shows ELSE t.shows \o Means("text", ch, 0, 0)
<1>1. CASE ch \in DOMAIN BoxBytes
  <2>1. ch # FullBlock
    BY <1>1, BytesApart, Zenon
  <2>2. Receive(t, BytesOf(ch)) = [shows |-> t.shows \o Means("text", ch, 0, 0), pending |-> <<>>]
    BY <1>1, BoxReceived, Zenon DEF BytesOf
  <2>. QED  BY <2>1, <2>2 DEF Idle
<1>2. CASE ch \notin DOMAIN BoxBytes /\ ch = FullBlock
  <2>1. BytesOf(ch) = <<"E2">>
    BY <1>2, Zenon DEF BytesOf
  <2>2. Receive(t, <<"E2">>) = Plainly(t, "E2")
    <3>1. "E2" \in Single
      BY DEF Single
    <3>. QED  BY <3>1, ReceiveOne, ReceivesPlain, Zenon
  <2>. QED  BY <1>2, <2>1, <2>2 DEF Plainly, Idle
<1>3. CASE ch \notin DOMAIN BoxBytes /\ ch # FullBlock
  <2>1. BytesOf(ch) = <<ch>>
    BY <1>3, Zenon DEF BytesOf
  <2>2. Receive(t, <<ch>>) = Plainly(t, ch)
    <3>1. ch \in Single
      BY DEF Single
    <3>. QED  BY <3>1, ReceiveOne, ReceivesPlain, Zenon
  <2>3. ch \notin {"E2", "ESC"}
    BY BytesApart
  <2>. QED  BY <1>3, <2>1, <2>2, <2>3 DEF Plainly, Idle
<1>. QED
  BY <1>1, <1>2, <1>3, Zenon

-----------------------------------------------------------------------------
(***************************************************************************)
(* Calls that are good for the terminal and the log, and texts among them. *)
(***************************************************************************)
\* What an order makes of the terminal and of the log, and where a call is to lead.
Logs(log, order) ==
  IF order.means = Means("clear", "", 0, 0) THEN <<>>
  ELSE IF order.ch = FullBlock THEN log
  ELSE log \o order.means
Does(s, order) ==
  IF order.op = "log_char"
  THEN [term |-> Receive(s.term, BytesOf(order.ch)), log |-> Logs(s.log, order)]
  ELSE s
Settled(s) == s.term.shows = s.log /\ IsSequence(s.log) /\ Idle(s.term)

Follows(h, s, orders) ==
  h[0] = s /\ \A i \in 1 .. Len(orders) : h[i] = Does(h[i - 1], orders[i])
Good(s, orders) == \A h : Follows(h, s, orders) => Settled(h[Len(orders)])

\* A call that is over is good when the terminal shows what was logged.
LEMMA GoodNone ==
  ASSUME NEW s
  PROVE  Good(s, <<>>) <=> Settled(s)
<1>1. Len(<<>>) = 0 /\ 1 .. Len(<<>>) = {}
  OBVIOUS
<1>2. ASSUME NEW h PROVE Follows(h, s, <<>>) <=> h[0] = s
  BY <1>1, Zenon DEF Follows
<1> DEFINE h0 == [i \in {0} |-> s]
<1>3. h0[0] = s
  OBVIOUS
<1>. HIDE DEF h0
<1>4. Good(s, <<>>) => Settled(s)
  <2>1. Follows(h0, s, <<>>)
    BY <1>2, <1>3, Zenon
  <2>2. Good(s, <<>>) => Settled(h0[Len(<<>>)])
    BY <2>1, Zenon DEF Good
  <2>3. h0[Len(<<>>)] = s
    BY <1>1, <1>3
  <2>. QED  BY <2>2, <2>3, Zenon
<1>5. Settled(s) => Good(s, <<>>)
  <2>. SUFFICES ASSUME Settled(s), NEW h, Follows(h, s, <<>>) PROVE Settled(h[Len(<<>>)])
    BY Zenon DEF Good
  <2>1. h[0] = s
    BY <1>2, Zenon
  <2>2. h[Len(<<>>)] = s
    BY <1>1, <2>1
  <2>. QED  BY <2>2, Zenon
<1>. QED
  BY <1>4, <1>5, Zenon

\* What is left of a good call is good for what its first order leads to.
LEMMA GoodFirst ==
  ASSUME NEW s, NEW orders, IsSequence(orders), orders # <<>>, Good(s, orders)
  PROVE  Good(Does(s, Head(orders)), Tail(orders)) /\ IsSequence(Tail(orders))
<1>1. PICK A : orders \in Seq(A)
  BY Zenon DEF IsSequence
<1> DEFINE n == Len(orders)
           rest == Tail(orders)
           u == Does(s, Head(orders))
<1>2. n \in Nat \ {0} /\ rest \in Seq(A) /\ Len(rest) = n - 1 /\ Head(orders) = orders[1]
      /\ \A i \in 1 .. n - 1 : rest[i] = orders[i + 1]
  BY <1>1
<1>. HIDE DEF n, rest, u
<1>. SUFFICES ASSUME NEW h, Follows(h, u, rest) PROVE Settled(h[Len(rest)])
  BY <1>2, Zenon DEF Good, IsSequence, rest, u
<1>3. h[0] = u /\ \A i \in 1 .. n - 1 : h[i] = Does(h[i - 1], rest[i])
  BY <1>2, Zenon DEF Follows
<1> DEFINE g == [i \in 0 .. n |-> IF i = 0 THEN s ELSE h[i - 1]]
<1>4. g[0] = s /\ \A i \in 1 .. n : g[i] = h[i - 1]
  BY <1>2
<1>. HIDE DEF g
<1>5. ASSUME NEW i \in 1 .. n PROVE g[i] = Does(g[i - 1], orders[i])
  <2>1. CASE i = 1
    <3>1. g[1] = u /\ g[i - 1] = s /\ orders[i] = Head(orders)
      <4>1. 1 - 1 = 0 /\ 1 \in 1 .. n
        BY <1>2
      <4>. QED  BY <1>2, <1>3, <1>4, <2>1, <4>1
    <3>. QED  BY <2>1, <3>1, Zenon DEF u
  <2>2. CASE i # 1
    <3>1. i - 1 \in 1 .. n - 1 /\ i - 1 \in 1 .. n /\ (i - 1) + 1 = i
      BY <1>2, <2>2
    <3>2. h[i - 1] = Does(h[(i - 1) - 1], rest[i - 1]) /\ rest[i - 1] = orders[(i - 1) + 1]
      BY <1>2, <1>3, <3>1, Zenon
    <3>3. g[i] = h[i - 1] /\ g[i - 1] = h[(i - 1) - 1]
      BY <1>4, <3>1, Zenon
    <3>. QED  BY <3>1, <3>2, <3>3, Zenon
  <2>. QED  BY <2>1, <2>2, Zenon
<1>6. Settled(g[n])
  <2>1. Follows(g, s, orders)
    BY <1>4, <1>5, Zenon DEF Follows, n
  <2>. QED  BY <2>1, Zenon DEF Good, n
<1>7. g[n] = h[Len(rest)]
  <2>1. n \in 1 .. n
    BY <1>2
  <2>. QED  BY <1>2, <1>4, <2>1
<1>. QED
  BY <1>6, <1>7, Zenon

\* Calls, one after the other.
LEMMA GoodJoins ==
  ASSUME NEW s, NEW A, NEW a \in Seq(A), NEW b \in Seq(A),
         Good(s, a), \A u : Settled(u) => Good(u, b)
  PROVE  Good(s, a \o b)
<1> DEFINE m == Len(a)
           n == Len(b)
           ab == a \o b
<1>1. m \in Nat /\ n \in Nat /\ Len(ab) = m + n
      /\ (\A i \in 1 .. m : ab[i] = a[i]) /\ (\A i \in 1 .. n : ab[m + i] = b[i])
  OBVIOUS
<1>. HIDE DEF m, n, ab
<1>. SUFFICES ASSUME NEW h, Follows(h, s, ab) PROVE Settled(h[Len(ab)])
  BY Zenon DEF Good, ab
<1>2. h[0] = s /\ \A i \in 1 .. m + n : h[i] = Does(h[i - 1], ab[i])
  BY <1>1, Zenon DEF Follows
<1>3. Settled(h[m])
  <2>1. ASSUME NEW i \in 1 .. m PROVE h[i] = Does(h[i - 1], a[i])
    <3>1. i \in 1 .. m + n
      BY <1>1
    <3>. QED  BY <1>1, <1>2, <3>1, Zenon
  <2>2. Follows(h, s, a)
    BY <1>2, <2>1, Zenon DEF Follows, m
  <2>. QED  BY <2>2, Zenon DEF Good, m
<1> DEFINE g == [i \in 0 .. n |-> h[m + i]]
<1>4. \A i \in 0 .. n : g[i] = h[m + i]
  OBVIOUS
<1>. HIDE DEF g
<1>5. g[0] = h[m]
  <2>1. 0 \in 0 .. n /\ m + 0 = m
    BY <1>1
  <2>. QED  BY <1>4, <2>1
<1>6. ASSUME NEW i \in 1 .. n PROVE g[i] = Does(g[i - 1], b[i])
  <2>1. m + i \in 1 .. m + n /\ (m + i) - 1 = m + (i - 1) /\ i \in 0 .. n /\ i - 1 \in 0 .. n
    BY <1>1
  <2>2. h[m + i] = Does(h[(m + i) - 1], ab[m + i])
    BY <1>2, <2>1, Zenon
  <2>. QED  BY <1>1, <1>4, <2>1, <2>2, Zenon
<1>7. Settled(g[n])
  <2>1. Follows(g, h[m], b)
    BY <1>5, <1>6, Zenon DEF Follows, n
  <2>2. Good(h[m], b)
    BY <1>3, Zenon
  <2>. QED  BY <2>1, <2>2, Zenon DEF Good, n
<1>8. g[n] = h[Len(ab)]
  <2>1. n \in 0 .. n
    BY <1>1
  <2>. QED  BY <1>1, <1>4, <2>1
<1>. QED
  BY <1>7, <1>8, Zenon

\* A text, however the terminal shows what was logged before it.
LEMMA GoodText ==
  ASSUME NEW s, Settled(s), NEW text \in Seq(Writable)
  PROVE  Good(s, Says(text)) /\ IsSequence(Says(text))
<1> DEFINE n == Len(text)
           orders == Says(text)
<1>1. n \in Nat /\ DOMAIN text = 1 .. n /\ \A i \in 1 .. n : text[i] \in Writable
  BY LenProperties, ElementOfSeq
<1>2. orders = [i \in 1 .. n |-> Say(text[i])]
  BY <1>1, Zenon DEF Says
<1>. HIDE DEF orders
<1> DEFINE A == {Say(ch) : ch \in Writable}
<1>3. \A i \in 1 .. n : Say(text[i]) \in A
  BY <1>1
<1>. HIDE DEF n, A
<1>4. orders \in Seq(A) /\ Len(orders) = n /\ \A i \in 1 .. n : orders[i] = Say(text[i])
  BY <1>1, <1>2, <1>3
<1>. SUFFICES ASSUME NEW h, Follows(h, s, orders) PROVE Settled(h[Len(orders)])
  BY <1>4, Zenon DEF Good, IsSequence, orders
<1>5. h[0] = s /\ \A i \in 1 .. n : h[i] = Does(h[i - 1], Say(text[i]))
  BY <1>4, Zenon DEF Follows
<1> DEFINE S == {i \in 0 .. n : Settled(h[i])}
<1>6. 0 \in S
  BY <1>1, <1>5
<1>7. ASSUME NEW k \in 0 .. n - 1, k \in S PROVE k + 1 \in S
  <2>1. k + 1 \in 1 .. n /\ k + 1 \in 0 .. n /\ (k + 1) - 1 = k
    BY <1>1
  <2> DEFINE x == h[k]
             ch == text[k + 1]
             y == Does(x, Say(ch))
             u == Receive(x.term, BytesOf(ch))
             means == Means("text", ch, 0, 0)
  <2>2. h[k + 1] = y
    <3>1. h[k + 1] = Does(h[(k + 1) - 1], Say(text[k + 1]))
      BY <1>5, <2>1, Zenon
    <3>. QED  BY <2>1, <3>1
  <2>3. ch \in Writable
    BY <1>1, <2>1, Zenon
  <2>4. Settled(x)
    BY <1>7
  <2>. HIDE DEF x, ch
  <2>5. /\ Idle(u)
        /\ u.shows = IF ch = FullBlock THEN x.term.shows ELSE x.term.shows \o means
    BY <2>3, <2>4, CharacterReceived, Zenon DEF Settled
  <2>. HIDE DEF u
  <2>6. y = [term |-> u, log |-> IF ch = FullBlock THEN x.log ELSE x.log \o means]
    <3>1. Say(ch).op = "log_char" /\ Say(ch).ch = ch /\ Say(ch).means = means
      BY DEF Say, Order
    <3>2. means # Means("clear", "", 0, 0)
      BY DEF Means
    <3>. HIDE DEF means
    <3>3. Logs(x.log, Say(ch)) = IF ch = FullBlock THEN x.log ELSE x.log \o means
      BY <3>1, <3>2, Zenon DEF Logs
    <3>. QED  BY <3>1, <3>3, Zenon DEF Does, u
  <2>. HIDE DEF y
  <2>7. IsSequence(y.log)
    <3>1. PICK B : x.log \in Seq(B)
      BY <2>4, Zenon DEF Settled, IsSequence
    <3>2. CASE ch = FullBlock
      BY <2>6, <3>1, <3>2 DEF IsSequence
    <3>3. CASE ch # FullBlock
      <4> DEFINE C == B \cup {[is |-> "text", ch |-> ch, x |-> 0, y |-> 0]}
      <4>1. x.log \in Seq(C) /\ means \in Seq(C)
        BY <3>1 DEF Means
      <4>2. x.log \o means \in Seq(C)
        <5>. HIDE DEF C, means
        <5>. QED  BY <4>1
      <4>3. y.log = x.log \o means
        BY <2>6, <3>3
      <4>. QED  BY <4>2, <4>3, Zenon DEF IsSequence
    <3>. QED  BY <3>2, <3>3, Zenon
  <2>8. y.term = u /\ y.log = u.shows
    <3>1. x.term.shows = x.log
      BY <2>4, Zenon DEF Settled
    <3>. HIDE DEF means
    <3>2. u.shows = IF ch = FullBlock THEN x.log ELSE x.log \o means
      BY <2>5, <3>1
    <3>. QED  BY <2>6, <3>2
  <2>9. Settled(y)
    BY <2>5, <2>7, <2>8 DEF Settled
  <2>. QED  BY <2>1, <2>2, <2>9
<1>8. \A k \in 0 .. n : k \in S
  <2>. HIDE DEF S
  <2>. QED  BY <1>1, <1>6, <1>7, Upward
<1>9. n \in S
  <2>. HIDE DEF S
  <2>. QED  BY <1>1, <1>8
<1>. QED
  BY <1>4, <1>9

\* A call with a control sequence, in which nothing is logged or sent but its bytes.
ByteOf(bytes, means, i) == Order("log_char", bytes[i], 0, 0, IF i = Len(bytes) THEN means ELSE <<>>)
ControlRuns(orders, bytes, means, s) ==
  \A h : Follows(h, s, orders) =>
    \E g : /\ g[0] = s /\ g[Len(bytes)] = h[Len(orders)]
           /\ \A i \in 1 .. Len(bytes) : g[i] = Does(g[i - 1], ByteOf(bytes, means, i))

\* The orders of a control sequence lead through its bytes.
LEMMA ControlFollows ==
  ASSUME NEW o, o.op # "log_char", NEW B, NEW bytes \in Seq(B), NEW means, NEW s,
         NEW orders, orders = <<o>> \o Controls(bytes, means)
  PROVE  IsSequence(orders) /\ ControlRuns(orders, bytes, means, s)
<1> DEFINE n == Len(bytes)
           sent == [i \in DOMAIN bytes |-> Order("log_char", bytes[i], 0, 0, IF i = Len(bytes) THEN means ELSE <<>>)]
           off == Both(FALSE)
           on == Both(TRUE)
           A == {o, off, on} \cup {ByteOf(bytes, means, i) : i \in 1 .. n}
<1>1. n \in Nat /\ DOMAIN bytes = 1 .. n
  BY LenProperties
<1>2. sent = [i \in 1 .. n |-> ByteOf(bytes, means, i)]
  BY <1>1, Zenon DEF ByteOf
<1>3. \A i \in 1 .. n : ByteOf(bytes, means, i) \in A
  OBVIOUS
<1>4. o \in A /\ off \in A /\ on \in A
  OBVIOUS
<1>5. orders = <<o>> \o (<<off>> \o sent \o <<on>>)
  BY Zenon DEF Controls
<1>. HIDE DEF sent, n, A, off, on
<1>6. sent \in Seq(A) /\ Len(sent) = n /\ \A i \in 1 .. n : sent[i] = ByteOf(bytes, means, i)
  BY <1>1, <1>2, <1>3
<1>7. /\ <<off>> \o sent \in Seq(A) /\ Len(<<off>> \o sent) = n + 1
      /\ (<<off>> \o sent)[1] = off /\ \A i \in 1 .. n : (<<off>> \o sent)[i + 1] = sent[i]
  <2>1. <<off>> \in Seq(A) /\ Len(<<off>>) = 1 /\ <<off>>[1] = off
    BY <1>4
  <2>2. \A p, q \in Seq(A) : /\ p \o q \in Seq(A) /\ Len(p \o q) = Len(p) + Len(q)
                             /\ \A i \in 1 .. Len(p) : (p \o q)[i] = p[i]
                             /\ \A i \in 1 .. Len(q) : (p \o q)[Len(p) + i] = q[i]
    OBVIOUS
  <2>. QED  BY <1>1, <1>6, <2>1, <2>2
<1> DEFINE front == <<off>> \o sent
           back == front \o <<on>>
<1>. HIDE DEF front
<1>8. /\ back \in Seq(A) /\ Len(back) = n + 2 /\ back[1] = off /\ back[n + 2] = on
      /\ \A i \in 1 .. n : back[i + 1] = sent[i]
  <2>1. <<on>> \in Seq(A) /\ Len(<<on>>) = 1 /\ <<on>>[1] = on
    BY <1>4
  <2>2. \A p, q \in Seq(A) : /\ p \o q \in Seq(A) /\ Len(p \o q) = Len(p) + Len(q)
                             /\ \A i \in 1 .. Len(p) : (p \o q)[i] = p[i]
                             /\ \A i \in 1 .. Len(q) : (p \o q)[Len(p) + i] = q[i]
    OBVIOUS
  <2>3. front \in Seq(A) /\ Len(front) = n + 1 /\ front[1] = off /\ \A i \in 1 .. n : front[i + 1] = sent[i]
    BY <1>7 DEF front
  <2>. QED  BY <1>1, <2>1, <2>2, <2>3
<1>. HIDE DEF back
<1>9. /\ orders \in Seq(A) /\ Len(orders) = n + 3 /\ orders[1] = o /\ orders[2] = off /\ orders[n + 3] = on
      /\ \A i \in 1 .. n : orders[i + 2] = sent[i]
  <2>1. <<o>> \in Seq(A) /\ Len(<<o>>) = 1 /\ <<o>>[1] = o
    BY <1>4
  <2>2. \A p, q \in Seq(A) : /\ p \o q \in Seq(A) /\ Len(p \o q) = Len(p) + Len(q)
                             /\ \A i \in 1 .. Len(p) : (p \o q)[i] = p[i]
                             /\ \A i \in 1 .. Len(q) : (p \o q)[Len(p) + i] = q[i]
    OBVIOUS
  <2>3. orders = <<o>> \o back
    BY <1>5, Zenon DEF front, back
  <2>4. /\ orders \in Seq(A) /\ Len(orders) = 1 + (n + 2) /\ orders[1] = o
        /\ \A i \in 1 .. n + 2 : orders[1 + i] = back[i]
    <3> DEFINE whole == <<o>> \o back
    <3>1. /\ whole \in Seq(A) /\ Len(whole) = 1 + (n + 2) /\ whole[1] = o
          /\ \A i \in 1 .. n + 2 : whole[1 + i] = back[i]
      BY <1>1, <1>8, <2>1, <2>2
    <3>2. orders = whole
      BY <2>3
    <3>. HIDE DEF whole
    <3>. QED  BY <3>1, <3>2
  <2>5. 1 \in 1 .. n + 2 /\ n + 2 \in 1 .. n + 2 /\ 1 + (n + 2) = n + 3
        /\ \A i \in 1 .. n : i + 1 \in 1 .. n + 2 /\ 1 + (i + 1) = i + 2
    BY <1>1
  <2>. QED  BY <1>8, <2>4, <2>5
<1>10. off.op # "log_char" /\ on.op # "log_char"
  BY DEF off, on, Both, Order
<1>11. ASSUME NEW h, Follows(h, s, orders)
       PROVE  \E g : /\ g[0] = s /\ g[n] = h[Len(orders)]
                     /\ \A i \in 1 .. n : g[i] = Does(g[i - 1], ByteOf(bytes, means, i))
  <2>1. h[0] = s /\ \A i \in 1 .. n + 3 : h[i] = Does(h[i - 1], orders[i])
    BY <1>9, <1>11, Zenon DEF Follows
  <2>2. h[1] = Does(h[0], o) /\ h[2] = Does(h[1], off) /\ h[n + 3] = Does(h[n + 2], on)
    <3>1. 1 \in 1 .. n + 3 /\ 2 \in 1 .. n + 3 /\ n + 3 \in 1 .. n + 3
          /\ 1 - 1 = 0 /\ 2 - 1 = 1 /\ (n + 3) - 1 = n + 2
      BY <1>1
    <3>. QED  BY <1>9, <2>1, <3>1
  <2>3. h[2] = s /\ h[n + 3] = h[n + 2]
    BY <1>10, <2>1, <2>2 DEF Does
  <2> DEFINE g == [i \in 0 .. n |-> h[i + 2]]
  <2>4. \A i \in 0 .. n : g[i] = h[i + 2]
    OBVIOUS
  <2>. HIDE DEF g
  <2>5. g[0] = s /\ g[n] = h[Len(orders)]
    <3>1. 0 \in 0 .. n /\ n \in 0 .. n /\ 0 + 2 = 2
      BY <1>1
    <3>. QED  BY <1>9, <2>3, <2>4, <3>1
  <2>6. ASSUME NEW i \in 1 .. n PROVE g[i] = Does(g[i - 1], ByteOf(bytes, means, i))
    <3>1. i + 2 \in 1 .. n + 3 /\ (i + 2) - 1 = (i - 1) + 2 /\ i \in 0 .. n /\ i - 1 \in 0 .. n
      BY <1>1
    <3>2. h[i + 2] = Does(h[(i + 2) - 1], orders[i + 2])
      BY <2>1, <3>1, Zenon
    <3>. QED  BY <1>6, <1>9, <2>4, <3>1, <3>2, Zenon
  <2>. QED  BY <2>5, <2>6, Zenon
<1>. QED
  BY <1>9, <1>11, Zenon DEF IsSequence, ControlRuns, n

\* The bytes that are no characters of a control sequence.
LEMMA PlainApart ==
  /\ FullBlock \notin PlainCharacters /\ FullBlock # "ESC"
  /\ "E2" \notin PlainCharacters /\ "ESC" \notin PlainCharacters /\ "E2" # "ESC"
<1>1. FullBlock \notin PlainCharacters
  BY DEF FullBlock, PlainCharacters, DigitNames
<1>2. "E2" \notin PlainCharacters /\ "ESC" \notin PlainCharacters
  BY DEF PlainCharacters, DigitNames
<1>3. FullBlock # "ESC"
  BY DEF FullBlock
<1>. QED
  BY <1>1, <1>2, <1>3

\* The byte of a character of a control sequence is sent as it is.
LEMMA ControlByte ==
  ASSUME NEW ch \in {"ESC"} \cup PlainCharacters, NEW t
  PROVE  Receive(t, BytesOf(ch)) = Receives(t, ch) /\ ch # FullBlock /\ ch # "E2"
<1>1. ch \notin DOMAIN BoxBytes
  BY BytesApart
<1>2. ch # FullBlock /\ ch # "E2"
  <2>1. FullBlock \notin PlainCharacters \cup {"ESC"} /\ "E2" \notin PlainCharacters \cup {"ESC"}
    BY PlainApart
  <2>. QED  BY <2>1, Zenon
<1>. QED
  BY <1>1, <1>2, ReceiveOne, Zenon DEF BytesOf

\* The terminal is cleared with the log, whatever it had pending.
LEMMA GoodClear ==
  ASSUME NEW s
  PROVE  Good(s, clear_screen) /\ IsSequence(clear_screen)
<1> DEFINE o == Order("clear", "", 0, 0, <<>>)
           bytes == <<"ESC", "c">>
           means == Means("clear", "", 0, 0)
           B == {"ESC", "c"}
<1>1. o.op # "log_char" /\ bytes \in Seq(B) /\ Len(bytes) = 2 /\ bytes[1] = "ESC" /\ bytes[2] = "c"
  BY DEF Order
<1>2. means # <<>> /\ <<>> # means
  BY DEF Means
<1>3. clear_screen = <<o>> \o Controls(bytes, means)
  BY Zenon DEF clear_screen
<1>. HIDE DEF o, bytes, means, B
<1>4. IsSequence(clear_screen) /\ ControlRuns(clear_screen, bytes, means, s)
  BY <1>1, <1>3, ControlFollows, Zenon
<1>. SUFFICES ASSUME NEW h, Follows(h, s, clear_screen) PROVE Settled(h[Len(clear_screen)])
  BY <1>4, Zenon DEF Good
<1>5. PICK g : /\ g[0] = s /\ g[Len(bytes)] = h[Len(clear_screen)]
               /\ \A i \in 1 .. Len(bytes) : g[i] = Does(g[i - 1], ByteOf(bytes, means, i))
  BY <1>4, Zenon DEF ControlRuns
<1>6. g[1] = Does(s, Order("log_char", "ESC", 0, 0, <<>>)) /\ g[2] = Does(g[1], Order("log_char", "c", 0, 0, means))
  <2>1. 1 \in 1 .. Len(bytes) /\ 2 \in 1 .. Len(bytes) /\ 1 - 1 = 0 /\ 2 - 1 = 1 /\ 1 # 2
    BY <1>1
  <2>2. g[1] = Does(g[0], ByteOf(bytes, means, 1)) /\ g[2] = Does(g[1], ByteOf(bytes, means, 2))
    BY <1>5, <2>1
  <2>3. ByteOf(bytes, means, 1) = Order("log_char", "ESC", 0, 0, <<>>)
        /\ ByteOf(bytes, means, 2) = Order("log_char", "c", 0, 0, means)
    BY <1>1, <2>1, Zenon DEF ByteOf
  <2>. QED  BY <1>5, <2>2, <2>3, Zenon
<1> DEFINE t == g[1].term
<1>7. t.pending = <<"ESC">>
  <2>1. g[1].term = Receive(s.term, BytesOf("ESC"))
    BY <1>6 DEF Does, Order
  <2>2. Receive(s.term, BytesOf("ESC")) = Receives(s.term, "ESC")
    BY ControlByte
  <2>3. Receives(s.term, "ESC") = Plainly(s.term, "ESC")
    BY Zenon DEF Receives
  <2>. QED  BY <2>1, <2>2, <2>3 DEF Plainly
<1>. HIDE DEF t
<1>8. Receive(t, BytesOf("c")) = [shows |-> <<>>, pending |-> <<>>]
  <2>1. "c" \in {"ESC"} \cup PlainCharacters /\ "c" # "ESC" /\ t.pending # <<>>
    BY <1>7 DEF PlainCharacters
  <2>2. Append(t.pending, "c") = <<"ESC", "c">>
    BY <1>7, AppendPair, Zenon
  <2>3. Receives(t, "c") = [shows |-> <<>>, pending |-> <<>>]
    BY <2>1, <2>2, Zenon DEF Receives
  <2>. QED  BY <2>1, <2>3, ControlByte, Zenon
<1>9. g[2].term = [shows |-> <<>>, pending |-> <<>>] /\ g[2].log = <<>>
  <2>1. g[2] = [term |-> Receive(t, BytesOf("c")), log |-> Logs(g[1].log, Order("log_char", "c", 0, 0, means))]
    BY <1>6 DEF Does, Order, t
  <2>2. Logs(g[1].log, Order("log_char", "c", 0, 0, means)) = <<>>
    BY DEF Logs, Order, means
  <2>. QED  BY <1>8, <2>1, <2>2
<1>10. Settled(g[2])
  <2>1. IsSequence(<<>>)
    BY EmptySeq DEF IsSequence
  <2>. QED  BY <1>9, <2>1 DEF Settled, Idle
<1>. QED
  BY <1>1, <1>5, <1>10

-----------------------------------------------------------------------------
(***************************************************************************)
(* Numbers in decimal, as they are written and read.                       *)
(***************************************************************************)
\* The digits of a number, each in front of those of the rest.
DigitSet == {DigitNames[i] : i \in DOMAIN DigitNames}
DigitsTo(d, val, base) ==
  \A n \in 0 .. val : d[n] = IF n < base THEN <<DigitNames[n + 1]>>
                             ELSE Append(d[n \div base], DigitNames[(n % base) + 1])
\* What is written of the last of them: its digits, with zeroes in front.
Spelled(d, val, base, pad) ==
  /\ DigitsTo(d, val, base)
  /\ log_number(val, base, pad) = [i \in 1 .. pad - Len(d[val]) |-> "0"] \o d[val]

\* A number in front of its last digit.
LEMMA Divided ==
  ASSUME NEW base \in {10, 16}, NEW n \in Nat
  PROVE  /\ n % base \in 0 .. base - 1 /\ n \div base \in Nat
         /\ n >= base => n \div base \in 0 .. n - 1
         /\ base = 10 => n = 10 * (n \div 10) + (n % 10)
<1>1. CASE base = 10
  <2>1. n % 10 \in 0 .. 9 /\ n \div 10 \in Nat /\ n = 10 * (n \div 10) + (n % 10)
        /\ (n >= 10 => n \div 10 \in 0 .. n - 1)
    OBVIOUS
  <2>2. 10 - 1 = 9
    OBVIOUS
  <2>. QED  BY <1>1, <2>1, <2>2, Zenon
<1>2. CASE base = 16
  <2>1. n % 16 \in 0 .. 15 /\ n \div 16 \in Nat /\ (n >= 16 => n \div 16 \in 0 .. n - 1)
    OBVIOUS
  <2>2. 16 - 1 = 15 /\ 16 # 10
    OBVIOUS
  <2>. QED  BY <1>2, <2>1, <2>2, Zenon
<1>. QED
  BY <1>1, <1>2

\* log_number spells each number.
LEMMA DigitsRun ==
  ASSUME NEW base \in {10, 16}, NEW val \in Nat, NEW pad
  PROVE  \E d : Spelled(d, val, base, pad)
<1> DEFINE Next(h, n) == IF n < base THEN <<DigitNames[n + 1]>>
                         ELSE Append(h[n \div base], DigitNames[(n % base) + 1])
           Is(h) == h = [n \in 0 .. val |-> Next(h, n)]
           digits == CHOOSE h : Is(h)
           Steps == {k \in 0 .. val : \E h : DigitsTo(h, k, base)}
<1>1. log_number(val, base, pad) = [i \in 1 .. pad - Len(digits[val]) |-> "0"] \o digits[val]
  BY Zenon DEF log_number, digits, Is, Next
<1>2. \A h, k : DigitsTo(h, k, base) <=> \A n \in 0 .. k : h[n] = Next(h, n)
  BY Zenon DEF DigitsTo
<1>3. ASSUME NEW g, NEW h, NEW k \in Nat, \A i \in 0 .. k : g[i] = h[i], NEW n \in 0 .. k
      PROVE  Next(g, n) = Next(h, n)
  <2>1. CASE n < base
    BY <2>1
  <2>2. CASE ~(n < base)
    <3>1. n \div base \in 0 .. k
      BY <2>2, Divided
    <3>2. g[n \div base] = h[n \div base]
      BY <1>3, <3>1, Zenon
    <3>. QED  BY <2>2, <3>2, Zenon
  <2>. QED  BY <2>1, <2>2
<1>4. 0 \in Steps
  <2> DEFINE h == [i \in {0} |-> <<DigitNames[0 + 1]>>]
  <2>1. 0 .. 0 = {0} /\ 0 < base /\ h[0] = <<DigitNames[0 + 1]>>
    OBVIOUS
  <2>. HIDE DEF h
  <2>2. \A n \in 0 .. 0 : h[n] = Next(h, n)
    BY <2>1
  <2>3. DigitsTo(h, 0, base)
    BY <1>2, <2>2, Zenon
  <2>. QED  BY <2>3
<1>5. ASSUME NEW k \in 0 .. val - 1, k \in Steps PROVE k + 1 \in Steps
  <2>1. PICK g : DigitsTo(g, k, base)
    BY <1>5, Zenon
  <2> DEFINE last == IF k + 1 < base THEN <<DigitNames[(k + 1) + 1]>>
                     ELSE Append(g[(k + 1) \div base], DigitNames[((k + 1) % base) + 1])
             h == [i \in 0 .. k + 1 |-> IF i = k + 1 THEN last ELSE g[i]]
  <2>2. /\ k \in Nat /\ k + 1 \in 0 .. val /\ k + 1 \in 0 .. k + 1
        /\ \A n \in 0 .. k + 1 : n # k + 1 => n \in 0 .. k
        /\ \A n \in 0 .. k : n # k + 1 /\ n \in 0 .. k + 1
    OBVIOUS
  <2>. HIDE DEF last
  <2>3. h[k + 1] = last /\ \A n \in 0 .. k : h[n] = g[n]
    BY <2>2
  <2>. HIDE DEF h
  <2>4. ASSUME NEW n \in 0 .. k + 1 PROVE h[n] = Next(h, n)
    <3>1. CASE n = k + 1
      <4>1. CASE k + 1 < base
        <5>1. last = <<DigitNames[(k + 1) + 1]>>
          BY <4>1, Zenon DEF last
        <5>. QED  BY <2>3, <3>1, <4>1, <5>1, Zenon
      <4>2. CASE ~(k + 1 < base)
        <5>1. (k + 1) \div base \in 0 .. k
          BY <2>2, <4>2, Divided
        <5>2. last = Append(g[(k + 1) \div base], DigitNames[((k + 1) % base) + 1])
          BY <4>2, Zenon DEF last
        <5>3. h[(k + 1) \div base] = g[(k + 1) \div base]
          BY <2>3, <5>1, Zenon
        <5>. QED  BY <2>3, <3>1, <4>2, <5>2, <5>3, Zenon
      <4>. QED  BY <4>1, <4>2
    <3>2. CASE n # k + 1
      <4>1. n \in 0 .. k
        BY <2>2, <3>2, Zenon
      <4>2. Next(h, n) = Next(g, n)
        BY <1>3, <2>2, <2>3, <4>1
      <4>3. g[n] = Next(g, n)
        BY <1>2, <2>1, <4>1, Zenon
      <4>. QED  BY <2>3, <4>1, <4>2, <4>3
    <3>. QED  BY <3>1, <3>2
  <2>5. DigitsTo(h, k + 1, base)
    BY <1>2, <2>4, Zenon
  <2>. QED  BY <2>2, <2>5
<1>6. val \in Steps
  <2>. HIDE DEF Steps
  <2>1. \A k \in 0 .. val : k \in Steps
    BY <1>4, <1>5, Upward
  <2>. QED  BY <2>1
<1>7. PICK g : DigitsTo(g, val, base)
  BY <1>6, Zenon
<1> DEFINE f == [n \in 0 .. val |-> g[n]]
<1>8. \A n \in 0 .. val : f[n] = g[n]
  OBVIOUS
<1>9. f = [n \in 0 .. val |-> f[n]]
  OBVIOUS
<1>. HIDE DEF f
<1>10. \A n \in 0 .. val : f[n] = Next(f, n)
  <2>. SUFFICES ASSUME NEW n \in 0 .. val PROVE f[n] = Next(f, n)
    BY Zenon
  <2>1. Next(f, n) = Next(g, n)
    BY <1>3, <1>8
  <2>2. g[n] = Next(g, n)
    BY <1>2, <1>7, Zenon
  <2>. QED  BY <1>8, <2>1, <2>2
<1>11. Is(f)
  BY <1>9, <1>10, Zenon
<1>12. Is(digits)
  <2>. HIDE DEF Is
  <2>. QED  BY <1>11, Zenon DEF digits
<1>. HIDE DEF digits
<1>13. \A n \in 0 .. val : digits[n] = Next(digits, n)
  BY <1>12, Zenon
<1>14. DigitsTo(digits, val, base)
  BY <1>2, <1>13, Zenon
<1>15. Spelled(digits, val, base, pad)
  BY <1>1, <1>14, Zenon DEF Spelled
<1>. QED
  BY <1>15, Zenon

\* They are digits.
LEMMA DigitsTyped ==
  ASSUME NEW base \in {10, 16}, NEW val \in Nat, NEW d, DigitsTo(d, val, base)
  PROVE  \A n \in 0 .. val : d[n] \in Seq(DigitSet)
<1> DEFINE S == {k \in 0 .. val : \A n \in 0 .. k : d[n] \in Seq(DigitSet)}
<1>1. \A i \in 1 .. 16 : DigitNames[i] \in DigitSet
  BY DEF DigitNames, DigitSet
<1>2. ASSUME NEW n \in 0 .. val, n < base PROVE d[n] \in Seq(DigitSet)
  <2>1. DigitNames[n + 1] \in DigitSet
    BY <1>1, <1>2
  <2>2. d[n] = <<DigitNames[n + 1]>>
    BY <1>2, Zenon DEF DigitsTo
  <2>. HIDE DEF DigitSet
  <2>. QED  BY <2>1, <2>2
<1>3. 0 \in S
  BY <1>2
<1>4. ASSUME NEW k \in 0 .. val - 1, k \in S PROVE k + 1 \in S
  <2>1. k + 1 \in 0 .. val /\ \A n \in 0 .. k + 1 : n # k + 1 => n \in 0 .. k
    OBVIOUS
  <2>2. \A n \in 0 .. k : d[n] \in Seq(DigitSet)
    BY <1>4, Zenon
  <2>3. CASE k + 1 < base
    <3>1. d[k + 1] \in Seq(DigitSet)
      BY <1>2, <2>1, <2>3, Zenon
    <3>2. \A n \in 0 .. k + 1 : d[n] \in Seq(DigitSet)
      BY <2>1, <2>2, <3>1, Zenon
    <3>. QED  BY <2>1, <3>2
  <2>4. CASE ~(k + 1 < base)
    <3>1. (k + 1) \div base \in 0 .. k /\ ((k + 1) % base) + 1 \in 1 .. 16
      BY <2>4, Divided
    <3>2. d[(k + 1) \div base] \in Seq(DigitSet) /\ DigitNames[((k + 1) % base) + 1] \in DigitSet
      BY <1>1, <2>2, <3>1, Zenon
    <3>3. d[k + 1] = Append(d[(k + 1) \div base], DigitNames[((k + 1) % base) + 1])
      BY <2>1, <2>4, Zenon DEF DigitsTo
    <3>4. d[k + 1] \in Seq(DigitSet)
      <4>1. \A s \in Seq(DigitSet), e \in DigitSet : Append(s, e) \in Seq(DigitSet)
        <5>. HIDE DEF DigitSet
        <5>. QED  OBVIOUS
      <4>. QED  BY <3>2, <3>3, <4>1, Zenon
    <3>5. \A n \in 0 .. k + 1 : d[n] \in Seq(DigitSet)
      BY <2>1, <2>2, <3>4, Zenon
    <3>. QED  BY <2>1, <3>5
  <2>. QED  BY <2>3, <2>4
<1>5. \A k \in 0 .. val : k \in S
  <2>. HIDE DEF S
  <2>. QED  BY <1>3, <1>4, Upward
<1>. QED
  <2>1. ASSUME NEW n \in 0 .. val PROVE d[n] \in Seq(DigitSet)
    <3>1. n \in 0 .. n
      OBVIOUS
    <3>. QED  BY <1>5, <3>1, Zenon
  <2>. QED  BY <2>1

\* So a number is written with digits alone.
LEMMA NumberTyped ==
  ASSUME NEW base \in {10, 16}, NEW val \in Nat, NEW pad \in Nat
  PROVE  log_number(val, base, pad) \in Seq(DigitSet)
<1>1. PICK d : Spelled(d, val, base, pad)
  BY DigitsRun, Zenon
<1>11. /\ DigitsTo(d, val, base)
       /\ log_number(val, base, pad) = [i \in 1 .. pad - Len(d[val]) |-> "0"] \o d[val]
  BY <1>1, Zenon DEF Spelled
<1>2. d[val] \in Seq(DigitSet)
  <2>1. val \in 0 .. val
    OBVIOUS
  <2>. QED  BY <1>11, <2>1, DigitsTyped, Zenon
<1>3. "0" \in DigitSet
  BY DEF DigitNames, DigitSet
<1> DEFINE k == pad - Len(d[val])
           zeros == [i \in 1 .. k |-> "0"]
<1>4. k \in Int
  BY <1>2
<1>. HIDE DEF k, DigitSet
<1>5. zeros \in Seq(DigitSet)
  <2> DEFINE j == IF k < 0 THEN 0 ELSE k
  <2>1. j \in Nat /\ 1 .. k = 1 .. j
    BY <1>4
  <2>2. zeros = [i \in 1 .. j |-> "0"]
    BY <2>1, Zenon
  <2>. HIDE DEF j, zeros
  <2>3. [i \in 1 .. j |-> "0"] \in Seq(DigitSet)
    BY <1>3, <2>1
  <2>. QED  BY <2>2, <2>3
<1>. HIDE DEF zeros
<1>6. log_number(val, base, pad) = zeros \o d[val]
  BY <1>11, Zenon DEF zeros, k
<1>. QED
  BY <1>2, <1>5, <1>6

\* What a number is read as.
LEMMA DigitsDiffer ==
  /\ \A i \in 1 .. 16 : DigitNames[i] \in DigitSet /\ DigitValue(DigitNames[i]) = i - 1
  /\ \A ch \in DigitSet : \E i \in 1 .. 16 : ch = DigitNames[i]
<1>1. DOMAIN DigitNames = 1 .. 16
  BY DEF DigitNames
<1>2. \A i, j \in 1 .. 16 : DigitNames[i] = DigitNames[j] => i = j
  BY DEF DigitNames
<1>. HIDE DEF DigitNames
<1>3. ASSUME NEW i \in 1 .. 16 PROVE DigitNames[i] \in DigitSet /\ DigitValue(DigitNames[i]) = i - 1
  <2> DEFINE j == CHOOSE j \in DOMAIN DigitNames : DigitNames[j] = DigitNames[i]
  <2>1. j \in DOMAIN DigitNames /\ DigitNames[j] = DigitNames[i]
    BY <1>1, Zenon
  <2>2. DigitValue(DigitNames[i]) = j - 1
    BY Zenon DEF DigitValue
  <2>. HIDE DEF j
  <2>3. j = i
    BY <1>1, <1>2, <2>1
  <2>. QED  BY <1>1, <2>2, <2>3 DEF DigitSet
<1>. QED
  BY <1>1, <1>3 DEF DigitSet

\* Value, digit by digit.
LEMMA ValueRuns ==
  ASSUME NEW digits \in Seq(DigitSet)
  PROVE  \E v : /\ Value(digits) = v[Len(digits)] /\ v[0] = 0
                /\ \A i \in 0 .. Len(digits) : v[i] \in Nat
                /\ \A i \in 1 .. Len(digits) : v[i] = 10 * v[i - 1] + DigitValue(digits[i])
<1> DEFINE m == Len(digits)
           Step(i, c) == 10 * c + DigitValue(digits[i])
           IsIn(h) == h = [n \in 0 .. m |-> IF n = 0 THEN 0 ELSE 10 * h[n - 1] + DigitValue(digits[n])]
           F == [x \in (1 .. m) \X Nat |-> Step(x[1], x[2])]
           value == CHOOSE h : IsIn(h)
<1>1. m \in Nat /\ \A i \in 1 .. m : DigitValue(digits[i]) \in Nat
  <2>1. m \in Nat /\ \A i \in 1 .. m : digits[i] \in DigitSet
    BY LenProperties, ElementOfSeq
  <2>2. \A ch \in DigitSet : DigitValue(ch) \in Nat
    BY DigitsDiffer
  <2>. QED  BY <2>1, <2>2, Zenon
<1>. HIDE DEF m
<1>2. \A i \in 1 .. m, c \in Nat : Step(i, c) \in Nat
  BY <1>1
<1>3. F \in [(1 .. m) \X Nat -> Nat] /\ \A i \in 1 .. m, c \in Nat : F[<<i, c>>] = Step(i, c)
  <2>. HIDE DEF Step
  <2>. QED  BY <1>2
<1>. HIDE DEF F
<1>4. PICK h : GoesOn(h, F, 0, m, Nat)
  BY <1>1, <1>3, RecursionRuns
<1>5. h \in [0 .. m -> Nat] /\ h[0] = 0 /\ \A n \in 1 .. m : h[n] = Step(n, h[n - 1])
  <2>1. ASSUME NEW n \in 1 .. m PROVE h[n] = Step(n, h[n - 1])
    <3>1. n - 1 \in 0 .. m /\ n \in 1 .. m
      BY <1>1
    <3>. HIDE DEF Step
    <3>. QED  BY <1>3, <1>4, <3>1 DEF GoesOn
  <2>. HIDE DEF Step
  <2>. QED  BY <1>4, <2>1 DEF GoesOn
<1>6. IsIn(h)
  <2>1. \A n \in 0 .. m : h[n] = IF n = 0 THEN 0 ELSE Step(n, h[n - 1])
    <3>. HIDE DEF Step
    <3>. QED  BY <1>1, <1>5
  <2>2. h = [n \in 0 .. m |-> h[n]]
    BY <1>5
  <2>. QED  BY <2>1, <2>2, Zenon
<1>7. IsIn(value)
  BY <1>6, Zenon
<1>8. Value(digits) = value[m]
  BY Zenon DEF Value, value, m
<1>. HIDE DEF value
<1>9. \A n \in 0 .. m : value[n] = IF n = 0 THEN 0 ELSE Step(n, value[n - 1])
  BY <1>7, Zenon
<1>. HIDE DEF IsIn, Step
<1>10. value[0] = 0 /\ \A n \in 1 .. m : value[n] = Step(n, value[n - 1])
  <2>1. 0 \in 0 .. m /\ \A n \in 1 .. m : n \in 0 .. m /\ n # 0
    BY <1>1
  <2>. QED  BY <1>9, <2>1, Zenon
<1> DEFINE S == {n \in 0 .. m : value[n] \in Nat}
<1>11. 0 \in S
  BY <1>1, <1>10
<1>12. ASSUME NEW k \in 0 .. m - 1, k \in S PROVE k + 1 \in S
  <2>1. k + 1 \in 1 .. m /\ k + 1 \in 0 .. m /\ (k + 1) - 1 = k
    BY <1>1
  <2>2. value[k + 1] = Step(k + 1, value[(k + 1) - 1])
    BY <1>10, <2>1, Zenon
  <2>3. value[k + 1] = Step(k + 1, value[k])
    BY <2>1, <2>2
  <2>. QED  BY <1>2, <1>12, <2>1, <2>3
<1>13. \A n \in 0 .. m : value[n] \in Nat
  <2>. HIDE DEF S
  <2>1. \A n \in 0 .. m : n \in S
    BY <1>1, <1>11, <1>12, Upward
  <2>. QED  BY <2>1 DEF S
<1>. QED
  BY <1>8, <1>10, <1>13, Zenon DEF m, Step

\* A digit more: ten times the number, and its value.
LEMMA ValueAppends ==
  ASSUME NEW digits \in Seq(DigitSet), NEW ch \in DigitSet
  PROVE  /\ Value(digits) \in Nat
         /\ Value(<<ch>>) = DigitValue(ch)
         /\ Value(Append(digits, ch)) = 10 * Value(digits) + DigitValue(ch)
<1> DEFINE m == Len(digits)
           more == Append(digits, ch)
           one == <<ch>>
<1>1. /\ m \in Nat /\ more \in Seq(DigitSet) /\ Len(more) = m + 1 /\ more[m + 1] = ch
      /\ \A i \in 1 .. m : more[i] = digits[i]
  <2>. HIDE DEF DigitSet
  <2>. QED  OBVIOUS
<1>2. one \in Seq(DigitSet) /\ Len(one) = 1 /\ one[1] = ch /\ DigitValue(ch) \in Nat
  <2>1. DigitValue(ch) \in Nat
    BY DigitsDiffer
  <2>. HIDE DEF DigitSet
  <2>. QED  BY <2>1
<1>. HIDE DEF m, more, one
<1>3. PICK v : /\ Value(digits) = v[m] /\ v[0] = 0 /\ \A i \in 0 .. m : v[i] \in Nat
               /\ \A i \in 1 .. m : v[i] = 10 * v[i - 1] + DigitValue(digits[i])
  BY ValueRuns, Zenon DEF m
<1>4. PICK w : /\ Value(more) = w[Len(more)] /\ w[0] = 0 /\ \A i \in 0 .. Len(more) : w[i] \in Nat
               /\ \A i \in 1 .. Len(more) : w[i] = 10 * w[i - 1] + DigitValue(more[i])
  BY <1>1, ValueRuns, Zenon
<1>5. PICK u : /\ Value(one) = u[Len(one)] /\ u[0] = 0 /\ \A i \in 0 .. Len(one) : u[i] \in Nat
               /\ \A i \in 1 .. Len(one) : u[i] = 10 * u[i - 1] + DigitValue(one[i])
  BY <1>2, ValueRuns, Zenon
<1>6. w[m] = v[m]
  <2>1. ASSUME NEW i \in 1 .. m, w[i - 1] = v[i - 1] PROVE w[i] = v[i]
    <3>1. i \in 1 .. Len(more)
      BY <1>1
    <3>. QED  BY <1>1, <1>3, <1>4, <2>1, <3>1, Zenon
  <2>2. m \in Nat /\ w[0] = v[0]
    BY <1>1, <1>3, <1>4, Zenon
  <2>. QED  BY <2>1, <2>2, AgreeUpTo, Zenon
<1>7. Value(more) = 10 * Value(digits) + DigitValue(ch)
  <2>1. m + 1 \in 1 .. Len(more) /\ (m + 1) - 1 = m
    BY <1>1
  <2>2. w[m + 1] = 10 * w[(m + 1) - 1] + DigitValue(more[m + 1])
    BY <1>4, <2>1, Zenon
  <2>. QED  BY <1>1, <1>3, <1>4, <1>6, <2>1, <2>2, Zenon
<1>8. Value(one) = DigitValue(ch)
  <2>1. 1 \in 1 .. Len(one) /\ 1 - 1 = 0
    BY <1>2
  <2>2. u[1] = 10 * u[1 - 1] + DigitValue(one[1])
    BY <1>5, <2>1, Zenon
  <2>3. u[1] = 10 * 0 + DigitValue(ch)
    BY <1>2, <1>5, <2>1, <2>2, Zenon
  <2>. QED  BY <1>2, <1>5, <2>3
<1>9. Value(digits) \in Nat
  <2>1. m \in 0 .. m
    BY <1>1
  <2>. QED  BY <1>3, <2>1, Zenon
<1>. QED
  BY <1>7, <1>8, <1>9, Zenon DEF more, one

\* A number in decimal is read as itself.
LEMMA DecimalRead ==
  ASSUME NEW val \in Nat
  PROVE  log_number(val, 10, 0) \in Seq(DigitSet) /\ Value(log_number(val, 10, 0)) = val
<1>0. PICK d : Spelled(d, val, 10, 0)
  BY DigitsRun
<1>1. /\ DigitsTo(d, val, 10)
      /\ log_number(val, 10, 0) = [i \in 1 .. 0 - Len(d[val]) |-> "0"] \o d[val]
  BY <1>0, Zenon DEF Spelled
<1>2. \A n \in 0 .. val : d[n] \in Seq(DigitSet)
  BY <1>1, DigitsTyped
<1>3. log_number(val, 10, 0) = d[val]
  <2>1. d[val] \in Seq(DigitSet)
    BY <1>2
  <2>. HIDE DEF DigitSet
  <2>2. 1 .. 0 - Len(d[val]) = {}
    BY <2>1
  <2>3. [i \in 1 .. 0 - Len(d[val]) |-> "0"] = <<>>
    BY <2>2
  <2>4. <<>> \o d[val] = d[val]
    BY <2>1
  <2>. QED  BY <1>1, <2>3, <2>4, Zenon
<1> DEFINE S == {k \in 0 .. val : \A n \in 0 .. k : Value(d[n]) = n}
<1>4. ASSUME NEW n \in 0 .. val, n < 10 PROVE Value(d[n]) = n
  <2>1. d[n] = <<DigitNames[n + 1]>>
    BY <1>1, <1>4, Zenon DEF DigitsTo
  <2>2. n + 1 \in 1 .. 16 /\ (n + 1) - 1 = n
    BY <1>4
  <2>3. DigitNames[n + 1] \in DigitSet /\ DigitValue(DigitNames[n + 1]) = (n + 1) - 1
    BY <2>2, DigitsDiffer, Zenon
  <2>4. <<>> \in Seq(DigitSet)
    BY EmptySeq
  <2>5. Value(<<DigitNames[n + 1]>>) = DigitValue(DigitNames[n + 1])
    BY <2>3, <2>4, ValueAppends, Zenon
  <2>. QED  BY <2>1, <2>2, <2>3, <2>5, Zenon
<1>5. 0 \in S
  BY <1>4
<1>6. ASSUME NEW k \in 0 .. val - 1, k \in S PROVE k + 1 \in S
  <2>1. k + 1 \in 0 .. val /\ \A n \in 0 .. k + 1 : n # k + 1 => n \in 0 .. k
    OBVIOUS
  <2>2. \A n \in 0 .. k : Value(d[n]) = n
    BY <1>6, Zenon
  <2>3. Value(d[k + 1]) = k + 1
    <3>1. CASE k + 1 < 10
      BY <1>4, <2>1, <3>1, Zenon
    <3>2. CASE ~(k + 1 < 10)
      <4> DEFINE q == (k + 1) \div 10
                 r == (k + 1) % 10
      <4>1. q \in 0 .. k /\ q \in 0 .. val /\ r \in 0 .. 9 /\ k + 1 = 10 * q + r
        BY <3>2
      <4>2. d[k + 1] = Append(d[q], DigitNames[r + 1])
        BY <1>1, <2>1, <3>2, Zenon DEF DigitsTo
      <4>. HIDE DEF q, r
      <4>3. r + 1 \in 1 .. 16 /\ (r + 1) - 1 = r
        BY <4>1
      <4>4. DigitNames[r + 1] \in DigitSet /\ DigitValue(DigitNames[r + 1]) = (r + 1) - 1
        BY <4>3, DigitsDiffer, Zenon
      <4>5. Value(Append(d[q], DigitNames[r + 1])) = 10 * Value(d[q]) + DigitValue(DigitNames[r + 1])
        BY <1>2, <4>1, <4>4, ValueAppends, Zenon
      <4>6. Value(d[q]) = q
        BY <2>2, <4>1, Zenon
      <4>. QED  BY <4>1, <4>2, <4>3, <4>4, <4>5, <4>6, Zenon
    <3>. QED  BY <3>1, <3>2
  <2>4. \A n \in 0 .. k + 1 : Value(d[n]) = n
    BY <2>1, <2>2, <2>3, Zenon
  <2>. QED  BY <2>1, <2>4
<1>7. \A k \in 0 .. val : k \in S
  <2>. HIDE DEF S
  <2>. QED  BY <1>5, <1>6, Upward
<1>8. val \in 0 .. val
  OBVIOUS
<1>. QED
  BY <1>2, <1>3, <1>7, <1>8, Zenon

-----------------------------------------------------------------------------
(***************************************************************************)
(* The messages.                                                           *)
(***************************************************************************)
\* What a format gives, character by character.
Literal(out, args) == Read(FALSE, out, args)
Percent(out, args) == Read(TRUE, out, args)

\* k_log_vfmt reads the format from left to right.
LEMMA FormatRuns ==
  ASSUME NEW arguments, NEW fmt, Len(fmt) \in Nat
  PROVE  \E g : /\ g[0] = Literal(<<>>, arguments)
                /\ \A i \in 1 .. Len(fmt) : g[i] = Reads(g[i - 1], fmt[i])
                /\ k_log_vfmt(fmt, arguments) = g[Len(fmt)].out
<1> DEFINE n == Len(fmt)
           t == Literal(<<>>, arguments)
           Next(x, i) == Reads(x, fmt[i])
           Is(h) == h = [i \in 0 .. n |-> IF i = 0 THEN t ELSE Next(h[i - 1], i)]
           run == CHOOSE h : Is(h)
           Runs(g, k) == g[0] = t /\ \A i \in 1 .. k : g[i] = Next(g[i - 1], i)
           Steps == {k \in 0 .. n : \E g : Runs(g, k)}
<1>1. n \in Nat
  OBVIOUS
<1>2. k_log_vfmt(fmt, arguments) = run[n].out
  BY Zenon DEF k_log_vfmt, run, Is, Next, n, t, Literal
<1>. HIDE DEF n, Next, t
<1>3. 0 \in Steps
  <2>1. Runs([i \in 0 .. 0 |-> t], 0)
    OBVIOUS
  <2>. HIDE DEF Runs
  <2>. QED  BY <1>1, <2>1
<1>4. ASSUME NEW k \in 0 .. n - 1, k \in Steps
      PROVE  k + 1 \in Steps
  <2>1. PICK g : Runs(g, k)
    BY <1>4, Zenon
  <2> DEFINE h == [i \in 0 .. k + 1 |-> IF i = k + 1 THEN Next(g[k], k + 1) ELSE g[i]]
  <2>2. k \in 0 .. k /\ k + 1 \in 0 .. n
    BY <1>1
  <2>3. \A i \in 0 .. k + 1 : h[i] = IF i = k + 1 THEN Next(g[k], k + 1) ELSE g[i]
    OBVIOUS
  <2>. HIDE DEF h
  <2>4. h[0] = t
    BY <2>1, <2>3
  <2>5. ASSUME NEW i \in 1 .. k + 1
        PROVE  h[i] = Next(h[i - 1], i)
    <3>1. i \in 0 .. k + 1 /\ i - 1 \in 0 .. k + 1 /\ i - 1 # k + 1
      OBVIOUS
    <3>2. h[i - 1] = g[i - 1]
      BY <2>3, <3>1
    <3>3. CASE i = k + 1
      <4>1. i - 1 = k
        BY <3>3
      <4>. QED  BY <2>3, <3>1, <3>2, <3>3, <4>1
    <3>4. CASE i # k + 1
      <4>1. i \in 1 .. k
        BY <3>4
      <4>. QED  BY <2>1, <2>3, <3>1, <3>2, <3>4, <4>1
    <3>. QED  BY <3>3, <3>4
  <2>6. Runs(h, k + 1)
    BY <2>4, <2>5
  <2>. HIDE DEF Runs
  <2>. QED  BY <2>2, <2>6
<1>5. n \in Steps
  <2>. HIDE DEF Steps
  <2>1. \A k \in 0 .. n : k \in Steps
    BY <1>1, <1>3, <1>4, Upward
  <2>. QED  BY <1>1, <2>1
<1>6. PICK g : Runs(g, n)
  BY <1>5, Zenon
<1> DEFINE f == [i \in 0 .. n |-> g[i]]
<1>7. Is(f)
  <2>1. \A i \in 0 .. n : g[i] = IF i = 0 THEN t ELSE Next(g[i - 1], i)
    BY <1>6
  <2>2. \A i \in 0 .. n : f[i] = IF i = 0 THEN t ELSE Next(f[i - 1], i)
    <3>1. \A i \in 0 .. n : i # 0 => i - 1 \in 0 .. n
      BY <1>1
    <3>. QED  BY <2>1, <3>1
  <2>3. f = [i \in 0 .. n |-> f[i]]
    OBVIOUS
  <2>. HIDE DEF f
  <2>. QED  BY <2>2, <2>3, Zenon
<1>8. Is(run)
  <2>. HIDE DEF f, Is
  <2>. QED  BY <1>7, Zenon DEF run
<1>. HIDE DEF run
<1>9. \A i \in 0 .. n : run[i] = IF i = 0 THEN t ELSE Next(run[i - 1], i)
  BY <1>8, Zenon
<1>10. run[0] = t /\ \A i \in 1 .. n : run[i] = Next(run[i - 1], i)
  <2>1. 0 \in 0 .. n /\ \A i \in 1 .. n : i \in 0 .. n /\ i # 0
    BY <1>1
  <2>. QED  BY <1>9, <2>1, Zenon
<1>. QED
  BY <1>2, <1>10, Zenon DEF n, Next, t

\* A % begins a conversion.
LEMMA ReadsPercent ==
  ASSUME NEW s, NEW out, NEW args, s = Literal(out, args)
  PROVE  Reads(s, "%") = Percent(out, args)
<1>1. s.percent = FALSE /\ s.out = out /\ s.args = args
  BY DEF Read, Literal, Percent
<1>. QED
  BY <1>1, Zenon DEF Reads, Literal, Percent

\* A character that is none is written.
LEMMA ReadsLiteral ==
  ASSUME NEW s, NEW out, NEW args, s = Literal(out, args), NEW ch, ch # "%"
  PROVE  Reads(s, ch) = Literal(Append(out, ch), args)
<1>1. s.percent = FALSE /\ s.out = out /\ s.args = args
  BY DEF Read, Literal, Percent
<1>. QED
  BY <1>1, Zenon DEF Reads, Literal, Percent

\* The arguments that a conversion leaves.
ArgsLeft(ch, args) == IF ch \in {"d", "i", "x", "X", "f", "c", "s"} THEN Tail(args) ELSE args

\* The character after a % is replaced by what it converts.
LEMMA ReadsConverts ==
  ASSUME NEW s, NEW out, NEW args, s = Percent(out, args), NEW ch
  PROVE  Reads(s, ch) = Literal(out \o Converted(ch, args), ArgsLeft(ch, args))
<1>1. s.percent = TRUE /\ s.out = out /\ s.args = args
  BY DEF Read, Literal, Percent
<1>. QED
  BY <1>1, Zenon DEF Reads, Literal, Percent, ArgsLeft

\* What the conversions in use give.
LEMMA Conversions ==
  ASSUME NEW args
  PROVE  /\ Converted("d", args) = log_number(Head(args), 10, 0)
         /\ Converted("i", args) = log_number(Head(args), 10, 0)
         /\ Converted("x", args) = log_number(Head(args), 16, HexWidth)
         /\ Converted("%", args) = <<"%">>
         /\ Converted("c", args) = <<Head(args)>>
         /\ Converted("s", args) = Head(args)
         /\ Converted("f", args) = <<>>
  BY DEF Converted

\* What the messages are written with can be written.
LEMMA TextsWritten ==
  /\ \A ch \in Logged : /\ k_log_vfmt(<<"%", "c">>, <<ch>>) \in Seq(Writable)
                        /\ k_log_vfmt(<<"%", "s", "a">>, << <<ch, ch>> >>) \in Seq(Writable)
  /\ \A n \in LoggedNumbers : /\ k_log_vfmt(<<"%", "x", "%", "%">>, <<n>>) \in Seq(Writable)
                              /\ k_log_vfmt(<<"%", "f", "%", "d">>, <<n, n>>) \in Seq(Writable)
                              /\ k_log_vfmt(FaultFormat, <<n>>) \in Seq(Writable)
<1>1. /\ LoggedNumbers \subseteq Nat /\ HexWidth \in Nat /\ "\n" \in Logged
  <2>1. DOMAIN BoxBytes \cup {"\n"} \subseteq Logged
    BY MonitorAssumption, Zenon
  <2>. QED  BY <2>1, MonitorAssumption
<1>2. "%" \in Writable /\ "F" \in Writable /\ "a" \in Writable /\ "\n" \in Writable
      /\ \A ch \in Logged : ch \in Writable
  BY <1>1 DEF Writable, PlainCharacters
<1> DEFINE none == <<>>
<1>3. none \in Seq(Writable) /\ \A s \in Seq(DigitSet) : s \in Seq(Writable)
  <2>1. DigitSet \subseteq Writable
    BY DEF DigitSet, Writable, PlainCharacters
  <2>. HIDE DEF DigitSet, Writable
  <2>. QED  BY <2>1
<1>4. ASSUME NEW s \in Seq(Writable), NEW u \in Seq(Writable), NEW ch \in Writable
      PROVE  s \o u \in Seq(Writable) /\ Append(s, ch) \in Seq(Writable)
             /\ <<ch>> \in Seq(Writable) /\ <<ch, ch>> \in Seq(Writable)
  <2>. HIDE DEF Writable
  <2>. QED  OBVIOUS
<1>5. 1 - 1 = 0 /\ 2 - 1 = 1 /\ 3 - 1 = 2 /\ 4 - 1 = 3 /\ 5 - 1 = 4
  OBVIOUS
<1>. HIDE DEF none
<1>6. ASSUME NEW ch \in Logged PROVE k_log_vfmt(<<"%", "c">>, <<ch>>) \in Seq(Writable)
  <2> DEFINE fmt == <<"%", "c">>
             args == <<ch>>
  <2>1. Len(fmt) = 2 /\ Len(fmt) \in Nat /\ fmt[1] = "%" /\ fmt[2] = "c" /\ Head(args) = ch
        /\ 1 \in 1 .. 2 /\ 2 \in 1 .. 2
    OBVIOUS
  <2>. HIDE DEF fmt, args
  <2>2. PICK g : /\ g[0] = Literal(none, args)
                 /\ \A i \in 1 .. Len(fmt) : g[i] = Reads(g[i - 1], fmt[i])
                 /\ k_log_vfmt(fmt, args) = g[Len(fmt)].out
    BY <2>1, FormatRuns, Zenon DEF none
  <2>3. g[1] = Reads(g[0], "%") /\ g[2] = Reads(g[1], "c")
    BY <1>5, <2>1, <2>2
  <2>4. g[1] = Percent(none, args)
    BY <2>2, <2>3, ReadsPercent
  <2>5. g[2] = Literal(none \o Converted("c", args), ArgsLeft("c", args))
    BY <2>3, <2>4, ReadsConverts
  <2>6. g[2].out = none \o Converted("c", args)
    BY <2>5 DEF Read, Literal, Percent
  <2>7. none \o Converted("c", args) \in Seq(Writable)
    <3>1. Converted("c", args) = <<ch>> /\ ch \in Writable
      BY <1>2, <2>1, Conversions, Zenon
    <3>. QED  BY <1>3, <1>4, <3>1
  <2>. QED  BY <2>1, <2>2, <2>6, <2>7 DEF fmt, args
<1>7. ASSUME NEW ch \in Logged PROVE k_log_vfmt(<<"%", "s", "a">>, << <<ch, ch>> >>) \in Seq(Writable)
  <2> DEFINE fmt == <<"%", "s", "a">>
             args == << <<ch, ch>> >>
  <2>1. Len(fmt) = 3 /\ Len(fmt) \in Nat /\ fmt[1] = "%" /\ fmt[2] = "s" /\ fmt[3] = "a" /\ Head(args) = <<ch, ch>>
        /\ 1 \in 1 .. 3 /\ 2 \in 1 .. 3 /\ 3 \in 1 .. 3 /\ "a" # "%"
    OBVIOUS
  <2>. HIDE DEF fmt, args
  <2>2. PICK g : /\ g[0] = Literal(none, args)
                 /\ \A i \in 1 .. Len(fmt) : g[i] = Reads(g[i - 1], fmt[i])
                 /\ k_log_vfmt(fmt, args) = g[Len(fmt)].out
    BY <2>1, FormatRuns, Zenon DEF none
  <2>3. g[1] = Reads(g[0], "%") /\ g[2] = Reads(g[1], "s") /\ g[3] = Reads(g[2], "a")
    BY <1>5, <2>1, <2>2
  <2>4. g[1] = Percent(none, args)
    BY <2>2, <2>3, ReadsPercent
  <2> DEFINE rest == ArgsLeft("s", args)
  <2>5. g[2] = Literal(none \o Converted("s", args), rest)
    BY <2>3, <2>4, ReadsConverts
  <2>6. g[3] = Literal(Append(none \o Converted("s", args), "a"), rest)
    BY <2>1, <2>3, <2>5, ReadsLiteral
  <2>7. g[3].out = Append(none \o Converted("s", args), "a")
    BY <2>6 DEF Read, Literal, Percent
  <2>8. none \o Converted("s", args) \in Seq(Writable)
    <3>1. Converted("s", args) = <<ch, ch>>
      BY <2>1, Conversions, Zenon
    <3> DEFINE pair == <<ch, ch>>
    <3>2. pair \in Seq(Writable)
      BY <1>2, <1>3, <1>4
    <3>. HIDE DEF pair
    <3>3. none \o pair \in Seq(Writable)
      BY <1>3, <1>4, <3>2
    <3>. QED  BY <3>1, <3>3, Zenon DEF pair
  <2>9. Append(none \o Converted("s", args), "a") \in Seq(Writable)
    BY <1>2, <1>4, <2>8
  <2>. QED  BY <2>1, <2>2, <2>7, <2>9 DEF fmt, args
<1>8. ASSUME NEW n \in LoggedNumbers PROVE k_log_vfmt(<<"%", "x", "%", "%">>, <<n>>) \in Seq(Writable)
  <2> DEFINE fmt == <<"%", "x", "%", "%">>
             args == <<n>>
  <2>1. Len(fmt) = 4 /\ Len(fmt) \in Nat /\ fmt[1] = "%" /\ fmt[2] = "x" /\ fmt[3] = "%" /\ fmt[4] = "%"
        /\ Head(args) = n /\ 1 \in 1 .. 4 /\ 2 \in 1 .. 4 /\ 3 \in 1 .. 4 /\ 4 \in 1 .. 4
    OBVIOUS
  <2>. HIDE DEF fmt, args
  <2>2. PICK g : /\ g[0] = Literal(none, args)
                 /\ \A i \in 1 .. Len(fmt) : g[i] = Reads(g[i - 1], fmt[i])
                 /\ k_log_vfmt(fmt, args) = g[Len(fmt)].out
    BY <2>1, FormatRuns, Zenon DEF none
  <2>3. g[1] = Reads(g[0], "%") /\ g[2] = Reads(g[1], "x") /\ g[3] = Reads(g[2], "%") /\ g[4] = Reads(g[3], "%")
    BY <1>5, <2>1, <2>2
  <2>4. g[1] = Percent(none, args)
    BY <2>2, <2>3, ReadsPercent
  <2> DEFINE out == none \o Converted("x", args)
             rest == ArgsLeft("x", args)
  <2>5. g[2] = Literal(out, rest)
    BY <2>3, <2>4, ReadsConverts
  <2>6. out \in Seq(Writable)
    <3>1. Converted("x", args) \in Seq(Writable)
      BY <1>1, <1>3, <2>1, Conversions, NumberTyped
    <3>. QED  BY <1>3, <1>4, <3>1
  <2>. HIDE DEF out
  <2>7. g[3] = Percent(out, rest)
    BY <2>3, <2>5, ReadsPercent
  <2>8. g[4] = Literal(out \o Converted("%", rest), ArgsLeft("%", rest))
    BY <2>3, <2>7, ReadsConverts
  <2>9. g[4].out = out \o Converted("%", rest)
    BY <2>8 DEF Read, Literal, Percent
  <2>10. out \o Converted("%", rest) \in Seq(Writable)
    BY <1>2, <1>4, <2>6, Conversions
  <2>. QED  BY <2>1, <2>2, <2>9, <2>10 DEF fmt, args
<1>9. ASSUME NEW n \in LoggedNumbers PROVE k_log_vfmt(<<"%", "f", "%", "d">>, <<n, n>>) \in Seq(Writable)
  <2> DEFINE fmt == <<"%", "f", "%", "d">>
             args == <<n, n>>
  <2>1. Len(fmt) = 4 /\ Len(fmt) \in Nat /\ fmt[1] = "%" /\ fmt[2] = "f" /\ fmt[3] = "%" /\ fmt[4] = "d"
        /\ Head(ArgsLeft("f", args)) = n /\ 1 \in 1 .. 4 /\ 2 \in 1 .. 4 /\ 3 \in 1 .. 4 /\ 4 \in 1 .. 4
    BY DEF ArgsLeft
  <2>. HIDE DEF fmt, args
  <2>2. PICK g : /\ g[0] = Literal(none, args)
                 /\ \A i \in 1 .. Len(fmt) : g[i] = Reads(g[i - 1], fmt[i])
                 /\ k_log_vfmt(fmt, args) = g[Len(fmt)].out
    BY <2>1, FormatRuns, Zenon DEF none
  <2>3. g[1] = Reads(g[0], "%") /\ g[2] = Reads(g[1], "f") /\ g[3] = Reads(g[2], "%") /\ g[4] = Reads(g[3], "d")
    BY <1>5, <2>1, <2>2
  <2>4. g[1] = Percent(none, args)
    BY <2>2, <2>3, ReadsPercent
  <2> DEFINE out == none \o Converted("f", args)
             rest == ArgsLeft("f", args)
  <2>5. g[2] = Literal(out, rest)
    BY <2>3, <2>4, ReadsConverts
  <2>6. out \in Seq(Writable)
    <3>1. Converted("f", args) = none
      BY Conversions, Zenon DEF none
    <3>. QED  BY <1>2, <1>3, <1>4, <3>1
  <2>. HIDE DEF out, rest
  <2>7. g[3] = Percent(out, rest)
    BY <2>3, <2>5, ReadsPercent
  <2>8. g[4] = Literal(out \o Converted("d", rest), ArgsLeft("d", rest))
    BY <2>3, <2>7, ReadsConverts
  <2>9. g[4].out = out \o Converted("d", rest)
    BY <2>8 DEF Read, Literal, Percent
  <2>10. out \o Converted("d", rest) \in Seq(Writable)
    <3>1. Converted("d", rest) \in Seq(Writable)
      BY <1>1, <1>3, <2>1, Conversions, DecimalRead DEF rest
    <3>. QED  BY <1>2, <1>4, <2>6, <3>1
  <2>. QED  BY <2>1, <2>2, <2>9, <2>10 DEF fmt, args
<1>10. ASSUME NEW n \in LoggedNumbers PROVE k_log_vfmt(FaultFormat, <<n>>) \in Seq(Writable)
  <2> DEFINE fmt == <<"\n", "F", "%", "i", "%">>
             args == <<n>>
  <2>1. Len(fmt) = 5 /\ Len(fmt) \in Nat /\ fmt[1] = "\n" /\ fmt[2] = "F" /\ fmt[3] = "%" /\ fmt[4] = "i"
        /\ fmt[5] = "%" /\ Head(args) = n /\ 1 \in 1 .. 5 /\ 2 \in 1 .. 5 /\ 3 \in 1 .. 5 /\ 4 \in 1 .. 5
        /\ 5 \in 1 .. 5 /\ "\n" # "%" /\ "F" # "%"
    OBVIOUS
  <2>. HIDE DEF fmt, args
  <2>2. PICK g : /\ g[0] = Literal(none, args)
                 /\ \A i \in 1 .. Len(fmt) : g[i] = Reads(g[i - 1], fmt[i])
                 /\ k_log_vfmt(fmt, args) = g[Len(fmt)].out
    BY <2>1, FormatRuns, Zenon DEF none
  <2>3. g[1] = Reads(g[0], "\n") /\ g[2] = Reads(g[1], "F") /\ g[3] = Reads(g[2], "%") /\ g[4] = Reads(g[3], "i")
        /\ g[5] = Reads(g[4], "%")
    BY <1>5, <2>1, <2>2
  <2>4. g[1] = Literal(Append(none, "\n"), args)
    BY <2>1, <2>2, <2>3, ReadsLiteral
  <2> DEFINE front == Append(Append(none, "\n"), "F")
             out == front \o Converted("i", args)
             rest == ArgsLeft("i", args)
  <2>5. g[2] = Literal(front, args)
    BY <2>1, <2>3, <2>4, ReadsLiteral
  <2>6. g[3] = Percent(front, args)
    BY <2>3, <2>5, ReadsPercent
  <2>7. g[4] = Literal(out, rest)
    BY <2>3, <2>6, ReadsConverts
  <2>8. out \in Seq(Writable)
    <3>1. Converted("i", args) \in Seq(Writable)
      BY <1>1, <1>3, <2>1, Conversions, DecimalRead
    <3>2. front \in Seq(Writable)
      <4>1. Append(none, "\n") \in Seq(Writable)
        BY <1>2, <1>3, <1>4, Zenon
      <4>. QED  BY <1>2, <1>4, <4>1
    <3>. QED  BY <1>2, <1>4, <3>1, <3>2
  <2>. HIDE DEF out
  <2>9. g[5] = Percent(out, rest)
    BY <2>3, <2>7, ReadsPercent
  <2>10. g[5].out = out
    BY <2>9 DEF Read, Literal, Percent
  <2>. QED  BY <2>1, <2>2, <2>8, <2>10 DEF fmt, args, FaultFormat
<1>. QED
  BY <1>6, <1>7, <1>8, <1>9, <1>10, Zenon

-----------------------------------------------------------------------------
(***************************************************************************)
(* Positions.                                                              *)
(***************************************************************************)
\* The control sequence for a position: its two numbers, with a ";" between them.
Spells(bytes, rows, cols) ==
  /\ rows \in Seq(DigitSet) /\ cols \in Seq(DigitSet) /\ bytes \in Seq({"ESC"} \cup PlainCharacters)
  /\ Len(bytes) = Len(rows) + Len(cols) + 4
  /\ bytes[1] = "ESC" /\ bytes[2] = "[" /\ bytes[Len(rows) + 3] = ";" /\ bytes[Len(bytes)] = "H"
  /\ \A i \in 1 .. Len(rows) : bytes[2 + i] = rows[i]
  /\ \A i \in 1 .. Len(cols) : bytes[(Len(rows) + 3) + i] = cols[i]

\* goto_xy spells the position with two numbers in decimal.
LEMMA PositionWritten ==
  ASSUME NEW row_n \in Nat, NEW col_n \in Nat
  PROVE  \E rows, cols : /\ Spells(k_log_vfmt(PositionFormat, <<row_n, col_n>>), rows, cols)
                         /\ Value(rows) = row_n /\ Value(cols) = col_n
<1> DEFINE fmt == <<"ESC", "[", "%", "i", ";", "%", "i", "H">>
           args == <<row_n, col_n>>
           none == <<>>
           rows == log_number(row_n, 10, 0)
           cols == log_number(col_n, 10, 0)
           esc == "ESC"
           open == "["
           semi == ";"
           end == "H"
           B == {"ESC"} \cup PlainCharacters
<1>1. rows \in Seq(DigitSet) /\ Value(rows) = row_n /\ cols \in Seq(DigitSet) /\ Value(cols) = col_n
  BY DecimalRead
<1>2. Converted("i", args) = rows
  <2>1. Head(args) = row_n
    OBVIOUS
  <2>. HIDE DEF args
  <2>. QED  BY <2>1, Conversions, Zenon
<1>3. Converted("i", ArgsLeft("i", args)) = cols
  <2>1. Head(ArgsLeft("i", args)) = col_n
    BY DEF ArgsLeft
  <2>. HIDE DEF args
  <2>. QED  BY <2>1, Conversions, Zenon
<1>4. /\ Len(fmt) = 8 /\ Len(fmt) \in Nat /\ fmt[1] = esc /\ fmt[2] = open /\ fmt[3] = "%" /\ fmt[4] = "i"
      /\ fmt[5] = semi /\ fmt[6] = "%" /\ fmt[7] = "i" /\ fmt[8] = end
  OBVIOUS
<1>5. /\ 1 \in 1 .. 8 /\ 2 \in 1 .. 8 /\ 3 \in 1 .. 8 /\ 4 \in 1 .. 8 /\ 5 \in 1 .. 8 /\ 6 \in 1 .. 8
      /\ 7 \in 1 .. 8 /\ 8 \in 1 .. 8 /\ 1 - 1 = 0 /\ 2 - 1 = 1 /\ 3 - 1 = 2 /\ 4 - 1 = 3 /\ 5 - 1 = 4
      /\ 6 - 1 = 5 /\ 7 - 1 = 6 /\ 8 - 1 = 7
  OBVIOUS
<1>6. esc # "%" /\ open # "%" /\ semi # "%" /\ end # "%"
  OBVIOUS
<1>7. PositionFormat = fmt
  BY Zenon DEF PositionFormat
<1>8. /\ none \in Seq(B) /\ Len(none) = 0 /\ esc \in B /\ open \in B /\ semi \in B /\ end \in B
      /\ DigitSet \subseteq B
  <2>1. /\ esc \in B /\ open \in B /\ semi \in B /\ end \in B
    BY DEF PlainCharacters
  <2>2. DigitSet \subseteq B
    BY Zenon DEF PlainCharacters, DigitSet
  <2>. HIDE DEF B
  <2>3. none \in Seq(B) /\ Len(none) = 0
    OBVIOUS
  <2>. QED  BY <2>1, <2>2, <2>3
<1>. HIDE DEF fmt, args, none, rows, cols, esc, open, semi, end, B
<1>9. PICK g : /\ g[0] = Literal(none, args)
               /\ \A i \in 1 .. Len(fmt) : g[i] = Reads(g[i - 1], fmt[i])
               /\ k_log_vfmt(fmt, args) = g[Len(fmt)].out
  BY <1>4, FormatRuns, Zenon DEF none
<1>10. /\ g[1] = Reads(g[0], esc) /\ g[2] = Reads(g[1], open) /\ g[3] = Reads(g[2], "%")
       /\ g[4] = Reads(g[3], "i") /\ g[5] = Reads(g[4], semi) /\ g[6] = Reads(g[5], "%")
       /\ g[7] = Reads(g[6], "i") /\ g[8] = Reads(g[7], end)
  BY <1>4, <1>5, <1>9
<1> DEFINE p1 == Append(none, esc)
           p2 == Append(p1, open)
           p4 == p2 \o rows
           p5 == Append(p4, semi)
           p7 == p5 \o cols
           p8 == Append(p7, end)
<1>. HIDE DEF p1, p2, p4, p5, p7, p8
<1>30. p1 = Append(none, esc) /\ p2 = Append(p1, open) /\ p4 = p2 \o rows /\ p5 = Append(p4, semi)
       /\ p7 = p5 \o cols /\ p8 = Append(p7, end)
  BY Zenon DEF p1, p2, p4, p5, p7, p8
<1>11. k_log_vfmt(fmt, args) = p8
  <2>1. g[1] = Literal(p1, args)
    BY <1>6, <1>9, <1>10, ReadsLiteral, <1>30
  <2>2. g[2] = Literal(p2, args)
    BY <1>6, <1>10, <2>1, ReadsLiteral, <1>30
  <2>3. g[3] = Percent(p2, args)
    BY <1>10, <2>2, ReadsPercent
  <2> DEFINE rest == ArgsLeft("i", args)
  <2>4. g[4] = Literal(p4, rest)
    BY <1>2, <1>10, <2>3, ReadsConverts, <1>30
  <2>. HIDE DEF rest
  <2>5. g[5] = Literal(p5, rest)
    BY <1>6, <1>10, <2>4, ReadsLiteral, <1>30
  <2>6. g[6] = Percent(p5, rest)
    BY <1>10, <2>5, ReadsPercent
  <2> DEFINE last == ArgsLeft("i", rest)
  <2>7. g[7] = Literal(p7, last)
    <3>1. Converted("i", rest) = cols
      BY <1>3, Zenon DEF rest
    <3>. QED  BY <1>10, <2>6, <3>1, ReadsConverts, <1>30
  <2>. HIDE DEF last
  <2>8. g[8] = Literal(p8, last)
    BY <1>6, <1>10, <2>7, ReadsLiteral, <1>30
  <2>. QED  BY <1>4, <1>9, <2>8 DEF Read, Literal
<1> DEFINE a == Len(rows)
           b == Len(cols)
<1>12. rows \in Seq(B) /\ cols \in Seq(B) /\ a \in Nat /\ b \in Nat
  <2>. HIDE DEF DigitSet
  <2>. QED  BY <1>1, <1>8
<1>13. \A p \in Seq(B), ch \in B : /\ Append(p, ch) \in Seq(B) /\ Len(Append(p, ch)) = Len(p) + 1
                                   /\ Append(p, ch)[Len(p) + 1] = ch /\ Len(p) \in Nat
                                   /\ \A i \in 1 .. Len(p) : Append(p, ch)[i] = p[i]
  OBVIOUS
<1>14. \A p, q \in Seq(B) : /\ p \o q \in Seq(B) /\ Len(p \o q) = Len(p) + Len(q)
                            /\ \A i \in 1 .. Len(p) : (p \o q)[i] = p[i]
                            /\ \A i \in 1 .. Len(q) : (p \o q)[Len(p) + i] = q[i]
  OBVIOUS
<1>. HIDE DEF a, b
<1>15. p1 \in Seq(B) /\ Len(p1) = 1 /\ p1[1] = esc
  BY <1>8, <1>13, <1>30
<1>16. p2 \in Seq(B) /\ Len(p2) = 2 /\ p2[1] = esc /\ p2[2] = open
  BY <1>8, <1>13, <1>15, <1>30
<1>17. p4 \in Seq(B) /\ Len(p4) = a + 2 /\ p4[1] = esc /\ p4[2] = open
       /\ \A i \in 1 .. a : p4[2 + i] = rows[i]
  <2>1. /\ p2 \o rows \in Seq(B) /\ Len(p2 \o rows) = 2 + a
        /\ (\A i \in 1 .. 2 : (p2 \o rows)[i] = p2[i]) /\ \A i \in 1 .. a : (p2 \o rows)[2 + i] = rows[i]
    <3>1. /\ p2 \o rows \in Seq(B) /\ Len(p2 \o rows) = Len(p2) + Len(rows)
          /\ (\A i \in 1 .. Len(p2) : (p2 \o rows)[i] = p2[i])
          /\ \A i \in 1 .. Len(rows) : (p2 \o rows)[Len(p2) + i] = rows[i]
      BY <1>12, <1>14, <1>16, Zenon
    <3>. QED  BY <1>16, <3>1, Zenon DEF a
  <2>2. 1 \in 1 .. 2 /\ 2 \in 1 .. 2 /\ 2 + a = a + 2
    BY <1>12
  <2>3. p4 = p2 \o rows
    BY <1>30, Zenon
  <2>. QED  BY <1>16, <2>1, <2>2, <2>3, Zenon
<1>18. p5 \in Seq(B) /\ Len(p5) = a + 3 /\ p5[1] = esc /\ p5[2] = open /\ p5[a + 3] = semi
       /\ \A i \in 1 .. a : p5[2 + i] = rows[i]
  BY <1>8, <1>12, <1>13, <1>17, <1>30
<1>19. p7 \in Seq(B) /\ Len(p7) = a + b + 3 /\ p7[1] = esc /\ p7[2] = open /\ p7[a + 3] = semi
       /\ (\A i \in 1 .. a : p7[2 + i] = rows[i]) /\ \A i \in 1 .. b : p7[(a + 3) + i] = cols[i]
  <2>1. /\ p5 \o cols \in Seq(B) /\ Len(p5 \o cols) = (a + 3) + b
        /\ (\A i \in 1 .. a + 3 : (p5 \o cols)[i] = p5[i]) /\ \A i \in 1 .. b : (p5 \o cols)[(a + 3) + i] = cols[i]
    <3>1. /\ p5 \o cols \in Seq(B) /\ Len(p5 \o cols) = Len(p5) + Len(cols)
          /\ (\A i \in 1 .. Len(p5) : (p5 \o cols)[i] = p5[i])
          /\ \A i \in 1 .. Len(cols) : (p5 \o cols)[Len(p5) + i] = cols[i]
      BY <1>12, <1>14, <1>18, Zenon
    <3>. QED  BY <1>18, <3>1, Zenon DEF b
  <2>2. 1 \in 1 .. a + 3 /\ 2 \in 1 .. a + 3 /\ a + 3 \in 1 .. a + 3 /\ (a + 3) + b = a + b + 3
        /\ \A i \in 1 .. a : 2 + i \in 1 .. a + 3
    BY <1>12
  <2>3. p7 = p5 \o cols
    BY <1>30, Zenon
  <2>. QED  BY <1>18, <2>1, <2>2, <2>3, Zenon
<1>20. p8 \in Seq(B) /\ Len(p8) = a + b + 4 /\ p8[1] = esc /\ p8[2] = open /\ p8[a + 3] = semi
       /\ p8[Len(p8)] = end
       /\ (\A i \in 1 .. a : p8[2 + i] = rows[i]) /\ \A i \in 1 .. b : p8[(a + 3) + i] = cols[i]
  <2>1. /\ Append(p7, end) \in Seq(B) /\ Len(Append(p7, end)) = (a + b + 3) + 1
        /\ Append(p7, end)[(a + b + 3) + 1] = end
        /\ \A i \in 1 .. a + b + 3 : Append(p7, end)[i] = p7[i]
    BY <1>8, <1>13, <1>19
  <2>2. /\ 1 \in 1 .. a + b + 3 /\ 2 \in 1 .. a + b + 3 /\ a + 3 \in 1 .. a + b + 3 /\ (a + b + 3) + 1 = a + b + 4
        /\ (\A i \in 1 .. a : 2 + i \in 1 .. a + b + 3) /\ \A i \in 1 .. b : (a + 3) + i \in 1 .. a + b + 3
    BY <1>12
  <2>3. p8 = Append(p7, end)
    BY <1>30, Zenon
  <2>. QED  BY <1>19, <2>1, <2>2, <2>3, Zenon
<1>21. p8 = k_log_vfmt(PositionFormat, <<row_n, col_n>>)
  BY <1>7, <1>11, Zenon DEF args
<1>22. Spells(p8, rows, cols)
  BY <1>1, <1>20, Zenon DEF Spells, a, b, B, esc, open, semi, end
<1>. QED
  BY <1>1, <1>21, <1>22, Zenon

\* A piece of a sequence.
LEMMA PieceOf ==
  ASSUME NEW B, NEW s \in Seq(B), NEW m \in Nat \ {0}, NEW n \in Nat, n <= Len(s), m <= n + 1
  PROVE  /\ SubSeq(s, m, n) \in Seq(B) /\ Len(SubSeq(s, m, n)) = n - m + 1
         /\ \A i \in 1 .. n - m + 1 : SubSeq(s, m, n)[i] = s[m + i - 1]
OBVIOUS

\* Where the numbers of a position are found in it.
Split(s, rows, cols, semi, B, D) ==
  /\ s \in Seq(B) /\ rows \in Seq(D) /\ cols \in Seq(D)
  /\ semi \notin D /\ s[1] # semi /\ s[2] # semi
  /\ Len(s) = Len(rows) + Len(cols) + 3 /\ s[Len(rows) + 3] = semi
  /\ \A i \in 1 .. Len(rows) : s[2 + i] = rows[i]
  /\ \A i \in 1 .. Len(cols) : s[(Len(rows) + 3) + i] = cols[i]

\* They are found in front of and behind the ";".
LEMMA PositionSplit ==
  ASSUME NEW s, NEW rows, NEW cols, NEW semi, NEW B, NEW D, Split(s, rows, cols, semi, B, D)
  PROVE  /\ SubSeq(s, Index(s, semi) + 1, Len(s)) = cols
         /\ SubSeq(s, 3, Index(s, semi) - 1) = rows
<1>0. /\ s \in Seq(B) /\ rows \in Seq(D) /\ cols \in Seq(D)
      /\ semi \notin D /\ s[1] # semi /\ s[2] # semi
      /\ Len(s) = Len(rows) + Len(cols) + 3 /\ s[Len(rows) + 3] = semi
      /\ (\A i \in 1 .. Len(rows) : s[2 + i] = rows[i])
      /\ \A i \in 1 .. Len(cols) : s[(Len(rows) + 3) + i] = cols[i]
  BY Zenon DEF Split
<1>. USE <1>0
<1> DEFINE a == Len(rows)
           b == Len(cols)
<1>1. a \in Nat /\ b \in Nat /\ rows \in Seq(D) /\ cols \in Seq(D)
      /\ (\A i \in 1 .. a : rows[i] \in D) /\ \A i \in 1 .. b : cols[i] \in D
  OBVIOUS
<1>4. s \in Seq(B) /\ Len(s) = a + b + 3 /\ \A i \in 1 .. a + b + 3 : s[i] \in B
  OBVIOUS
<1>5. /\ (\A i \in 1 .. a : s[2 + i] = rows[i]) /\ (\A i \in 1 .. b : s[(a + 3) + i] = cols[i])
      /\ s[a + 3] = semi
  OBVIOUS
<1>. HIDE DEF a, b
<1>6. DOMAIN s = 1 .. a + b + 3 /\ a + 3 \in 1 .. a + b + 3 /\ s[a + 3] = semi
  BY <1>1, <1>4, <1>5
<1>7. ASSUME NEW i \in 1 .. a + b + 3, s[i] = semi PROVE i = a + 3
  <2>1. CASE i < 3
    <3>1. (i = 1 \/ i = 2) /\ s[i] = s[i]
      BY <1>4, <2>1
    <3>2. s[i] # semi
      BY <3>1, Zenon
    <3>. QED  BY <1>7, <3>1, <3>2, Zenon
  <2>2. CASE i \in 3 .. a + 2
    <3>1. i - 2 \in 1 .. a /\ 2 + (i - 2) = i
      BY <1>1, <2>2
    <3>2. s[2 + (i - 2)] \in D
      BY <1>1, <1>5, <3>1, Zenon
    <3>3. s[i] \in D
      BY <3>1, <3>2
    <3>. QED  BY <1>4, <1>7, <3>3, Zenon
  <2>3. CASE i \in a + 4 .. a + b + 3
    <3>1. i - (a + 3) \in 1 .. b /\ (a + 3) + (i - (a + 3)) = i
      BY <1>1, <2>3
    <3>2. s[(a + 3) + (i - (a + 3))] \in D
      BY <1>1, <1>5, <3>1, Zenon
    <3>3. s[i] \in D
      BY <3>1, <3>2
    <3>. QED  BY <1>4, <1>7, <3>3, Zenon
  <2>. QED  BY <1>1, <2>1, <2>2, <2>3
<1>8. Index(s, semi) = a + 3
  <2>1. Index(s, semi) \in DOMAIN s /\ s[Index(s, semi)] = semi
    BY <1>6, Zenon DEF Index
  <2>. QED  BY <1>6, <1>7, <2>1, Zenon
<1> DEFINE t == SubSeq(s, a + 4, a + b + 3)
           u == SubSeq(s, 3, a + 2)
<1>9. t = cols
  <2>1. /\ s \in Seq(B) /\ a + 4 \in 1 .. Len(s) + 1 /\ a + b + 3 \in (a + 4) - 1 .. Len(s)
        /\ (a + b + 3) - (a + 4) + 1 = b
    BY <1>1, <1>4
  <2>2. t \in Seq(B) /\ Len(t) = b /\ \A i \in 1 .. b : t[i] = s[(a + 4) + i - 1]
    <3> DEFINE m == a + 4
               n == a + b + 3
    <3>1. m \in Nat \ {0} /\ n \in Nat /\ n <= Len(s) /\ m <= n + 1
      BY <2>1
    <3>4. n - m + 1 = b
      BY <2>1
    <3>2. m = a + 4 /\ t = SubSeq(s, m, n)
      OBVIOUS
    <3>. HIDE DEF m, n, t
    <3>3. SubSeq(s, m, n) \in Seq(B) /\ Len(SubSeq(s, m, n)) = b /\ \A i \in 1 .. b : SubSeq(s, m, n)[i] = s[m + i - 1]
      <4>1. /\ SubSeq(s, m, n) \in Seq(B) /\ Len(SubSeq(s, m, n)) = n - m + 1
            /\ \A i \in 1 .. n - m + 1 : SubSeq(s, m, n)[i] = s[m + i - 1]
        BY <1>4, <3>1, PieceOf
      <4>. QED  BY <3>4, <4>1
    <3>. QED  BY <3>2, <3>3
  <2>. HIDE DEF t
  <2>3. ASSUME NEW i \in 1 .. b PROVE t[i] = cols[i]
    <3>1. (a + 4) + i - 1 = (a + 3) + i /\ (a + 3) + i \in 1 .. a + b + 3
      BY <1>1
    <3>2. t[i] = s[(a + 3) + i]
      BY <2>2, <3>1
    <3>. QED  BY <1>4, <1>5, <3>1, <3>2, Zenon
  <2>4. t \in Seq(B \cup D) /\ cols \in Seq(B \cup D) /\ Len(t) = Len(cols) /\ \A i \in 1 .. Len(t) : t[i] = cols[i]
    BY <1>1, <2>2, <2>3 DEF b
  <2>. QED  BY <2>4, SeqEqual, Zenon
<1>10. u = rows
  <2>1. /\ s \in Seq(B) /\ 3 \in 1 .. Len(s) + 1 /\ a + 2 \in (3) - 1 .. Len(s)
        /\ (a + 2) - (3) + 1 = a
    BY <1>1, <1>4
  <2>2. u \in Seq(B) /\ Len(u) = a /\ \A i \in 1 .. a : u[i] = s[3 + i - 1]
    BY <2>1
  <2>. HIDE DEF u
  <2>3. ASSUME NEW i \in 1 .. a PROVE u[i] = rows[i]
    <3>1. 3 + i - 1 = 2 + i /\ 2 + i \in 1 .. a + b + 3
      BY <1>1
    <3>2. u[i] = s[2 + i]
      BY <2>2, <3>1
    <3>. QED  BY <1>4, <1>5, <3>1, <3>2, Zenon
  <2>4. u \in Seq(B \cup D) /\ rows \in Seq(B \cup D) /\ Len(u) = Len(rows) /\ \A i \in 1 .. Len(u) : u[i] = rows[i]
    BY <1>1, <2>2, <2>3 DEF a
  <2>. QED  BY <2>4, SeqEqual, Zenon
<1>. QED
  <2>1. (a + 3) + 1 = a + 4 /\ (a + 3) - 1 = a + 2
    BY <1>1
  <2>. QED  BY <1>4, <1>8, <1>9, <1>10, <2>1, Zenon

\* A byte that goes on with a position.
LEMMA PositionGoesOn ==
  ASSUME NEW B, NEW bytes \in Seq(B), bytes[1] = "ESC", bytes[2] = "[",
         NEW k \in 1 .. Len(bytes) - 1, bytes[k + 1] # "ESC",
         NEW t, t.pending = SubSeq(bytes, 1, k)
  PROVE  Receives(t, bytes[k + 1]) =
           IF bytes[k + 1] = "H" THEN [shows |-> t.shows \o Position(t.pending), pending |-> <<>>]
           ELSE [shows |-> t.shows, pending |-> SubSeq(bytes, 1, k + 1)]
<1> DEFINE byte == bytes[k + 1]
           p == SubSeq(bytes, 1, k)
           more == Append(p, byte)
<1>1. /\ p \in Seq(B) /\ Len(p) = k /\ p[1] = bytes[1] /\ byte \in B /\ k \in Nat \ {0}
      /\ \A i \in 1 .. k : p[i] = bytes[i]
  <2>1. k \in Int /\ 1 \in Int /\ 1 <= k /\ k + 1 \in 1 .. Len(bytes) /\ \A i \in 1 .. k : bytes[i] \in B
    OBVIOUS
  <2>2. /\ p \in Seq(B) /\ Len(p) = k /\ \A i \in 1 .. k : p[i] = bytes[i]
    BY <2>1
  <2>3. 1 \in 1 .. k
    OBVIOUS
  <2>. QED  BY <2>1, <2>2, <2>3
<1>2. p # <<>>
  BY <1>1
<1>3. more = SubSeq(bytes, 1, k + 1)
  <2>1. k + 1 \in 1 .. Len(bytes) /\ (k + 1) - 1 = k
    OBVIOUS
  <2> DEFINE q == SubSeq(bytes, 1, k + 1)
  <2>2. q \in Seq(B) /\ Len(q) = k + 1 /\ \A i \in 1 .. k + 1 : q[i] = bytes[i]
    BY <2>1
  <2>. HIDE DEF q, p, byte
  <2>3. more \in Seq(B) /\ Len(more) = k + 1 /\ more[k + 1] = byte /\ \A i \in 1 .. k : more[i] = p[i]
    BY <1>1
  <2>. HIDE DEF more
  <2>4. \A i \in 1 .. k + 1 : more[i] = q[i]
    <3>1. ASSUME NEW i \in 1 .. k + 1, i # k + 1 PROVE i \in 1 .. k
      BY <3>1
    <3>2. q[k + 1] = byte
      BY <2>2 DEF byte
    <3>. QED  BY <1>1, <2>2, <2>3, <3>1, <3>2
  <2>5. Len(more) = Len(q) /\ \A i \in 1 .. Len(more) : more[i] = q[i]
    BY <2>2, <2>3, <2>4, Zenon
  <2>6. more = q
    BY <2>2, <2>3, <2>5, SeqEqual, Zenon
  <2>. QED  BY <2>6 DEF q
<1>. HIDE DEF p, byte
<1>4. Head(more) = "ESC" /\ (k = 1 => byte = "[") /\ Len(more) = k + 1 /\ more[k + 1] = byte
  <2>1. more \in Seq(B) /\ Len(more) = k + 1 /\ more[1] = p[1] /\ more[k + 1] = byte
    BY <1>1
  <2>2. Head(more) = more[1]
    <3>. HIDE DEF more
    <3>. QED  BY <2>1
  <2>3. k = 1 => byte = "["
    BY DEF byte
  <2>. QED  BY <1>1, <2>1, <2>2, <2>3
<1>. HIDE DEF more
<1>5. more # <<"ESC", "c">>
  <2>. SUFFICES ASSUME more = <<"ESC", "c">> PROVE FALSE
    OBVIOUS
  <2>1. Len(more) = 2 /\ more[2] = "c"
    OBVIOUS
  <2>2. k = 1 /\ k + 1 = 2
    BY <1>1, <1>4, <2>1
  <2>3. byte = "c" /\ byte = "["
    BY <1>4, <2>1, <2>2
  <2>. QED  BY <2>3
<1>6. byte # "ESC" /\ t.pending = p
  BY DEF byte, p
<1>7. Receives(t, byte) =
        IF byte = "H" THEN [shows |-> t.shows \o Position(t.pending), pending |-> <<>>]
        ELSE [shows |-> t.shows, pending |-> more]
  BY <1>2, <1>4, <1>5, <1>6, Zenon DEF Receives, more
<1>. QED
  BY <1>3, <1>7, Zenon DEF byte

\* The bytes of a position are apart from each other.
LEMMA PositionBytes ==
  /\ "ESC" \notin DigitSet \cup {"[", ";"} /\ "H" \notin DigitSet \cup {"[", ";"}
  /\ ";" \notin DigitSet /\ "ESC" # ";" /\ "[" # ";"
<1>1. "ESC" \notin DigitSet
  BY DEF DigitSet, DigitNames
<1>2. "H" \notin DigitSet
  BY DEF DigitSet, DigitNames
<1>3. ";" \notin DigitSet
  <2>1. DigitSet = {"0", "1", "2", "3", "4", "5", "6", "7", "8", "9", "A", "B", "C", "D", "E", "F"}
    BY DEF DigitSet, DigitNames
  <2>. QED  BY <2>1, Zenon
<1>4. "ESC" \notin {"[", ";"} /\ "H" \notin {"[", ";"} /\ "[" # ";"
  OBVIOUS
<1>. QED  BY <1>1, <1>2, <1>3, <1>4

\* Between the "[" and the end there are digits and the ";".
LEMMA PositionMiddle ==
  ASSUME NEW B, NEW bytes \in Seq(B), NEW a \in Nat, NEW b \in Nat, Len(bytes) = a + b + 4,
         NEW C, bytes[2] \in C, bytes[a + 3] \in C,
         \A i \in 1 .. a : bytes[2 + i] \in C,
         \A i \in 1 .. b : bytes[(a + 3) + i] \in C,
         NEW i \in 2 .. a + b + 3
  PROVE  bytes[i] \in C
<1>1. CASE i = 2 \/ i = a + 3
  BY <1>1
<1>2. CASE i \in 3 .. a + 2
  <2>1. i - 2 \in 1 .. a /\ 2 + (i - 2) = i
    BY <1>2
  <2>2. bytes[2 + (i - 2)] \in C
    BY <2>1, Zenon
  <2>. QED  BY <2>1, <2>2
<1>3. CASE i \in a + 4 .. a + b + 3
  <2>1. i - (a + 3) \in 1 .. b /\ (a + 3) + (i - (a + 3)) = i
    BY <1>3
  <2>2. bytes[(a + 3) + (i - (a + 3))] \in C
    BY <2>1, Zenon
  <2>. QED  BY <2>1, <2>2
<1>. QED
  <2>1. i = 2 \/ i = a + 3 \/ i \in 3 .. a + 2 \/ i \in a + 4 .. a + b + 3
    OBVIOUS
  <2>. QED  BY <1>1, <1>2, <1>3, <2>1, Zenon

\* A byte of a control sequence, of which the last is what is logged.
ClearMeant == Means("clear", "", 0, 0)

\* Each step through the bytes of a control sequence.
LEMMA ControlStep ==
  ASSUME NEW s, IsSequence(s.log), NEW bytes, NEW i, NEW means, means # ClearMeant,
         NEW ch, ch = bytes[i], ch \in {"ESC"} \cup PlainCharacters
  PROVE  /\ Does(s, ByteOf(bytes, means, i)).term = Receives(s.term, ch)
         /\ Does(s, ByteOf(bytes, means, i)).log = IF i = Len(bytes) THEN s.log \o means ELSE s.log
<1> DEFINE order == ByteOf(bytes, means, i)
           more == IF i = Len(bytes) THEN means ELSE <<>>
           u == Does(s, order)
<1>1. order.op = "log_char" /\ order.ch = ch /\ order.means = more
  BY DEF ByteOf, Order
<1>2. more # Means("clear", "", 0, 0)
  <2>1. <<>> # Means("clear", "", 0, 0)
    BY DEF Means
  <2>. QED  BY <2>1, Zenon DEF ClearMeant
<1>3. ch # FullBlock /\ Receive(s.term, BytesOf(ch)) = Receives(s.term, ch)
  BY ControlByte, Zenon
<1>. HIDE DEF order, more, u
<1>4. Logs(s.log, order) = s.log \o more
  BY <1>1, <1>2, <1>3, Zenon DEF Logs
<1>5. u = [term |-> Receives(s.term, ch), log |-> s.log \o more]
  BY <1>1, <1>3, <1>4, Zenon DEF Does, u
<1>6. i # Len(bytes) => s.log \o more = s.log
  <2>. SUFFICES ASSUME i # Len(bytes) PROVE s.log \o more = s.log
    OBVIOUS
  <2>1. more = <<>>
    BY Zenon DEF more
  <2>2. PICK A : s.log \in Seq(A)
    BY Zenon DEF IsSequence
  <2>3. s.log \o <<>> = s.log
    BY <2>2
  <2>. QED  BY <2>1, <2>3
<1>7. i = Len(bytes) => s.log \o more = s.log \o means
  BY Zenon DEF more
<1>8. u.term = Receives(s.term, ch) /\ u.log = s.log \o more
  <2> DEFINE t == Receives(s.term, ch)
             l == s.log \o more
  <2>1. u = [term |-> t, log |-> l]
    BY <1>5
  <2>. HIDE DEF t, l
  <2>2. u.term = t /\ u.log = l
    BY <2>1
  <2>. QED  BY <2>2, Zenon DEF t, l
<1>. QED  BY <1>6, <1>7, <1>8, Zenon DEF u, order

\* The control sequence of a position, byte after byte.
LEMMA SpellsFacts ==
  ASSUME NEW bytes, NEW rows, NEW cols, Spells(bytes, rows, cols), NEW n, n = Len(bytes)
  PROVE  /\ bytes \in Seq({"ESC"} \cup PlainCharacters)
         /\ n \in Nat /\ n > 3 /\ bytes[1] = "ESC" /\ bytes[2] = "[" /\ bytes[n] = "H"
         /\ \A i \in 1 .. n : bytes[i] \in {"ESC"} \cup PlainCharacters
         /\ \A i \in 2 .. n - 1 : bytes[i] # "ESC" /\ bytes[i] # "H"
<1> DEFINE B == {"ESC"} \cup PlainCharacters
           C == DigitSet \cup {"[", ";"}
           a == Len(rows)
           b == Len(cols)
<1>1. /\ rows \in Seq(DigitSet) /\ cols \in Seq(DigitSet) /\ bytes \in Seq(B)
      /\ n = a + b + 4 /\ bytes[1] = "ESC" /\ bytes[2] = "[" /\ bytes[n] = "H"
  BY Zenon DEF Spells
<1>2. /\ bytes[2] \in C /\ bytes[a + 3] \in C
      /\ \A i \in 1 .. a : bytes[2 + i] \in C
      /\ \A i \in 1 .. b : bytes[(a + 3) + i] \in C
  <2>1. (\A i \in 1 .. a : rows[i] \in DigitSet) /\ \A i \in 1 .. b : cols[i] \in DigitSet
    <3>1. rows \in Seq(DigitSet) /\ cols \in Seq(DigitSet)
      BY <1>1, Zenon
    <3>. QED  BY <3>1
  <2>2. bytes[2] = "[" /\ bytes[a + 3] = ";"
        /\ (\A i \in 1 .. a : bytes[2 + i] = rows[i]) /\ \A i \in 1 .. b : bytes[(a + 3) + i] = cols[i]
    BY Zenon DEF Spells
  <2>. QED  BY <2>1, <2>2, Zenon
<1>. HIDE DEF B, C
<1>3. a \in Nat /\ b \in Nat /\ n \in Nat /\ n > 3 /\ n - 1 = a + b + 3 /\ \A i \in 1 .. n : bytes[i] \in B
  <2>1. rows \in Seq(DigitSet) /\ cols \in Seq(DigitSet) /\ bytes \in Seq(B) /\ n = a + b + 4
    BY <1>1, Zenon
  <2>2. a \in Nat /\ b \in Nat
    BY <2>1
  <2>3. Len(bytes) \in Nat /\ \A i \in 1 .. Len(bytes) : bytes[i] \in B
    BY <2>1, LenProperties, ElementOfSeq
  <2>. HIDE DEF a, b
  <2>4. n > 3 /\ n - 1 = a + b + 3
    BY <2>1, <2>2
  <2>. QED  BY <2>2, <2>3, <2>4
<1>. HIDE DEF a, b
<1>4. ASSUME NEW i \in 2 .. n - 1 PROVE bytes[i] # "ESC" /\ bytes[i] # "H"
  <2>1. i \in 2 .. a + b + 3
    BY <1>3
  <2>2. Len(bytes) = a + b + 4
    BY <1>1, Zenon
  <2>3. bytes[i] \in C
    BY <1>1, <1>2, <1>3, <2>1, <2>2, PositionMiddle, Zenon
  <2>. QED  BY <2>3, PositionBytes, Zenon DEF C
<1>. QED  BY <1>1, <1>3, <1>4, Zenon DEF B

\* The terminal reads from it the position that was meant.
LEMMA SpellsPosition ==
  ASSUME NEW bytes, NEW rows, NEW cols, Spells(bytes, rows, cols)
  PROVE  Position(SubSeq(bytes, 1, Len(bytes) - 1)) = Means("goto", "", Value(cols) - 1, Value(rows) - 1)
<1> DEFINE B == {"ESC"} \cup PlainCharacters
           D == DigitSet
           semi == ";"
           a == Len(rows)
           b == Len(cols)
           p == SubSeq(bytes, 1, Len(bytes) - 1)
<1>1. semi \notin D /\ bytes[1] # semi /\ bytes[2] # semi
  BY PositionBytes, Zenon DEF Spells
<1>2. /\ bytes[a + 3] = semi /\ bytes \in Seq(B) /\ rows \in Seq(D) /\ cols \in Seq(D)
      /\ Len(bytes) = a + b + 4
      /\ (\A i \in 1 .. a : bytes[2 + i] = rows[i])
      /\ \A i \in 1 .. b : bytes[(a + 3) + i] = cols[i]
  BY Zenon DEF Spells
<1>. HIDE DEF semi, B, D
<1>3. a \in Nat /\ b \in Nat
  BY <1>2
<1>. HIDE DEF a, b
<1>4. p \in Seq(B) /\ Len(p) = a + b + 3 /\ \A i \in 1 .. a + b + 3 : p[i] = bytes[i]
  <2> DEFINE n == Len(bytes) - 1
  <2>1. n = a + b + 3 /\ n \in Nat /\ n <= Len(bytes) /\ 1 <= n + 1 /\ 1 \in Nat \ {0}
    BY <1>2, <1>3
  <2>. HIDE DEF n
  <2>2. /\ SubSeq(bytes, 1, n) \in Seq(B) /\ Len(SubSeq(bytes, 1, n)) = n - 1 + 1
        /\ \A i \in 1 .. n - 1 + 1 : SubSeq(bytes, 1, n)[i] = bytes[1 + i - 1]
    BY <1>2, <2>1, PieceOf
  <2>3. p = SubSeq(bytes, 1, n)
    BY Zenon DEF n
  <2>4. \A i \in 1 .. n : 1 + i - 1 = i
    BY <2>1
  <2>. HIDE DEF p
  <2>. QED  BY <2>1, <2>2, <2>3, <2>4
<1>. HIDE DEF p
<1>5. /\ 1 \in 1 .. a + b + 3 /\ 2 \in 1 .. a + b + 3 /\ a + 3 \in 1 .. a + b + 3
      /\ (\A i \in 1 .. a : 2 + i \in 1 .. a + b + 3) /\ \A i \in 1 .. b : (a + 3) + i \in 1 .. a + b + 3
  BY <1>3
<1>6. /\ p[1] # semi /\ p[2] # semi /\ p[a + 3] = semi
      /\ (\A i \in 1 .. a : p[2 + i] = rows[i]) /\ \A i \in 1 .. b : p[(a + 3) + i] = cols[i]
  BY <1>1, <1>2, <1>4, <1>5, Zenon
<1>7. Split(p, rows, cols, semi, B, D)
  BY <1>1, <1>2, <1>4, <1>6, Zenon DEF Split, a, b
<1>8. /\ SubSeq(p, Index(p, semi) + 1, Len(p)) = cols
      /\ SubSeq(p, 3, Index(p, semi) - 1) = rows
  BY <1>7, PositionSplit, Zenon
<1>9. Position(p) = Means("goto", "", Value(cols) - 1, Value(rows) - 1)
  BY <1>8, Zenon DEF Position, semi
<1>. QED  BY <1>9, Zenon DEF p

\* The position as a call sends it.
LEMMA GoodGoto ==
  ASSUME NEW s, Settled(s), NEW x \in Nat, NEW y \in Nat
  PROVE  Good(s, goto_xy(x, y)) /\ IsSequence(goto_xy(x, y))
<1> DEFINE o == Order("goto", "", x, y, <<>>)
           means == Means("goto", "", x, y)
           B == {"ESC"} \cup PlainCharacters
           esc == "ESC"
           semi == ";"
           end == "H"
           row_n == y + 1
           col_n == x + 1
<1> DEFINE bytes == k_log_vfmt(PositionFormat, <<row_n, col_n>>)
           orders == goto_xy(x, y)
           n == Len(bytes)
<1>1. PICK rows, cols : Spells(bytes, rows, cols) /\ Value(rows) = row_n /\ Value(cols) = col_n
  <2>1. row_n \in Nat /\ col_n \in Nat
    OBVIOUS
  <2>. HIDE DEF row_n, col_n
  <2>. QED  BY <2>1, PositionWritten
<1>2. o.op # "log_char" /\ orders = <<o>> \o Controls(bytes, means)
  <2>1. o.op # "log_char"
    BY DEF Order
  <2>. QED  BY <2>1, Zenon DEF goto_xy
<1>3. means # ClearMeant /\ IsSequence(means)
  <2>1. means[1].is = "goto" /\ Means("clear", "", 0, 0)[1].is = "clear"
    BY DEF Means
  <2>2. "goto" # "clear"
    OBVIOUS
  <2>3. means \in Seq({[is |-> "goto", ch |-> "", x |-> x, y |-> y]})
    BY DEF Means
  <2>. QED  BY <2>1, <2>2, <2>3, Zenon DEF IsSequence, ClearMeant
<1>. HIDE DEF bytes
<1>4. /\ bytes \in Seq(B) /\ n \in Nat /\ n > 3 /\ bytes[1] = esc /\ bytes[2] = "[" /\ bytes[n] = end
      /\ \A i \in 1 .. n : bytes[i] \in B
      /\ \A i \in 2 .. n - 1 : bytes[i] # esc /\ bytes[i] # end
  BY <1>1, SpellsFacts, Zenon
<1>. HIDE DEF orders, o, means, B
<1>5. IsSequence(orders) /\ ControlRuns(orders, bytes, means, s)
  <2>1. bytes \in Seq(B)
    BY <1>4, Zenon
  <2>. QED  BY <1>2, <2>1, ControlFollows, Zenon
<1>. SUFFICES ASSUME NEW h, Follows(h, s, orders) PROVE Settled(h[Len(orders)])
  BY <1>5, Zenon DEF Good, orders
<1>6. PICK g : /\ g[0] = s /\ g[Len(bytes)] = h[Len(orders)]
               /\ \A i \in 1 .. Len(bytes) : g[i] = Does(g[i - 1], ByteOf(bytes, means, i))
  BY <1>5, Zenon DEF ControlRuns
<1>. HIDE DEF n, esc, end
<1>7. g[0] = s /\ g[n] = h[Len(orders)] /\ \A i \in 1 .. n : g[i] = Does(g[i - 1], ByteOf(bytes, means, i))
  BY <1>6, Zenon DEF n
<1>8. s.term.shows = s.log /\ IsSequence(s.log)
  BY Zenon DEF Settled
<1> DEFINE mid(k) == /\ g[k].term.shows = s.log
                     /\ g[k].term.pending = SubSeq(bytes, 1, k)
                     /\ g[k].log = s.log
<1>9. ASSUME NEW i \in 1 .. n, NEW u, u = g[i - 1], u.log = s.log
      PROVE  /\ g[i].term = Receives(u.term, bytes[i])
             /\ g[i].log = IF i = n THEN s.log \o means ELSE s.log
  <2>1. bytes[i] \in {"ESC"} \cup PlainCharacters
    BY <1>4, Zenon DEF B
  <2>2. g[i] = Does(u, ByteOf(bytes, means, i))
    BY <1>7, <1>9, Zenon
  <2>3. IsSequence(u.log)
    BY <1>8, <1>9, Zenon
  <2>4. /\ Does(u, ByteOf(bytes, means, i)).term = Receives(u.term, bytes[i])
        /\ Does(u, ByteOf(bytes, means, i)).log = IF i = Len(bytes) THEN u.log \o means ELSE u.log
    BY <1>3, <2>1, <2>3, ControlStep
  <2>. QED  BY <1>9, <2>2, <2>4, Zenon DEF n
<1>10. ASSUME NEW k \in 1 .. n - 1, mid(k)
       PROVE  /\ k + 1 # n => mid(k + 1)
              /\ k + 1 = n => /\ g[n].term = [shows |-> s.log \o Position(SubSeq(bytes, 1, k)), pending |-> <<>>]
                              /\ g[n].log = s.log \o means
  <2>1. k + 1 \in 1 .. n /\ (k + 1) - 1 = k /\ (k + 1 # n => k + 1 \in 2 .. n - 1) /\ k + 1 \in Nat
    BY <1>4
  <2>2. bytes[k + 1] # esc /\ (bytes[k + 1] = end <=> k + 1 = n)
    <3>1. k + 1 # n => bytes[k + 1] # esc /\ bytes[k + 1] # end
      BY <1>4, <2>1, Zenon
    <3>2. k + 1 = n => bytes[k + 1] = end
      BY <1>4, Zenon
    <3>3. end # esc
      BY DEF end, esc
    <3>. QED  BY <3>1, <3>2, <3>3, Zenon
  <2> DEFINE u == g[k]
             p == SubSeq(bytes, 1, k)
  <2>3. u = g[(k + 1) - 1] /\ u.log = s.log /\ u.term.shows = s.log /\ u.term.pending = p
    <3>1. g[(k + 1) - 1] = g[k]
      BY <2>1
    <3>. QED  BY <1>10, <3>1, Zenon
  <2>4. Receives(u.term, bytes[k + 1]) =
          IF bytes[k + 1] = end THEN [shows |-> u.term.shows \o Position(u.term.pending), pending |-> <<>>]
          ELSE [shows |-> u.term.shows, pending |-> SubSeq(bytes, 1, k + 1)]
    <3>1. bytes \in Seq(B) /\ bytes[1] = "ESC" /\ bytes[2] = "[" /\ bytes[k + 1] # "ESC"
      BY <1>4, <2>2, Zenon DEF esc
    <3>2. k \in 1 .. Len(bytes) - 1
      BY Zenon DEF n
    <3>. HIDE DEF u
    <3>. QED  BY <2>3, <3>1, <3>2, PositionGoesOn, Zenon DEF end
  <2>5. g[k + 1].term = Receives(u.term, bytes[k + 1])
        /\ g[k + 1].log = IF k + 1 = n THEN s.log \o means ELSE s.log
    <3>. HIDE DEF u
    <3>. QED  BY <1>9, <2>1, <2>3, Zenon
  <2>. HIDE DEF u
  <2>6. CASE k + 1 = n
    <3>1. g[k + 1].term = [shows |-> s.log \o Position(p), pending |-> <<>>]
      BY <2>2, <2>3, <2>4, <2>5, <2>6, Zenon
    <3>. QED  BY <2>5, <2>6, <3>1, Zenon
  <2>7. CASE k + 1 # n
    <3> DEFINE q == SubSeq(bytes, 1, k + 1)
               l == s.log
    <3>1. g[k + 1].term = [shows |-> l, pending |-> q] /\ g[k + 1].log = l
      BY <2>2, <2>3, <2>4, <2>5, <2>7, Zenon
    <3>. HIDE DEF q, l
    <3>2. g[k + 1].term.shows = l /\ g[k + 1].term.pending = q
      BY <3>1
    <3>. QED  BY <2>7, <3>1, <3>2, Zenon DEF q, l
  <2>. QED  BY <2>6, <2>7, Zenon
<1>11. mid(1)
  <2>1. 1 \in 1 .. n /\ 1 - 1 = 0 /\ 1 # n
    BY <1>4
  <2>2. g[1].term = Receives(s.term, "ESC") /\ g[1].log = s.log
    <3>1. s = g[1 - 1]
      BY <1>7, <2>1
    <3>2. bytes[1] = "ESC"
      BY <1>4, Zenon DEF esc
    <3>. QED  BY <1>9, <2>1, <3>1, <3>2, Zenon
  <2>3. Receives(s.term, "ESC") = Plainly(s.term, "ESC")
    BY Zenon DEF Receives
  <2>4. g[1].term.shows = s.term.shows /\ g[1].term.pending = <<"ESC">>
    BY <2>2, <2>3 DEF Plainly
  <2>5. SubSeq(bytes, 1, 1) = <<"ESC">>
    <3> DEFINE p == SubSeq(bytes, 1, 1)
    <3>1. esc \in B /\ <<esc>> \in Seq(B) /\ Len(<<esc>>) = 1 /\ <<esc>>[1] = esc
      <4>1. esc \in B
        BY Zenon DEF B, esc
      <4>. QED  BY <4>1
    <3>2. bytes[1] = esc /\ bytes \in Seq(B) /\ Len(bytes) \in Nat /\ Len(bytes) > 3
      BY <1>4, Zenon DEF n
    <3>3. p \in Seq(B) /\ Len(p) = 1 /\ p[1] = bytes[1]
      BY <3>2
    <3>. HIDE DEF p
    <3>4. \A i \in 1 .. Len(p) : p[i] = <<esc>>[i]
      BY <3>1, <3>2, <3>3
    <3>5. Len(p) = Len(<<esc>>)
      BY <3>1, <3>3
    <3>6. p = <<esc>>
      BY <3>1, <3>3, <3>4, <3>5, SeqEqual, Zenon
    <3>. QED  BY <3>6, Zenon DEF p, esc
  <2>. QED  BY <1>8, <2>2, <2>4, <2>5, Zenon
<1>12. mid(n - 1)
  <2> DEFINE N == n - 2
             V == {k \in 0 .. N : mid(k + 1)}
  <2>1. /\ N \in Nat /\ N + 1 = n - 1
        /\ \A k \in 0 .. N - 1 : k + 1 \in 1 .. n - 1 /\ k + 1 \in 0 .. N /\ (k + 1) + 1 # n
    BY <1>4
  <2>. HIDE DEF N
  <2>2. ASSUME NEW k \in 0 .. N - 1, k \in V PROVE k + 1 \in V
    <3>1. k + 1 \in 1 .. n - 1 /\ k + 1 \in 0 .. N /\ (k + 1) + 1 # n
      BY <2>1, Zenon
    <3>2. mid(k + 1)
      BY <2>2, Zenon
    <3>3. mid((k + 1) + 1)
      BY <1>10, <3>1, <3>2, Zenon
    <3>. QED  BY <3>1, <3>3, Zenon
  <2>3. 0 \in V
    <3>1. 0 + 1 = 1 /\ 0 \in 0 .. N
      BY <2>1
    <3>2. mid(0 + 1)
      BY <1>11, <3>1
    <3>. QED  BY <3>1, <3>2, Zenon
  <2>4. N \in V
    <3>. HIDE DEF V
    <3>1. \A k \in 0 .. N : k \in V
      BY <2>1, <2>2, <2>3, Upward
    <3>. QED  BY <2>1, <3>1
  <2>5. mid(N + 1)
    BY <2>4, Zenon
  <2>. QED  BY <2>1, <2>5
<1>13. g[n].term = [shows |-> s.log \o Position(SubSeq(bytes, 1, n - 1)), pending |-> <<>>]
       /\ g[n].log = s.log \o means
  <2>1. n - 1 \in 1 .. n - 1 /\ (n - 1) + 1 = n
    BY <1>4
  <2>. QED  BY <1>10, <1>12, <2>1, Zenon
<1>14. Position(SubSeq(bytes, 1, n - 1)) = means
  <2>1. Position(SubSeq(bytes, 1, Len(bytes) - 1)) = Means("goto", "", Value(cols) - 1, Value(rows) - 1)
    BY <1>1, SpellsPosition, Zenon
  <2>2. Value(cols) - 1 = x /\ Value(rows) - 1 = y
    <3>1. row_n - 1 = y /\ col_n - 1 = x
      OBVIOUS
    <3>. HIDE DEF row_n, col_n
    <3>. QED  BY <1>1, <3>1, Zenon
  <2>. QED  BY <2>1, <2>2, Zenon DEF n, means
<1>15. IsSequence(s.log \o means)
  <2>1. PICK A : s.log \in Seq(A)
    BY Zenon DEF Settled, IsSequence
  <2>2. PICK C : means \in Seq(C)
    BY <1>3, Zenon DEF IsSequence
  <2>3. s.log \in Seq(A \cup C) /\ means \in Seq(A \cup C)
    BY <2>1, <2>2
  <2>4. s.log \o means \in Seq(A \cup C)
    BY <2>3
  <2>. QED  BY <2>4, Zenon DEF IsSequence
<1>16. Settled(g[n])
  <2> DEFINE l == s.log \o means
  <2>1. g[n].term = [shows |-> l, pending |-> <<>>] /\ g[n].log = l
    BY <1>13, <1>14, Zenon
  <2>2. IsSequence(l)
    BY <1>15, Zenon
  <2>. HIDE DEF l
  <2>3. g[n].term.shows = l /\ g[n].term.pending = <<>>
    BY <2>1
  <2>. QED  BY <2>1, <2>2, <2>3, Zenon DEF Settled, Idle
<1>. QED
  BY <1>5, <1>7, <1>16, Zenon DEF orders

-----------------------------------------------------------------------------
(***************************************************************************)
(* The calls of the monitor.                                               *)
(***************************************************************************)
\* What every call is.
Proper(orders) == IsSequence(orders) /\ \A s : Settled(s) => Good(s, orders)

\* A proper call behind a good one.
LEMMA ProperJoins ==
  ASSUME NEW a, NEW b, IsSequence(a), Proper(b)
  PROVE  IsSequence(a \o b) /\ \A s : Good(s, a) => Good(s, a \o b)
<1>1. PICK A : a \in Seq(A)
  BY Zenon DEF IsSequence
<1>2. PICK B : b \in Seq(B)
  BY Zenon DEF Proper, IsSequence
<1> DEFINE C == A \cup B
<1>3. a \in Seq(C) /\ b \in Seq(C)
  BY <1>1, <1>2
<1>. HIDE DEF C
<1>4. a \o b \in Seq(C)
  BY <1>3
<1>5. ASSUME NEW s, Good(s, a) PROVE Good(s, a \o b)
  <2>1. \A u : Settled(u) => Good(u, b)
    BY Zenon DEF Proper
  <2>. QED  BY <1>3, <1>5, <2>1, GoodJoins, Zenon
<1>. QED  BY <1>4, <1>5, Zenon DEF IsSequence

\* Every call of the monitor is proper.
LEMMA CallsProper ==
  /\ Proper(clear_screen)
  /\ \A x, y \in Nat : Proper(goto_xy(x, y))
  /\ \A ch \in Logged : /\ Proper(<<Say(ch)>>)
                        /\ Proper(k_log_fmt(<<"%", "c">>, <<ch>>))
                        /\ Proper(k_log_fmt(<<"%", "s", "a">>, << <<ch, ch>> >>))
  /\ \A n \in LoggedNumbers : /\ Proper(k_log_fmt(<<"%", "x", "%", "%">>, <<n>>))
                              /\ Proper(k_log_fmt(<<"%", "f", "%", "d">>, <<n, n>>))
                              /\ Proper(k_log_fmt(FaultFormat, <<n>>))
<1>1. Proper(clear_screen)
  <2>1. \A s : Good(s, clear_screen) /\ IsSequence(clear_screen)
    BY GoodClear, Zenon
  <2>. QED  BY <2>1, Zenon DEF Proper
<1> DEFINE none == [term |-> [shows |-> <<>>, pending |-> <<>>], log |-> <<>>]
<1>2. Settled(none)
  <2>1. IsSequence(<<>>)
    BY EmptySeq DEF IsSequence
  <2>. QED  BY <2>1 DEF Settled, Idle
<1>. HIDE DEF none
<1>3. ASSUME NEW x \in Nat, NEW y \in Nat PROVE Proper(goto_xy(x, y))
  <2>1. \A s : Settled(s) => Good(s, goto_xy(x, y)) /\ IsSequence(goto_xy(x, y))
    BY GoodGoto, Zenon
  <2>. QED  BY <1>2, <2>1, Zenon DEF Proper
<1>4. ASSUME NEW text \in Seq(Writable) PROVE Proper(Says(text))
  <2>1. \A s : Settled(s) => Good(s, Says(text)) /\ IsSequence(Says(text))
    BY GoodText, Zenon
  <2>. QED  BY <1>2, <2>1, Zenon DEF Proper
<1>5. ASSUME NEW ch \in Logged PROVE Proper(<<Say(ch)>>)
  <2>1. <<ch>> \in Seq(Writable)
    BY DEF Writable
  <2>2. Says(<<ch>>) = <<Say(ch)>>
    <3> DEFINE c == Say(ch)
               text == <<ch>>
    <3>1. DOMAIN text = 1 .. 1 /\ text[1] = ch
      OBVIOUS
    <3>2. Says(text) = [i \in 1 .. 1 |-> Say(text[i])]
      BY <3>1, Zenon DEF Says
    <3>3. \A i \in 1 .. 1 : Say(text[i]) = c
      BY <3>1
    <3>. HIDE DEF c, text
    <3>4. [i \in 1 .. 1 |-> Say(text[i])] = [i \in 1 .. 1 |-> c]
      BY <3>3
    <3>5. [i \in 1 .. 1 |-> c] = <<c>>
      OBVIOUS
    <3>. QED  BY <3>2, <3>4, <3>5, Zenon DEF c, text
  <2>. QED  BY <1>4, <2>1, <2>2, Zenon
<1>6. ASSUME NEW fmt, NEW args, k_log_vfmt(fmt, args) \in Seq(Writable) PROVE Proper(k_log_fmt(fmt, args))
  BY <1>4, <1>6, Zenon DEF k_log_fmt
<1>. QED
  BY <1>1, <1>3, <1>5, <1>6, TextsWritten, Zenon

\* The call of a fault is good wherever it finds the terminal.
LEMMA FaultProper ==
  ASSUME NEW n \in LoggedNumbers,
         NEW orders, orders = clear_screen \o goto_xy(0, 1) \o k_log_fmt(FaultFormat, <<n>>)
  PROVE  IsSequence(orders) /\ \A s : Good(s, orders)
<1> DEFINE a == clear_screen
           b == goto_xy(0, 1)
           c == k_log_fmt(FaultFormat, <<n>>)
<1>1. IsSequence(a) /\ \A s : Good(s, a)
  BY GoodClear, Zenon
<1>2. Proper(b) /\ Proper(c)
  <2>1. 0 \in Nat /\ 1 \in Nat
    OBVIOUS
  <2>. QED  BY <2>1, CallsProper, Zenon
<1>. HIDE DEF a, b, c
<1>3. IsSequence(a \o b) /\ \A s : Good(s, a \o b)
  BY <1>1, <1>2, ProperJoins, Zenon
<1>4. IsSequence((a \o b) \o c) /\ \A s : Good(s, (a \o b) \o c)
  <2> DEFINE ab == a \o b
  <2>. HIDE DEF ab
  <2>1. IsSequence(ab) /\ \A s : Good(s, ab)
    BY <1>3, Zenon DEF ab
  <2>2. IsSequence(ab \o c) /\ \A s : Good(s, ab \o c)
    BY <1>2, <2>1, ProperJoins, Zenon
  <2>. QED  BY <2>2, Zenon DEF ab
<1>. QED  BY <1>4, Zenon DEF a, b, c

\* What the terminal makes of a byte more.
LEMMA BytesTyped ==
  ASSUME NEW ch
  PROVE  IsSequence(BytesOf(ch))
<1>1. CASE ch \in DOMAIN BoxBytes
  BY <1>1, BytesApart, Zenon DEF BytesOf, IsSequence
<1>2. CASE ch \notin DOMAIN BoxBytes
  <2>1. BytesOf(ch) = IF ch = FullBlock THEN <<"E2">> ELSE <<ch>>
    BY <1>2, Zenon DEF BytesOf
  <2>2. <<"E2">> \in Seq({"E2"}) /\ <<ch>> \in Seq({ch})
    OBVIOUS
  <2>. QED  BY <2>1, <2>2, Zenon DEF IsSequence
<1>. QED  BY <1>1, <1>2, Zenon

\* The terminal follows as a character is sent.
LEMMA TerminalNext ==
  ASSUME NEW t, NEW sent, IsSequence(sent), NEW ch
  PROVE  /\ IsSequence(sent \o BytesOf(ch))
         /\ Receive(t, sent \o BytesOf(ch)) = Receive(Receive(t, sent), BytesOf(ch))
<1>1. PICK A : sent \in Seq(A)
  BY Zenon DEF IsSequence
<1>2. PICK B : BytesOf(ch) \in Seq(B)
  BY BytesTyped, Zenon DEF IsSequence
<1> DEFINE C == A \cup B
           more == BytesOf(ch)
<1>. HIDE DEF more
<1>3. sent \in Seq(C) /\ more \in Seq(C)
  BY <1>1, <1>2 DEF more
<1>. HIDE DEF C
<1>4. sent \o more \in Seq(C)
  BY <1>3
<1>5. Receive(t, sent \o more) = Receive(Receive(t, sent), more)
  BY <1>3, ReceiveJoins
<1>. QED  BY <1>4, <1>5, Zenon DEF IsSequence, more

\* No bytes, no change.
LEMMA ReceiveNone ==
  ASSUME NEW t
  PROVE  Receive(t, <<>>) = t
<1> DEFINE none == <<>>
<1>1. Len(none) = 0 /\ Len(none) \in Nat
  OBVIOUS
<1>. HIDE DEF none
<1>2. PICK g : Arrives(g, t, none) /\ Receive(t, none) = g[Len(none)]
  BY <1>1, ReceiveRuns, Zenon
<1>. QED  BY <1>1, <1>2, Zenon DEF Arrives, none

-----------------------------------------------------------------------------
(***************************************************************************)
(* The invariant.  Before the modules are there nothing is sent or logged. *)
(***************************************************************************)
Fresh == [shows |-> <<>>, pending |-> <<>>]
At(sent, log) == [term |-> Receive(Fresh, sent), log |-> log]

FollowInv ==
  /\ IsSequence(doing) /\ IsSequence(monitor)
  /\ ~modules_ready => monitor = <<>> /\ logged = <<>>
  /\ modules_ready /\ has_serial => Good(At(monitor, logged), doing)

\* The invariant holds at first.
LEMMA FollowStart ==
  MonitorInit => FollowInv
<1>. SUFFICES ASSUME MonitorInit PROVE FollowInv
  OBVIOUS
<1>1. IsSequence(<<>>)
  BY EmptySeq DEF IsSequence
<1>. QED  BY <1>1, Zenon DEF MonitorInit, FollowInv

\* A terminal that has received nothing shows an empty log.
LEMMA SettledNone ==
  Settled(At(<<>>, <<>>))
<1>1. Receive(Fresh, <<>>) = Fresh
  BY ReceiveNone, Zenon
<1>2. IsSequence(<<>>)
  BY EmptySeq DEF IsSequence
<1>. QED  BY <1>1, <1>2 DEF Settled, At, Idle, Fresh

\* An order is done.
LEMMA FollowOrder ==
  ASSUME FollowInv, Obey
  PROVE  FollowInv'
<1> DEFINE order == Head(doing)
           s == At(monitor, logged)
<1>1. /\ doing # <<>> /\ doing' = Tail(doing) /\ IsSequence(doing)
      /\ modules_ready' = modules_ready /\ has_serial' = has_serial
      /\ (log_char(order) \/ SetBoth(order) \/ ScreenGoto(order) \/ ScreenClear(order))
  BY Zenon DEF Obey, FollowInv
<1>. HIDE DEF order
<1>2. IsSequence(doing')
  <2>1. PICK A : doing \in Seq(A)
    BY <1>1, Zenon DEF IsSequence
  <2>2. Tail(doing) \in Seq(A)
    BY <1>1, <2>1
  <2>. QED  BY <1>1, <2>2, Zenon DEF IsSequence
<1>3. CASE ~modules_ready
  <2>1. monitor' = monitor /\ logged' = logged
    BY <1>1, <1>3, Zenon DEF log_char, SetBoth, ScreenGoto, ScreenClear
  <2>. QED  BY <1>1, <1>2, <1>3, <2>1, Zenon DEF FollowInv
<1>4. CASE modules_ready /\ ~has_serial
  <2>1. monitor' = monitor
    BY <1>1, <1>4, Zenon DEF log_char, SetBoth, ScreenGoto, ScreenClear
  <2>. QED  BY <1>1, <1>2, <1>4, <2>1, Zenon DEF FollowInv
<1>5. CASE modules_ready /\ has_serial
  <2>1. Good(s, doing) /\ IsSequence(monitor)
    BY <1>5, Zenon DEF FollowInv
  <2>2. Good(Does(s, order), Tail(doing))
    BY <1>1, <2>1, GoodFirst, Zenon DEF order
  <2>3. IsSequence(monitor') /\ At(monitor', logged') = Does(s, order)
    <3>1. CASE log_char(order)
      <4>1. /\ order.op = "log_char" /\ monitor' = monitor \o BytesOf(order.ch)
            /\ logged' = Logs(logged, order)
        BY <1>5, <3>1, Zenon DEF log_char, Logs
      <4>2. IsSequence(monitor')
            /\ Receive(Fresh, monitor') = Receive(Receive(Fresh, monitor), BytesOf(order.ch))
        <5>1. /\ IsSequence(monitor \o BytesOf(order.ch))
              /\ Receive(Fresh, monitor \o BytesOf(order.ch)) = Receive(Receive(Fresh, monitor), BytesOf(order.ch))
          BY <2>1, TerminalNext
        <5>. QED  BY <4>1, <5>1
      <4>3. s.term = Receive(Fresh, monitor) /\ s.log = logged
        BY DEF At
      <4>. HIDE DEF s
      <4>4. Does(s, order) = [term |-> Receive(Fresh, monitor'), log |-> logged']
        BY <4>1, <4>2, <4>3, Zenon DEF Does
      <4>. QED  BY <4>2, <4>4, Zenon DEF At
    <3>2. CASE ~log_char(order)
      <4>1. monitor' = monitor /\ logged' = logged
        BY <1>1, <3>2, Zenon DEF SetBoth, ScreenGoto, ScreenClear
      <4>2. order.op # "log_char"
        BY <1>1, <3>2 DEF SetBoth, ScreenGoto, ScreenClear
      <4>. QED  BY <2>1, <4>1, <4>2, Zenon DEF Does
    <3>. QED  BY <3>1, <3>2, Zenon
  <2>. QED  BY <1>1, <1>2, <1>5, <2>2, <2>3, Zenon DEF FollowInv
<1>. QED  BY <1>3, <1>4, <1>5, Zenon

\* A call begins.
LEMMA FollowBegin ==
  ASSUME FollowInv, NEW orders, Proper(orders), Begin(orders)
  PROVE  FollowInv'
<1>1. /\ doing = <<>> /\ doing' = orders /\ monitor' = monitor /\ logged' = logged
      /\ modules_ready' = modules_ready /\ has_serial' = has_serial
  BY Zenon DEF Begin
<1>2. IsSequence(orders)
  BY Zenon DEF Proper
<1>3. modules_ready /\ has_serial => Good(At(monitor, logged), orders)
  <2>. SUFFICES ASSUME modules_ready /\ has_serial PROVE Good(At(monitor, logged), orders)
    OBVIOUS
  <2>1. Good(At(monitor, logged), <<>>)
    BY <1>1, Zenon DEF FollowInv
  <2>2. Settled(At(monitor, logged))
    BY <2>1, GoodNone, Zenon
  <2>. QED  BY <2>2, Zenon DEF Proper
<1>. QED  BY <1>1, <1>2, <1>3, Zenon DEF FollowInv

\* Every step keeps the invariant.
LEMMA FollowStep ==
  ASSUME FollowInv, [MonitorNext]_<<console_vars, monitor_vars>>
  PROVE  FollowInv'
<1>1. CASE Obey
  BY <1>1, FollowOrder, Zenon
<1>2. CASE initialize_modules
  <2>1. /\ ~modules_ready /\ doing = <<>> /\ modules_ready' = TRUE
        /\ doing' = doing /\ monitor' = monitor /\ logged' = logged
    BY <1>2, Zenon DEF initialize_modules
  <2>2. Good(At(<<>>, <<>>), <<>>)
    BY SettledNone, GoodNone, Zenon
  <2>. QED  BY <2>1, <2>2, Zenon DEF FollowInv
<1>3. CASE initialize_conio
  BY <1>3, Zenon DEF initialize_conio, FollowInv
<1>4. CASE clrscr
  BY <1>4, CallsProper, FollowBegin, Zenon DEF clrscr
<1>5. CASE textmode
  BY <1>5, Zenon DEF textmode, monitor_vars, FollowInv
<1>6. ASSUME NEW ch \in Logged,
             putch(ch) \/ Log(<<"%", "c">>, <<ch>>) \/ puts2(<<ch>>) \/ Log(<<"%", "s", "a">>, << <<ch, ch>> >>)
      PROVE  FollowInv'
  <2>1. CASE putch(ch)
    BY <2>1, CallsProper, FollowBegin, Zenon DEF putch
  <2>2. CASE Log(<<"%", "c">>, <<ch>>)
    BY <2>2, CallsProper, FollowBegin, Zenon DEF Log
  <2>3. CASE puts2(<<ch>>)
    BY <2>3, Zenon DEF puts2, monitor_vars, FollowInv
  <2>4. CASE Log(<<"%", "s", "a">>, << <<ch, ch>> >>)
    BY <2>4, CallsProper, FollowBegin, Zenon DEF Log
  <2>. QED  BY <1>6, <2>1, <2>2, <2>3, <2>4, Zenon
<1>7. ASSUME NEW n \in LoggedNumbers,
             Log(<<"%", "x", "%", "%">>, <<n>>) \/ Log(<<"%", "f", "%", "d">>, <<n, n>>) \/ FaultLogged(n)
      PROVE  FollowInv'
  <2>1. CASE Log(<<"%", "x", "%", "%">>, <<n>>)
    BY <2>1, CallsProper, FollowBegin, Zenon DEF Log
  <2>2. CASE Log(<<"%", "f", "%", "d">>, <<n, n>>)
    BY <2>2, CallsProper, FollowBegin, Zenon DEF Log
  <2>3. CASE FaultLogged(n)
    <3> DEFINE orders == clear_screen \o goto_xy(0, 1) \o k_log_fmt(FaultFormat, <<n>>)
    <3>1. /\ doing' = orders /\ monitor' = monitor /\ logged' = logged
          /\ modules_ready' = modules_ready /\ has_serial' = has_serial
      BY <2>3, Zenon DEF FaultLogged
    <3>2. IsSequence(orders) /\ \A s : Good(s, orders)
      BY FaultProper
    <3>. HIDE DEF orders
    <3>. QED  BY <3>1, <3>2, Zenon DEF FollowInv
  <2>. QED  BY <1>7, <2>1, <2>2, <2>3, Zenon
<1>8. ASSUME NEW x \in 0 .. Width, NEW y \in 0 .. Height, gotoxy(x, y)
      PROVE  FollowInv'
  <2>1. x \in Nat /\ y \in Nat
    BY ConsoleAssumption
  <2>2. Proper(goto_xy(x, y))
    BY <2>1, CallsProper, Zenon
  <2>. QED  BY <1>8, <2>2, FollowBegin, Zenon DEF gotoxy
<1>9. CASE UNCHANGED <<console_vars, monitor_vars>>
  BY <1>9, Zenon DEF monitor_vars, FollowInv
<1>. QED  BY <1>1, <1>2, <1>3, <1>4, <1>5, <1>6, <1>7, <1>8, <1>9, Zenon DEF MonitorNext

\* Between calls it is what is to be shown.
LEMMA FollowInvFollows ==
  FollowInv => MonitorFollows
<1>. SUFFICES ASSUME FollowInv, doing = <<>>, has_serial PROVE Terminal.shows = logged
  BY Zenon DEF MonitorFollows
<1>1. Settled(At(monitor, logged))
  <2>1. CASE modules_ready
    <3>1. Good(At(monitor, logged), <<>>)
      BY <2>1, Zenon DEF FollowInv
    <3>. QED  BY <3>1, GoodNone, Zenon
  <2>2. CASE ~modules_ready
    BY <2>2, SettledNone, Zenon DEF FollowInv
  <2>. QED  BY <2>1, <2>2, Zenon
<1>2. At(monitor, logged).term = Terminal /\ At(monitor, logged).log = logged
  BY DEF At, Terminal, Fresh
<1>. QED  BY <1>1, <1>2, Zenon DEF Settled

\* What is on the monitor between calls is what was logged.
THEOREM MonitorKeepsUp == MonitorSpec => []MonitorFollows
<1>1. ConsoleInit /\ MonitorInit => FollowInv
  BY FollowStart, Zenon
<1>2. FollowInv /\ [MonitorNext]_<<console_vars, monitor_vars>> => FollowInv'
  BY FollowStep, Zenon
<1>. QED  BY <1>1, <1>2, FollowInvFollows, PTL DEF MonitorSpec
=============================================================================
