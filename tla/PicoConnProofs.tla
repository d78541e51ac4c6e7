--------------------------- MODULE PicoConnProofs ---------------------------
(***************************************************************************)
(* Proofs about one TCP connection of the picoTCP driver, for buffers of   *)
(* any size and any number of bytes.                                       *)
(***************************************************************************)
EXTENDS PicoConn, SequenceTheorems, TLAPS

RxType == [peer : Nat, buf : Seq(Nat), sock : Seq(Nat), app : Seq(Nat)]
TxType == [app : Nat, sock : Seq(Nat), buf : Seq(Nat), out : Seq(Nat),
           peer : Seq(Nat)]

\* The peer has the bytes of the application up to the a-th, the stack those
\* up to the h-th, txbuf those up to the f-th and the socket the rest.
Numbered(t, a, h, f) ==
  /\ a <= h /\ h <= f /\ f <= t.app
  /\ t.peer = Numbers(0, a) /\ t.out = Numbers(a, h)
  /\ t.buf = Numbers(h, f) /\ t.sock = Numbers(f, t.app)

Streams(t) == \E a, h, f \in 0 .. t.app : Numbered(t, a, h, f)

\* The same without a Connection: txbuf is gone.
Severed(t) ==
  /\ t.buf = <<>>
  /\ \E a, h \in 0 .. t.app :
       a <= h /\ t.peer = Numbers(0, a) /\ t.out = Numbers(a, h)

TxInv == IF conn THEN Streams(tx) ELSE Severed(tx)

\* A send that waits has passed on a part of rxbuf, and only a part.
Held == svc = "blocked" => sending > 0 /\ sending < Len(rx.buf)

\* The loop, its snapshot and the objects it uses.
Control ==
  /\ pc # "handle" => ready = {}
  /\ ready # {} => phy
  /\ "r" \in ready => tx.sock # <<>> \/ HungUp
  /\ phy => conn
  /\ ~phy => ~conn \/ HungUp
  /\ tcp # "closeWait" => conn
  /\ tcp = "synSent" => /\ kind = "connected"
                        /\ rx = [peer |-> 0, buf |-> <<>>, sock |-> <<>>, app |-> <<>>]
  /\ svc # "blocked" => sending = 0
  /\ Held
  /\ svc = "run" /\ "w" \in ready => Len(rx.sock) < SockCap \/ HungUp

\* The buffers of one direction, within their bounds.
TxOK(t) ==
  t \in TxType /\ Len(t.buf) <= TxCap /\ Len(t.sock) <= SockCap /\ Len(t.out) <= OutCap
RxOK(r, n) ==
  r \in RxType /\ Len(r.buf) < RxCap /\ Len(r.sock) <= SockCap /\ n \in 0 .. Len(r.buf)

\* Nothing arrives at the application that the peer has not sent.
RxBound ==
  Len(rx.app) + Len(rx.sock) + Len(rx.buf) - sending <= rx.peer + Len(Greeting)

RxInv == RxOK(rx, sending) /\ RxBound /\ RxIntact

IInv == TypeOK /\ Control /\ TxInv /\ RxInv /\ RxNotified /\ StopsExplained

-----------------------------------------------------------------------------
(* Buffers of numbered bytes                                               *)

\* Appending is associative.
LEMMA Assoc ==
  ASSUME NEW s \in Seq(Nat), NEW t \in Seq(Nat), NEW u \in Seq(Nat)
  PROVE  s \o t \o u = s \o (t \o u)
BY SMTT(30)
\* Appending in two places.
LEMMA Regroup ==
  ASSUME NEW a \in Seq(Nat), NEW s \in Seq(Nat), NEW t \in Seq(Nat), NEW e \in Seq(Nat)
  PROVE  a \o (s \o t) \o e = a \o s \o (t \o e)
BY SMTT(30)

\* A buffer of numbered bytes, and how many it holds.
LEMMA NumbersType ==
  ASSUME NEW m \in Nat, NEW n \in Nat, m <= n
  PROVE  /\ Numbers(m, n) \in Seq(Nat) /\ Len(Numbers(m, n)) = n - m
         /\ DOMAIN Numbers(m, n) = 1 .. n - m
         /\ \A i \in 1 .. n - m : Numbers(m, n)[i] = m + i
<1>1. n - m \in Nat /\ \A i \in 1 .. n - m : m + i \in Nat
  OBVIOUS
<1>2. Numbers(m, n) \in [1 .. n - m -> Nat]
  BY <1>1, SMTT(60) DEF Numbers
<1> QED BY <1>1, <1>2, SMTT(60) DEF Numbers

\* Appending what follows.
LEMMA Joined ==
  ASSUME NEW m \in Nat, NEW n \in Nat, NEW k \in Nat, m <= n, n <= k
  PROVE  Numbers(m, n) \o Numbers(n, k) = Numbers(m, k)
<1> DEFINE a == Numbers(m, n)
           b == Numbers(n, k)
           c == Numbers(m, k)
<1>0. m <= k
  OBVIOUS
<1>1. /\ a \in Seq(Nat) /\ Len(a) = n - m /\ \A i \in 1 .. n - m : a[i] = m + i
      /\ b \in Seq(Nat) /\ Len(b) = k - n /\ \A i \in 1 .. k - n : b[i] = n + i
      /\ c \in Seq(Nat) /\ Len(c) = k - m /\ \A i \in 1 .. k - m : c[i] = m + i
  BY <1>0, NumbersType, ZenonT(60)
<1> HIDE DEF a, b, c
<1>2. /\ a \o b \in Seq(Nat) /\ Len(a \o b) = Len(a) + Len(b)
      /\ \A i \in 1 .. Len(a) + Len(b) :
           (a \o b)[i] = IF i <= Len(a) THEN a[i] ELSE b[i - Len(a)]
  BY <1>1, ConcatProperties, Zenon
<1>3. Len(a) + Len(b) = k - m
  BY <1>1, SMTT(60)
<1>4. ASSUME NEW i \in 1 .. k - m PROVE (a \o b)[i] = c[i]
  <2>1. (a \o b)[i] = IF i <= Len(a) THEN a[i] ELSE b[i - Len(a)]
    BY <1>2, <1>3, SMTT(60)
  <2>2. i <= n - m => i \in 1 .. n - m
    OBVIOUS
  <2>3. ~(i <= n - m) => i - (n - m) \in 1 .. k - n
    OBVIOUS
  <2>4. c[i] = m + i
    BY <1>1, SMTT(60)
  <2> QED BY <1>1, <2>1, <2>2, <2>3, <2>4, SMTT(60)
<1>5. a \o b = c
  <2>1. Len(a \o b) = Len(c)
    BY <1>1, <1>2, <1>3, SMTT(60)
  <2>2. \A i \in 1 .. Len(a \o b) : (a \o b)[i] = c[i]
    BY <1>2, <1>3, <1>4, SMTT(60)
  <2> QED BY <1>1, <1>2, <2>1, <2>2, SeqEqual, ZenonT(60)
<1> QED BY <1>5, SMTT(60) DEF a, b, c

\* Taking the first k bytes out.
LEMMA Parted ==
  ASSUME NEW m \in Nat, NEW n \in Nat, m <= n, NEW k \in 0 .. n - m
  PROVE  /\ Take(Numbers(m, n), k) = Numbers(m, m + k)
         /\ Drop(Numbers(m, n), k) = Numbers(m + k, n)
<1> DEFINE a == Numbers(m, n)
           b == Numbers(m, m + k)
           c == Numbers(m + k, n)
<1>0. m + k \in Nat /\ m <= m + k /\ m + k <= n
  OBVIOUS
<1>1. /\ a \in Seq(Nat) /\ Len(a) = n - m /\ \A i \in 1 .. n - m : a[i] = m + i
      /\ b \in Seq(Nat) /\ Len(b) = (m + k) - m /\ \A i \in 1 .. (m + k) - m : b[i] = m + i
      /\ c \in Seq(Nat) /\ Len(c) = n - (m + k) /\ \A i \in 1 .. n - (m + k) : c[i] = (m + k) + i
  BY <1>0, NumbersType, ZenonT(60)
<1> HIDE DEF a, b, c
<1>2. SubSeq(a, 1, k) = b
  <2>1. SubSeq(a, 1, k) \in Seq(Nat) /\ Len(SubSeq(a, 1, k)) = Len(b)
    BY <1>1, SMTT(60)
  <2>2. \A i \in 1 .. Len(b) : SubSeq(a, 1, k)[i] = b[i]
    BY <1>1, SMTT(60)
  <2> QED BY <1>1, <2>1, <2>2, SMTT(60)
<1>3. SubSeq(a, k + 1, Len(a)) = c
  <2>1. SubSeq(a, k + 1, Len(a)) \in Seq(Nat) /\ Len(SubSeq(a, k + 1, Len(a))) = Len(c)
    BY <1>1, SMTT(60)
  <2>2. \A i \in 1 .. Len(c) : SubSeq(a, k + 1, Len(a))[i] = c[i]
    BY <1>1, SMTT(60)
  <2> QED BY <1>1, <2>1, <2>2, SMTT(60)
<1> QED BY <1>2, <1>3, SMTT(60) DEF a, b, c, Take, Drop

\* A buffer without its first n bytes, and those bytes.
LEMMA Cut ==
  ASSUME NEW s \in Seq(Nat), NEW n \in 0 .. Len(s)
  PROVE  /\ Drop(s, n) \in Seq(Nat) /\ Len(Drop(s, n)) = Len(s) - n
         /\ Take(s, n) \in Seq(Nat) /\ Len(Take(s, n)) = n
<1>1. Len(s) \in Nat /\ n \in Nat /\ \A i \in 1 .. Len(s) : s[i] \in Nat
  OBVIOUS
<1> QED BY <1>1, SMTT(60) DEF Drop, Take

\* Cutting a buffer in two loses nothing.
LEMMA TakeDrop ==
  ASSUME NEW s \in Seq(Nat), NEW n \in 0 .. Len(s)
  PROVE  Take(s, n) \o Drop(s, n) = s
<1>1. /\ 1 \in 1 .. Len(s) + 1 /\ n \in 1 - 1 .. Len(s) /\ Len(s) \in n .. Len(s)
  OBVIOUS
<1>2. SubSeq(s, 1, n) \o SubSeq(s, n + 1, Len(s)) = SubSeq(s, 1, Len(s))
  BY <1>1, ConcatAdjacentSubSeq, Zenon
<1>3. SubSeq(s, 1, Len(s)) = s
  BY SubSeqFull, Zenon
<1> QED BY <1>2, <1>3, Zenon DEF Take, Drop

\* What is where in a buffer that was cut.
LEMMA DropAt ==
  ASSUME NEW s \in Seq(Nat), NEW n \in 0 .. Len(s), NEW i \in 1 .. Len(s) - n
  PROVE  Drop(s, n)[i] = s[n + i]
<1>1. Len(s) \in Nat /\ n \in Nat /\ \A j \in 1 .. Len(s) : s[j] \in Nat
  OBVIOUS
<1> QED BY <1>1, SMTT(60) DEF Drop

\* Two cuts are one.
LEMMA DropDrop ==
  ASSUME NEW s \in Seq(Nat), NEW m \in 0 .. Len(s), NEW n \in 0 .. Len(s) - m
  PROVE  Drop(Drop(s, m), n) = Drop(s, m + n)
<1>1. /\ Len(s) \in Nat /\ m \in Nat /\ n \in Nat /\ m + n \in 0 .. Len(s)
      /\ Len(s) - (m + n) = (Len(s) - m) - n
      /\ \A i \in 1 .. Len(s) : s[i] \in Nat
  OBVIOUS
<1> DEFINE d == Drop(s, m)
           u == Drop(d, n)
           v == Drop(s, m + n)
<1>2. d \in Seq(Nat) /\ Len(d) = Len(s) - m /\ v \in Seq(Nat) /\ Len(v) = Len(s) - (m + n)
  BY <1>1, Cut, Zenon
<1>3. n \in 0 .. Len(d)
  BY <1>2, Zenon
<1>4. u \in Seq(Nat) /\ Len(u) = Len(d) - n
  BY <1>2, <1>3, Cut, Zenon
<1>5. Len(u) = Len(v)
  BY <1>1, <1>2, <1>4, Zenon
<1>6. ASSUME NEW i \in 1 .. Len(u) PROVE u[i] = v[i]
  <2>1. i \in 1 .. Len(d) - n /\ n + i \in 1 .. Len(s) - m /\ i \in 1 .. Len(s) - (m + n)
    BY <1>1, <1>2, <1>4, SMTT(60)
  <2>2. u[i] = d[n + i]
    BY <1>2, <1>3, <2>1, DropAt, Zenon
  <2>3. d[n + i] = s[m + (n + i)]
    BY <1>1, <2>1, SMTT(60) DEF Drop
  <2>4. v[i] = s[(m + n) + i]
    BY <1>1, <2>1, SMTT(60) DEF Drop
  <2>5. m + (n + i) = (m + n) + i
    BY <1>1, SMTT(60)
  <2> QED BY <2>2, <2>3, <2>4, <2>5, Zenon
<1> HIDE DEF u, v
<1>7. u = v
  BY <1>2, <1>4, <1>5, <1>6, SeqEqual, Zenon
<1> QED BY <1>7, SMTT(60) DEF u, v, d

\* A cut at the start.
LEMMA DropNone ==
  ASSUME NEW s \in Seq(Nat)
  PROVE  Drop(s, 0) = s
<1>1. 0 + 1 = 1
  OBVIOUS
<1> QED BY <1>1, SubSeqFull, Zenon DEF Drop

\* Moving the next n bytes of a buffer to the end of another.
Moved(a, s, b, m, n) ==
  /\ a \o (s \o Take(Drop(b, m), n)) \o Drop(b, m + n) = a \o s \o Drop(b, m)
  /\ s \o Take(Drop(b, m), n) \in Seq(Nat)
  /\ Len(s \o Take(Drop(b, m), n)) = Len(s) + n

\* The bytes that pico_handleRead moves from rxbuf to the Unix socket leave
\* the stream as a whole unchanged.
LEMMA SendMore ==
  ASSUME NEW a \in Seq(Nat), NEW s \in Seq(Nat), NEW b \in Seq(Nat),
         NEW m \in 0 .. Len(b), NEW n \in 0 .. Len(b) - m
  PROVE  Moved(a, s, b, m, n)
<1>1. Drop(b, m) \in Seq(Nat) /\ Len(Drop(b, m)) = Len(b) - m
  BY Cut, Zenon
<1>2. PICK d \in Seq(Nat) : d = Drop(b, m)
  BY <1>1, Zenon
<1>3. n \in 0 .. Len(d)
  BY <1>1, <1>2, Zenon
<1>4. PICK t \in Seq(Nat) : t = Take(d, n) /\ Len(t) = n
  BY <1>3, Cut, Zenon
<1>5. PICK e \in Seq(Nat) : e = Drop(d, n)
  BY <1>3, Cut, Zenon
<1>6. t \o e = d
  BY <1>3, <1>4, <1>5, TakeDrop, Zenon
<1>7. Drop(b, m + n) = e
  BY <1>2, <1>5, DropDrop, Zenon
<1>8. s \o t \in Seq(Nat) /\ Len(s \o t) = Len(s) + Len(t)
  BY ConcatProperties, Zenon
<1>9. a \o (s \o t) \o e = a \o s \o (t \o e)
  <2>1. \A x, y, z \in Seq(Nat) : a \o (x \o y) \o z = a \o x \o (y \o z)
    BY Regroup, Zenon
  <2>2. \A y, z \in Seq(Nat) : a \o (s \o y) \o z = a \o s \o (y \o z)
    BY <2>1, Zenon
  <2>3. \A z \in Seq(Nat) : a \o (s \o t) \o z = a \o s \o (t \o z)
    BY <2>2, Zenon
  <2> QED BY <2>3, Zenon
<1> QED BY <1>2, <1>4, <1>6, <1>7, <1>8, <1>9, Zenon DEF Moved

\* Moving the first k bytes of a buffer to the end of another.
LEMMA ReadMore ==
  ASSUME NEW a \in Seq(Nat), NEW s \in Seq(Nat), NEW k \in 0 .. Len(s)
  PROVE  a \o Take(s, k) \o Drop(s, k) = a \o s
<1>1. PICK t \in Seq(Nat) : t = Take(s, k)
  BY Cut, Zenon
<1>2. PICK e \in Seq(Nat) : e = Drop(s, k)
  BY Cut, Zenon
<1>3. t \o e = s
  BY <1>1, <1>2, TakeDrop, Zenon
<1>4. \A y, z \in Seq(Nat) : a \o y \o z = a \o (y \o z)
  BY Assoc, Zenon
<1>5. \A z \in Seq(Nat) : a \o t \o z = a \o (t \o z)
  BY <1>4, Zenon
<1>6. a \o t \o e = a \o (t \o e)
  BY <1>5, Zenon
<1> QED BY <1>1, <1>2, <1>3, <1>6, Zenon

-----------------------------------------------------------------------------
(* From the application to the peer                                        *)

\* The fields of a record of buffers.
LEMMA TxFields ==
  ASSUME NEW t \in TxType
  PROVE  /\ t.app \in Nat /\ t.sock \in Seq(Nat) /\ t.buf \in Seq(Nat)
         /\ t.out \in Seq(Nat) /\ t.peer \in Seq(Nat)
         /\ Len(t.sock) \in Nat /\ Len(t.buf) \in Nat /\ Len(t.out) \in Nat
         /\ Len(t.peer) \in Nat
<1>1. /\ t.app \in Nat /\ t.sock \in Seq(Nat) /\ t.buf \in Seq(Nat)
      /\ t.out \in Seq(Nat) /\ t.peer \in Seq(Nat)
  BY SMTT(60) DEF TxType
<1> QED BY <1>1, SMTT(60)

\* The lengths of the buffers.
LEMMA Lengths ==
  ASSUME NEW t \in TxType, NEW a \in 0 .. t.app, NEW h \in 0 .. t.app,
         NEW f \in 0 .. t.app, Numbered(t, a, h, f)
  PROVE  /\ t.app \in Nat /\ a \in Nat /\ h \in Nat /\ f \in Nat
         /\ a <= h /\ h <= f /\ f <= t.app /\ 0 \in Nat /\ 0 <= a
         /\ Len(t.peer) = a /\ Len(t.out) = h - a /\ Len(t.buf) = f - h
         /\ Len(t.sock) = t.app - f
<1>1. t.app \in Nat
  BY TxFields, SMTT(60)
<1>2. a \in Nat /\ h \in Nat /\ f \in Nat /\ 0 \in Nat /\ 0 <= a
  BY <1>1, SMTT(60)
<1>3. a <= h /\ h <= f /\ f <= t.app
  BY SMTT(60) DEF Numbered
<1>4. /\ Len(Numbers(0, a)) = a - 0 /\ Len(Numbers(a, h)) = h - a
      /\ Len(Numbers(h, f)) = f - h /\ Len(Numbers(f, t.app)) = t.app - f
  BY <1>1, <1>2, <1>3, NumbersType, ZenonT(60)
<1>5. /\ Len(t.peer) = a - 0 /\ Len(t.out) = h - a /\ Len(t.buf) = f - h
      /\ Len(t.sock) = t.app - f
  BY <1>4, Zenon DEF Numbered
<1> QED BY <1>1, <1>2, <1>3, <1>5, SMTT(60)

\* pico_socket_write moves bytes from txbuf to the stack, within its room.
LEMMA WrittenStreams ==
  ASSUME NEW t \in TxType, Streams(t), Len(t.out) <= OutCap, Len(t.buf) <= TxCap
  PROVE  /\ Written(t) \in TxType /\ Streams(Written(t))
         /\ Written(t).peer = t.peer /\ Written(t).app = t.app
         /\ Written(t).sock = t.sock
         /\ Len(Written(t).out) <= OutCap /\ Len(Written(t).buf) <= TxCap
<1>1. PICK a, h, f \in 0 .. t.app : Numbered(t, a, h, f)
  BY DEF Streams
<1>2. /\ t.app \in Nat /\ a \in Nat /\ h \in Nat /\ f \in Nat
      /\ a <= h /\ h <= f /\ f <= t.app
      /\ Len(t.out) = h - a /\ Len(t.buf) = f - h
  BY <1>1, Lengths
<1>3. /\ t.sock \in Seq(Nat) /\ t.buf \in Seq(Nat) /\ t.out \in Seq(Nat)
      /\ t.peer \in Seq(Nat)
  BY TxFields
<1>4. PICK c \in 0 .. f - h : c = Chunk(t.buf)
  <2>1. Chunk(t.buf) \in 0 .. f - h
    BY <1>2, PicoConnAssumption DEF Chunk, Lesser
  <2> QED BY <2>1, Zenon
<1>5. CASE ~(Len(t.out) + c <= OutCap)
  BY <1>4, <1>5, Zenon DEF Written
<1>6. CASE Len(t.out) + c <= OutCap
  <2> DEFINE w == [t EXCEPT !.out = t.out \o Take(t.buf, c), !.buf = Drop(t.buf, c)]
  <2>1. Written(t) = w
    BY <1>4, <1>6 DEF Written
  <2>2. c \in 0 .. Len(t.buf)
    BY <1>2
  <2>3. /\ Take(t.buf, c) \in Seq(Nat) /\ Len(Take(t.buf, c)) = c
        /\ Drop(t.buf, c) \in Seq(Nat) /\ Len(Drop(t.buf, c)) = Len(t.buf) - c
    BY <1>3, <2>2, Cut, Zenon
  <2>4. /\ t.out \o Take(t.buf, c) \in Seq(Nat)
        /\ Len(t.out \o Take(t.buf, c)) = Len(t.out) + Len(Take(t.buf, c))
    BY <1>3, <2>3, ConcatProperties, Zenon
  <2>5. w \in TxType
    BY <2>3, <2>4 DEF TxType
  <2>6. /\ w.peer = t.peer /\ w.app = t.app /\ w.sock = t.sock
        /\ w.out = t.out \o Take(t.buf, c) /\ w.buf = Drop(t.buf, c)
    BY DEF TxType
  <2>7. Len(w.out) <= OutCap /\ Len(w.buf) <= TxCap
    <3>1. Len(w.out) = Len(t.out) + c /\ Len(w.buf) = Len(t.buf) - c
      BY <2>3, <2>4, <2>6, Zenon
    <3>2. Len(t.buf) - c <= TxCap
      BY <1>2, <2>2, PicoConnAssumption, SMTT(60)
    <3> QED BY <1>6, <3>1, <3>2, Zenon
  <2>8. h + c \in 0 .. t.app /\ h + c \in Nat /\ h <= h + c /\ a <= h + c /\ h + c <= f
    BY <1>2, SMTT(60)
  <2>9. w.buf = Numbers(h + c, f) /\ Take(t.buf, c) = Numbers(h, h + c)
    <3>1. /\ Take(Numbers(h, f), c) = Numbers(h, h + c)
          /\ Drop(Numbers(h, f), c) = Numbers(h + c, f)
      BY <1>2, <1>4, Parted, Zenon
    <3> QED BY <1>1, <2>6, <3>1, Zenon DEF Numbered
  <2>10. w.out = Numbers(a, h + c)
    <3>1. Numbers(a, h) \o Numbers(h, h + c) = Numbers(a, h + c)
      BY <1>2, <2>8, Joined, ZenonT(60)
    <3> QED BY <1>1, <2>6, <2>9, <3>1, Zenon DEF Numbered
  <2> HIDE DEF w
  <2>11. Numbered(w, a, h + c, f)
    BY <1>1, <2>6, <2>8, <2>9, <2>10, Zenon DEF Numbered
  <2>12. Streams(w)
    BY <2>6, <2>8, <2>11, Zenon DEF Streams
  <2> QED BY <2>1, <2>5, <2>6, <2>7, <2>12, Zenon
<1> QED BY <1>5, <1>6

\* A buffer of no bytes.
LEMMA NumbersNone ==
  ASSUME NEW m \in Nat
  PROVE  Numbers(m, m) = <<>>
<1>1. m <= m /\ m - m = 0
  OBVIOUS
<1>2. Numbers(m, m) \in Seq(Nat) /\ Len(Numbers(m, m)) = 0
  BY <1>1, NumbersType, ZenonT(60)
<1> QED BY <1>2, EmptySeq, Zenon

\* phyOnUnixData appends all of the socket to txbuf.
Received(t) == [t EXCEPT !.sock = <<>>, !.buf = t.buf \o t.sock]

\* Reading the Unix socket into txbuf in phyOnUnixData leaves the sending
\* stream as a whole unchanged.
LEMMA ReceivedStreams ==
  ASSUME NEW t \in TxType, Streams(t)
  PROVE  /\ Received(t) \in TxType /\ Streams(Received(t))
         /\ Received(t).peer = t.peer /\ Received(t).app = t.app
         /\ Received(t).out = t.out /\ Received(t).sock = <<>>
         /\ Received(t).buf = t.buf \o t.sock
         /\ Len(Received(t).buf) = t.app - Len(t.peer) - Len(t.out)
<1>1. PICK a, h, f \in 0 .. t.app : Numbered(t, a, h, f)
  BY DEF Streams
<1>2. /\ t.app \in Nat /\ a \in Nat /\ h \in Nat /\ f \in Nat
      /\ a <= h /\ h <= f /\ f <= t.app /\ h <= t.app
      /\ Len(t.peer) = a /\ Len(t.out) = h - a
  BY <1>1, Lengths
<1>3. t.buf \in Seq(Nat) /\ t.sock \in Seq(Nat)
  BY TxFields
<1>4. t.buf \o t.sock = Numbers(h, t.app)
  <2>1. Numbers(h, f) \o Numbers(f, t.app) = Numbers(h, t.app)
    BY <1>2, Joined, ZenonT(60)
  <2> QED BY <1>1, <2>1, Zenon DEF Numbered
<1>5. Numbers(h, t.app) \in Seq(Nat) /\ Len(Numbers(h, t.app)) = t.app - h
  BY <1>2, NumbersType, ZenonT(60)
<1>6. /\ Received(t) \in TxType
      /\ Received(t).peer = t.peer /\ Received(t).app = t.app
      /\ Received(t).out = t.out /\ Received(t).sock = <<>>
      /\ Received(t).buf = t.buf \o t.sock
  <2>1. t.buf \o t.sock \in Seq(Nat) /\ <<>> \in Seq(Nat)
    BY <1>4, <1>5, EmptySeq, Zenon
  <2> QED BY <2>1 DEF TxType, Received
<1>7. Len(Received(t).buf) = t.app - Len(t.peer) - Len(t.out)
  <2>1. t.app - h = t.app - Len(t.peer) - Len(t.out)
    BY <1>2
  <2> QED BY <1>4, <1>5, <1>6, <2>1, Zenon
<1>8. Numbers(t.app, t.app) = <<>> /\ t.app <= t.app /\ t.app \in 0 .. t.app
  BY <1>2, NumbersNone
<1>9. Numbered(Received(t), a, h, t.app)
  BY <1>1, <1>2, <1>4, <1>6, <1>8, Zenon DEF Numbered
<1>10. Streams(Received(t))
  BY <1>6, <1>8, <1>9, Zenon DEF Streams
<1> QED BY <1>6, <1>7, <1>10, Zenon

\* The peer acknowledges k bytes.
Acked(t, k) == [t EXCEPT !.peer = t.peer \o Take(t.out, k), !.out = Drop(t.out, k)]

\* An acknowledgement, which raises EV_WR, moves the border between what the
\* peer has and what is under way, and nothing else.
LEMMA AckedFields ==
  ASSUME NEW t \in TxType, NEW k \in 1 .. Len(t.out), NEW a \in Nat, NEW h \in Nat,
         a <= h, t.peer = Numbers(0, a), t.out = Numbers(a, h)
  PROVE  /\ Acked(t, k) \in TxType
         /\ Acked(t, k).app = t.app /\ Acked(t, k).sock = t.sock
         /\ Acked(t, k).buf = t.buf
         /\ a + k \in Nat /\ a <= a + k /\ a + k <= h
         /\ Acked(t, k).peer = Numbers(0, a + k)
         /\ Acked(t, k).out = Numbers(a + k, h)
         /\ Len(Acked(t, k).out) <= Len(t.out)
<1>1. 0 \in Nat /\ 0 <= a /\ Len(t.out) = h - a
  BY NumbersType
<1>2. k \in 0 .. h - a /\ a + k \in Nat /\ a <= a + k /\ a + k <= h
  <2>1. k \in 1 .. h - a
    BY <1>1, Zenon
  <2> QED BY <2>1
<1>3. Take(t.out, k) = Numbers(a, a + k) /\ Drop(t.out, k) = Numbers(a + k, h)
  <2>1. /\ Take(Numbers(a, h), k) = Numbers(a, a + k)
        /\ Drop(Numbers(a, h), k) = Numbers(a + k, h)
    BY <1>2, Parted, Zenon
  <2> QED BY <2>1, Zenon
<1>4. t.peer \o Take(t.out, k) = Numbers(0, a + k)
  BY <1>1, <1>2, <1>3, Joined, ZenonT(60)
<1>5. /\ Numbers(0, a + k) \in Seq(Nat)
      /\ Numbers(a + k, h) \in Seq(Nat) /\ Len(Numbers(a + k, h)) = h - (a + k)
  <2>1. 0 <= a + k
    BY <1>2
  <2> QED BY <1>1, <1>2, <2>1, NumbersType, ZenonT(60)
<1>6. Len(Numbers(a + k, h)) <= Len(t.out)
  BY <1>1, <1>2, <1>5
<1>7. /\ Acked(t, k) \in TxType
      /\ Acked(t, k).app = t.app /\ Acked(t, k).sock = t.sock
      /\ Acked(t, k).buf = t.buf
      /\ Acked(t, k).peer = Numbers(0, a + k)
      /\ Acked(t, k).out = Numbers(a + k, h)
  BY <1>3, <1>4, <1>5 DEF TxType, Acked
<1> QED BY <1>2, <1>6, <1>7, Zenon

\* phyOnUnixData and pico_handleWrite keep the application's stream.
LEMMA UnixDataTx ==
  ASSUME TxOK(tx), Streams(tx), UnixData
  PROVE  TxOK(tx)' /\ Streams(tx)' /\ tx'.peer = tx.peer /\ tx'.app = tx.app
<1>1. tx \in TxType /\ Len(tx.out) <= OutCap
  BY Zenon DEF TxOK
<1>2. PICK t : t = Received(tx)
  OBVIOUS
<1>3. /\ t \in TxType /\ Streams(t) /\ t.peer = tx.peer /\ t.app = tx.app
      /\ t.out = tx.out /\ t.sock = <<>>
  BY <1>1, <1>2, ReceivedStreams, ZenonT(60)
<1>4. CASE Len(t.buf) <= TxCap /\ tx' = Written(t)
  <2>1. Len(t.out) <= OutCap
    BY <1>1, <1>3, Zenon
  <2>2. /\ Written(t) \in TxType /\ Streams(Written(t))
        /\ Written(t).peer = t.peer /\ Written(t).app = t.app
        /\ Written(t).sock = t.sock
        /\ Len(Written(t).out) <= OutCap /\ Len(Written(t).buf) <= TxCap
    BY <1>3, <1>4, <2>1, WrittenStreams, ZenonT(60)
  <2>3. Len(Written(t).sock) <= SockCap
    <3>1. Len(<<>>) <= SockCap
      BY PicoConnAssumption
    <3> QED BY <1>3, <2>2, <3>1, Zenon
  <2>4. TxOK(Written(t))
    BY <2>2, <2>3, Zenon DEF TxOK
  <2>5. TxOK(tx') /\ Streams(tx') /\ tx'.peer = tx.peer /\ tx'.app = tx.app
    BY <1>3, <1>4, <2>2, <2>4, Zenon
  <2> QED BY <2>5, Zenon DEF TxOK, Streams, Numbered
<1>5. CASE tx' = tx
  BY <1>5, Zenon DEF TxOK, Streams, Numbered
<1> QED BY <1>2, <1>4, <1>5, Zenon DEF UnixData, Received

\* EV_WR of a new connection passes on what the application has already written.
LEMMA EstablishedTx ==
  ASSUME TxOK(tx), Streams(tx), Established
  PROVE  TxOK(tx)' /\ Streams(tx)' /\ tx'.peer = tx.peer /\ tx'.app = tx.app
<1>1. tx \in TxType /\ Len(tx.out) <= OutCap /\ Len(tx.buf) <= TxCap
      /\ Len(tx.sock) <= SockCap
  BY Zenon DEF TxOK
<1>2. /\ Written(tx) \in TxType /\ Streams(Written(tx))
      /\ Written(tx).peer = tx.peer /\ Written(tx).app = tx.app
      /\ Written(tx).sock = tx.sock
      /\ Len(Written(tx).out) <= OutCap /\ Len(Written(tx).buf) <= TxCap
  BY <1>1, WrittenStreams, ZenonT(60)
<1>3. tx' = Written(tx)
  BY Zenon DEF Established
<1>4. TxOK(Written(tx))
  BY <1>1, <1>2, Zenon DEF TxOK
<1>5. TxOK(tx') /\ Streams(tx') /\ tx'.peer = tx.peer /\ tx'.app = tx.app
  BY <1>2, <1>3, <1>4, Zenon
<1> QED BY <1>5, Zenon DEF TxOK, Streams, Numbered

\* pico_cb_tcp_write, with and without a Connection.
LEMMA TcpWriteTx ==
  ASSUME TxOK(tx), TxInv, conn \in BOOLEAN, NEW k \in 1 .. Len(tx.out), TcpWrite(k)
  PROVE  /\ TxOK(tx)' /\ TxInv' /\ tx'.app = tx.app
         /\ \E a, b \in 0 .. tx.app :
              a <= b /\ tx.peer = Numbers(0, a) /\ tx'.peer = Numbers(0, b)
<1>1. tx \in TxType /\ Len(tx.out) <= OutCap /\ Len(tx.buf) <= TxCap
      /\ Len(tx.sock) <= SockCap /\ tx.app \in Nat
  BY TxFields, ZenonT(60) DEF TxOK
<1>2. PICK t : t = Acked(tx, k)
  OBVIOUS
<1>3. conn' = conn /\ tx' = IF conn THEN Written(t) ELSE t
  BY <1>2, Zenon DEF TcpWrite, Acked
<1>4. CASE conn
  <2>1. Streams(tx)
    BY <1>4, Zenon DEF TxInv
  <2>2. PICK a, h, f \in 0 .. tx.app : Numbered(tx, a, h, f)
    BY <2>1, Zenon DEF Streams
  <2>3. a \in Nat /\ h \in Nat /\ a <= h /\ h <= f /\ f <= tx.app
    BY <1>1, <2>2, Lengths, ZenonT(60)
  <2>4. /\ t \in TxType /\ t.app = tx.app /\ t.sock = tx.sock /\ t.buf = tx.buf
        /\ a + k \in Nat /\ a <= a + k /\ a + k <= h
        /\ t.peer = Numbers(0, a + k) /\ t.out = Numbers(a + k, h)
        /\ Len(t.out) <= Len(tx.out)
    <3>1. tx.peer = Numbers(0, a) /\ tx.out = Numbers(a, h)
      BY <2>2, Zenon DEF Numbered
    <3> QED BY <1>1, <1>2, <2>3, <3>1, AckedFields, Zenon
  <2>5. a + k \in 0 .. tx.app
    BY <1>1, <2>2, <2>3, <2>4
  <2>6. Numbered(t, a + k, h, f)
    BY <2>2, <2>4, Zenon DEF Numbered
  <2>7. Streams(t)
    BY <2>4, <2>5, <2>6, Zenon DEF Streams
  <2>8. Len(t.out) <= OutCap
    <3>1. Len(t.out) \in Nat /\ Len(tx.out) \in Nat
      BY <1>1, <2>4, TxFields, ZenonT(60)
    <3> QED BY <1>1, <2>4, <3>1, PicoConnAssumption
  <2>9. /\ Written(t) \in TxType /\ Streams(Written(t))
        /\ Written(t).peer = t.peer /\ Written(t).app = t.app
        /\ Written(t).sock = t.sock
        /\ Len(Written(t).out) <= OutCap /\ Len(Written(t).buf) <= TxCap
    <3>1. Len(t.buf) <= TxCap
      BY <1>1, <2>4, Zenon
    <3> QED BY <2>4, <2>7, <2>8, <3>1, WrittenStreams, ZenonT(60)
  <2>10. TxOK(tx') /\ Streams(tx') /\ tx'.peer = Numbers(0, a + k) /\ tx'.app = tx.app
    BY <1>1, <1>3, <1>4, <2>4, <2>9, Zenon DEF TxOK
  <2>11. TxOK(tx)' /\ TxInv'
    BY <1>3, <1>4, <2>10, Zenon DEF TxOK, TxInv, Streams, Numbered
  <2>12. tx.peer = Numbers(0, a)
    BY <2>2, Zenon DEF Numbered
  <2> QED BY <2>2, <2>4, <2>5, <2>10, <2>11, <2>12, Zenon
<1>5. CASE ~conn
  <2>1. tx.buf = <<>>
    BY <1>5, Zenon DEF TxInv, Severed
  <2>2. PICK a, h \in 0 .. tx.app :
          a <= h /\ tx.peer = Numbers(0, a) /\ tx.out = Numbers(a, h)
    BY <1>5, Zenon DEF TxInv, Severed
  <2>3. a \in Nat /\ h \in Nat
    BY <1>1, <2>2
  <2>4. /\ t \in TxType /\ t.app = tx.app /\ t.sock = tx.sock /\ t.buf = tx.buf
        /\ a + k \in Nat /\ a <= a + k /\ a + k <= h
        /\ t.peer = Numbers(0, a + k) /\ t.out = Numbers(a + k, h)
        /\ Len(t.out) <= Len(tx.out)
    BY <1>1, <1>2, <2>2, <2>3, AckedFields, Zenon
  <2>5. a + k \in 0 .. tx.app
    BY <1>1, <2>2, <2>3, <2>4
  <2>6. Len(t.out) <= OutCap
    <3>1. Len(t.out) \in Nat /\ Len(tx.out) \in Nat
      BY <1>1, <2>4, TxFields, ZenonT(60)
    <3> QED BY <1>1, <2>4, <3>1, PicoConnAssumption
  <2>7. tx' = t
    BY <1>3, <1>5, Zenon
  <2>8. TxOK(t) /\ Severed(t)
    BY <1>1, <2>1, <2>2, <2>4, <2>5, <2>6, Zenon DEF TxOK, Severed
  <2>9. TxOK(tx)' /\ TxInv'
    BY <1>3, <1>5, <2>7, <2>8, Zenon DEF TxOK, TxInv, Severed
  <2> QED BY <2>2, <2>4, <2>5, <2>7, <2>9, Zenon
<1> QED BY <1>4, <1>5, Zenon

\* The application writes into its socket.
LEMMA AppWriteTx ==
  ASSUME TxOK(tx), Streams(tx), NEW k \in 1 .. SockCap, AppWrite(k)
  PROVE  TxOK(tx)' /\ Streams(tx)' /\ tx'.peer = tx.peer /\ tx'.app = tx.app + k
<1>1. /\ tx \in TxType /\ Len(tx.buf) <= TxCap /\ Len(tx.out) <= OutCap
      /\ tx.app \in Nat /\ tx.sock \in Seq(Nat)
  BY TxFields, ZenonT(60) DEF TxOK
<1>2. PICK a, h, f \in 0 .. tx.app : Numbered(tx, a, h, f)
  BY Zenon DEF Streams
<1>3. /\ a \in Nat /\ h \in Nat /\ f \in Nat /\ a <= h /\ h <= f /\ f <= tx.app
      /\ Len(tx.sock) = tx.app - f
  BY <1>1, <1>2, Lengths, ZenonT(60)
<1>4. /\ tx.app + k \in Nat /\ tx.app <= tx.app + k /\ f <= tx.app + k
      /\ a \in 0 .. tx.app + k /\ h \in 0 .. tx.app + k /\ f \in 0 .. tx.app + k
  BY <1>1, <1>3, PicoConnAssumption, SMTT(60)
<1>5. tx.sock \o Numbers(tx.app, tx.app + k) = Numbers(f, tx.app + k)
  <2>1. Numbers(f, tx.app) \o Numbers(tx.app, tx.app + k) = Numbers(f, tx.app + k)
    BY <1>1, <1>3, <1>4, Joined, ZenonT(60)
  <2> QED BY <1>2, <2>1, Zenon DEF Numbered
<1>6. Numbers(f, tx.app + k) \in Seq(Nat)
  BY <1>3, <1>4, NumbersType, ZenonT(60)
<1>7. Len(Numbers(f, tx.app + k)) = Len(tx.sock) + k
  <2>1. Len(Numbers(f, tx.app + k)) = (tx.app + k) - f
    BY <1>3, <1>4, NumbersType, ZenonT(60)
  <2>2. (tx.app + k) - f = (tx.app - f) + k
    BY <1>1, <1>3
  <2> QED BY <1>3, <2>1, <2>2, Zenon
<1>8. /\ tx' = [tx EXCEPT !.app = tx.app + k, !.sock = Numbers(f, tx.app + k)]
      /\ Len(tx.sock) + k <= SockCap
  BY <1>5, Zenon DEF AppWrite
<1>9. /\ tx' \in TxType /\ tx'.app = tx.app + k /\ tx'.sock = Numbers(f, tx.app + k)
      /\ tx'.buf = tx.buf /\ tx'.out = tx.out /\ tx'.peer = tx.peer
  BY <1>1, <1>4, <1>6, <1>8 DEF TxType
<1>10. TxOK(tx')
  BY <1>1, <1>7, <1>8, <1>9, Zenon DEF TxOK
<1>11. Numbered(tx', a, h, f)
  BY <1>2, <1>3, <1>4, <1>9, Zenon DEF Numbered
<1>12. Streams(tx')
  BY <1>4, <1>9, <1>11, Zenon DEF Streams
<1> QED BY <1>9, <1>10, <1>12, Zenon DEF TxOK, Streams, Numbered

\* EV_CLOSE deletes the Connection with what was in txbuf.
LEMMA EvCloseTx ==
  ASSUME TxOK(tx), Streams(tx), EvClose
  PROVE  TxOK(tx)' /\ TxInv' /\ tx'.peer = tx.peer /\ tx'.app = tx.app
<1>1. tx \in TxType /\ Len(tx.out) <= OutCap /\ Len(tx.sock) <= SockCap
  BY Zenon DEF TxOK
<1>2. PICK a, h, f \in 0 .. tx.app : Numbered(tx, a, h, f)
  BY Zenon DEF Streams
<1>3. tx' = [tx EXCEPT !.buf = <<>>] /\ conn' = FALSE
  BY Zenon DEF EvClose
<1>4. /\ tx' \in TxType /\ tx'.app = tx.app /\ tx'.sock = tx.sock
      /\ tx'.buf = <<>> /\ tx'.out = tx.out /\ tx'.peer = tx.peer
  <2>1. <<>> \in Seq(Nat)
    OBVIOUS
  <2> QED BY <1>1, <1>3, <2>1 DEF TxType
<1>5. Len(<<>>) <= TxCap
  BY PicoConnAssumption
<1>6. TxOK(tx')
  BY <1>1, <1>4, <1>5, Zenon DEF TxOK
<1>7. Severed(tx')
  BY <1>2, <1>4, Zenon DEF Severed, Numbered
<1> QED BY <1>3, <1>4, <1>6, <1>7, Zenon DEF TxOK, TxInv, Severed

\* Every step keeps the application's stream.
LEMMA TxStep ==
  ASSUME TypeOK, Control, TxInv, [Next]_vars
  PROVE  TxOK(tx)' /\ TxInv'
<1>1. TxOK(tx) /\ conn \in BOOLEAN
  BY Zenon DEF TypeOK, TxOK, TxType
<1>2. conn => Streams(tx)
  BY Zenon DEF TxInv
<1>3. CASE Readable
  <2>1. conn' = conn /\ conn /\ (UnixData \/ tx' = tx)
    BY <1>3, Zenon DEF Readable, Control
  <2>2. CASE UnixData
    BY <1>1, <1>2, <2>1, <2>2, UnixDataTx, ZenonT(60) DEF TxInv
  <2>3. CASE tx' = tx
    BY <1>1, <1>2, <2>1, <2>3, ZenonT(60) DEF TxInv, TxOK, Streams, Numbered
  <2> QED BY <2>1, <2>2, <2>3, Zenon
<1>4. CASE Established
  <2>1. conn' = conn /\ conn
    BY <1>4 DEF Established, Control
  <2> QED BY <1>1, <1>2, <1>4, <2>1, EstablishedTx, ZenonT(60) DEF TxInv
<1>5. CASE Acknowledged
  BY <1>1, <1>5, TcpWriteTx, ZenonT(60) DEF Acknowledged
<1>6. CASE EvClose
  <2>1. conn
    BY <1>6 DEF EvClose, Control
  <2> QED BY <1>1, <1>2, <1>6, <2>1, EvCloseTx, ZenonT(60)
<1>7. CASE \E k \in 1 .. SockCap : AppWrite(k)
  <2>1. conn' = conn /\ conn
    BY <1>7, Zenon DEF AppWrite, Control
  <2> QED BY <1>1, <1>2, <1>7, <2>1, AppWriteTx, ZenonT(60) DEF TxInv
<1>8. ASSUME tx' = tx /\ conn' = conn PROVE TxOK(tx)' /\ TxInv'
  BY <1>1, <1>8, Zenon DEF TxInv, TxOK, Streams, Severed, Numbered
<1>9. ASSUME Poll \/ Writable \/ Unblock \/ TickDone \/ AppClose
             \/ (\E k \in 1 .. MaxSeg : TcpRead(k)) \/ Reads \/ UNCHANGED vars
      PROVE  tx' = tx /\ conn' = conn
  BY <1>9, Zenon DEF Poll, Writable, Unblock, TickDone, AppClose, TcpRead, Reads,
     AppRead, vars
<1> QED BY <1>3, <1>4, <1>5, <1>6, <1>7, <1>8, <1>9, Zenon DEF Next

-----------------------------------------------------------------------------
(* From the peer to the application                                        *)

\* The fields of the record of the other direction.
LEMMA RxFields ==
  ASSUME NEW r \in RxType
  PROVE  /\ r.peer \in Nat /\ r.buf \in Seq(Nat) /\ r.sock \in Seq(Nat)
         /\ r.app \in Seq(Nat)
         /\ Len(r.buf) \in Nat /\ Len(r.sock) \in Nat /\ Len(r.app) \in Nat
<1>1. r.peer \in Nat /\ r.buf \in Seq(Nat) /\ r.sock \in Seq(Nat) /\ r.app \in Seq(Nat)
  BY DEF RxType
<1> QED BY <1>1

\* What memcpy leaves of rxbuf, torn or not, are as many bytes as were left.
LEMMA SmearedType ==
  ASSUME rx \in RxType, NEW n \in 1 .. Len(rx.buf)
  PROVE  Smeared(n) \in Seq(Nat) /\ Len(Smeared(n)) = Len(rx.buf) - n
<1>1. rx.buf \in Seq(Nat) /\ Len(rx.buf) \in Nat
  BY RxFields, Zenon
<1>2. PICK len \in Nat : len = Len(rx.buf)
  BY <1>1, Zenon
<1>3. PICK b \in [1 .. len -> Nat] : b = rx.buf
  BY <1>1, <1>2
<1>4. n \in 1 .. len
  BY <1>2, Zenon
<1>5. ASSUME NEW i \in 1 .. len - n PROVE b[i + n * ((len - i) \div n)] \in Nat
  <2>1. PICK x \in Nat : x = len - i
    BY <1>4
  <2>2. PICK q \in Int : q = x \div n
    BY <1>4
  <2>3. n * q <= x /\ 0 <= n * q
    BY <1>4, <2>2
  <2>4. PICK p \in Int : p = n * q
    BY <1>4
  <2>5. i + p \in 1 .. len
    BY <1>4, <2>1, <2>3, <2>4
  <2> QED BY <2>1, <2>2, <2>4, <2>5
<1>6. len - n \in Nat
  BY <1>4
<1>7. Smeared(n) = [i \in 1 .. len - n |-> b[i + n * ((len - i) \div n)]]
  BY <1>2, <1>3, Zenon DEF Smeared
<1>8. Smeared(n) \in [1 .. len - n -> Nat]
  BY <1>5, <1>7, Zenon
<1>9. Smeared(n) \in Seq(Nat) /\ Len(Smeared(n)) = len - n
  <2>1. PICK l \in Nat : l = len - n
    BY <1>6, Zenon
  <2>2. PICK t \in [1 .. l -> Nat] : t = Smeared(n)
    BY <1>8, <2>1, Zenon
  <2>3. t \in Seq(Nat) /\ Len(t) = l
    OBVIOUS
  <2> QED BY <2>1, <2>2, <2>3, Zenon
<1> QED BY <1>2, <1>9, Zenon

\* The end of pico_handleRead: n bytes leave rxbuf, and the socket asks to be
\* notified again exactly when some are left.
LEMMA FinishReadRx ==
  ASSUME rx \in RxType, torn \in BOOLEAN, NEW n \in 1 .. Len(rx.buf),
         NEW sock \in Seq(Nat), FinishRead(n, sock)
  PROVE  /\ rx' \in RxType /\ rx'.peer = rx.peer /\ rx'.app = rx.app /\ rx'.sock = sock
         /\ Len(rx'.buf) = Len(rx.buf) - n
         /\ torn' \in BOOLEAN /\ (torn => torn')
         /\ (~torn' => rx'.buf = Drop(rx.buf, n))
         /\ notify' \in BOOLEAN /\ (rx'.buf # <<>> => notify')
<1>1. rx.buf \in Seq(Nat) /\ Len(rx.buf) \in Nat
  BY RxFields, Zenon
<1>2. n \in 0 .. Len(rx.buf)
  BY <1>1
<1>3. Drop(rx.buf, n) \in Seq(Nat) /\ Len(Drop(rx.buf, n)) = Len(rx.buf) - n
  BY <1>1, <1>2, Cut, Zenon
<1>4. Smeared(n) \in Seq(Nat) /\ Len(Smeared(n)) = Len(rx.buf) - n
  BY SmearedType, Zenon
<1>5. PICK b \in Seq(Nat) :
        /\ Len(b) = Len(rx.buf) - n
        /\ rx' = [rx EXCEPT !.buf = b, !.sock = sock]
        /\ \/ b = Drop(rx.buf, n) /\ torn' = torn
           \/ torn' = TRUE
  BY <1>3, <1>4, Zenon DEF FinishRead
<1>6. /\ rx' \in RxType /\ rx'.peer = rx.peer /\ rx'.app = rx.app /\ rx'.sock = sock
      /\ rx'.buf = b
  BY <1>5 DEF RxType
<1>7. torn' \in BOOLEAN /\ (torn => torn') /\ (~torn' => rx'.buf = Drop(rx.buf, n))
  BY <1>5, <1>6, Zenon
<1>8. notify' \in BOOLEAN /\ (rx'.buf # <<>> => notify')
  <2>1. notify' = (Len(rx.buf) > n)
    BY Zenon DEF FinishRead
  <2>2. b # <<>> => Len(b) \in Nat \ {0}
    BY EmptySeq, Zenon
  <2>3. b # <<>> => Len(rx.buf) > n
    BY <1>1, <1>5, <2>2
  <2>4. (Len(rx.buf) > n) \in BOOLEAN
    BY <1>1
  <2> QED BY <1>6, <2>1, <2>3, <2>4, Zenon
<1> QED BY <1>5, <1>6, <1>7, <1>8, Zenon

\* n more bytes move from rxbuf to the socket.
Carry(n) ==
  /\ Len(rx.sock) + n <= SockCap
  /\ rx' \in RxType /\ rx'.peer = rx.peer /\ rx'.app = rx.app
  /\ rx'.sock = rx.sock \o Take(Drop(rx.buf, sending), n)
  /\ sending' \in 0 .. Len(rx'.buf) /\ Len(rx'.buf) <= Len(rx.buf)
  /\ Len(rx'.buf) - sending' = Len(rx.buf) - (sending + n)
  /\ torn => torn'
  /\ ~torn' => Drop(rx'.buf, sending') = Drop(rx.buf, sending + n)
  /\ Alive /\ UNCHANGED <<kind, tcp, conn, phy, appOpen>>

\* Doing so keeps the peer's stream.
LEMMA Carried ==
  ASSUME RxInv, NEW n \in 0 .. Len(rx.buf) - sending, Carry(n)
  PROVE  RxInv'
<1>1. /\ rx \in RxType /\ sending \in 0 .. Len(rx.buf) /\ Len(rx.buf) < RxCap
      /\ RxBound /\ RxIntact
  BY Zenon DEF RxInv, RxOK
<1>2. /\ rx.peer \in Nat /\ rx.buf \in Seq(Nat) /\ rx.sock \in Seq(Nat) /\ rx.app \in Seq(Nat)
      /\ Len(rx.buf) \in Nat /\ Len(rx.sock) \in Nat /\ Len(rx.app) \in Nat
  BY <1>1, RxFields, Zenon
<1>3. /\ rx.app \o (rx.sock \o Take(Drop(rx.buf, sending), n)) \o Drop(rx.buf, sending + n)
           = rx.app \o rx.sock \o Drop(rx.buf, sending)
      /\ Len(rx.sock \o Take(Drop(rx.buf, sending), n)) = Len(rx.sock) + n
  <2>1. Moved(rx.app, rx.sock, rx.buf, sending, n)
    BY <1>1, <1>2, SendMore, Zenon
  <2> QED BY <2>1, Zenon DEF Moved
<1>4. Len(rx'.sock) = Len(rx.sock) + n /\ Len(rx'.sock) <= SockCap
  BY <1>3, Zenon DEF Carry
<1>5. Greeting' = Greeting
  BY Zenon DEF Greeting, Carry
<1>6. /\ rx' \in RxType /\ Len(rx'.buf) \in Nat /\ Len(rx'.buf) <= Len(rx.buf)
      /\ sending' \in 0 .. Len(rx'.buf)
      /\ Len(rx'.buf) - sending' = Len(rx.buf) - (sending + n)
  BY RxFields, Zenon DEF Carry
<1>7. Len(rx'.buf) < RxCap
  BY <1>1, <1>2, <1>6, PicoConnAssumption
<1>8. RxBound'
  <2>1. PICK g \in Nat : g = Len(Greeting)
    BY DEF Greeting
  <2>2. rx'.peer = rx.peer /\ rx'.app = rx.app
    BY Zenon DEF Carry
  <2>3. Len(rx.app) + Len(rx.sock) + Len(rx.buf) - sending <= rx.peer + g
    BY <1>1, <2>1, Zenon DEF RxBound
  <2>4. Len(rx.app) + Len(rx'.sock) + Len(rx'.buf) - sending' <= rx.peer + g
    <3>1. /\ sending \in Int /\ n \in Int /\ sending' \in Int
          /\ sending + n = Len(rx.buf) - (Len(rx'.buf) - sending')
      BY <1>1, <1>2, <1>6
    <3>2. Len(rx'.buf) - sending' = (Len(rx.buf) - sending) - n
      BY <1>2, <1>6, <3>1
    <3>3. Len(rx.app) + (Len(rx.sock) + n) + ((Len(rx.buf) - sending) - n) <= rx.peer + g
      <4>1. PICK a, s, b, c \in Int : a = Len(rx.app) /\ s = Len(rx.sock)
                                      /\ b = Len(rx.buf) /\ c = rx.peer + g
        BY <1>2
      <4>2. PICK m \in Int : m = sending
        BY <3>1
      <4>3. a + s + b - m <= c
        BY <2>3, <4>1, <4>2, Zenon
      <4>4. a + (s + n) + ((b - m) - n) <= c
        BY <3>1, <4>3
      <4> QED BY <4>1, <4>2, <4>4, Zenon
    <3> QED BY <1>4, <3>2, <3>3, Zenon
  <2> QED BY <1>5, <2>1, <2>2, <2>4, Zenon DEF RxBound
<1>9. RxIntact'
  <2> SUFFICES ASSUME (Alive /\ conn /\ phy /\ appOpen /\ ~torn)'
               PROVE  rx'.app \o rx'.sock \o Drop(rx'.buf, sending')
                        = Greeting \o Numbers(0, rx.peer)
    BY <1>5, Zenon DEF RxIntact, Carry
  <2>1. rx.app \o rx.sock \o Drop(rx.buf, sending) = Greeting \o Numbers(0, rx.peer)
    BY <1>1, Zenon DEF RxIntact, Carry
  <2> QED BY <1>3, <2>1, Zenon DEF Carry
<1> QED BY <1>4, <1>6, <1>7, <1>8, <1>9, Zenon DEF RxInv, RxOK

\* What send passes on fits into the socket, and is something if there is room.
LEMMA SockRoom ==
  ASSUME NEW b \in Nat \ {0}, NEW q \in Nat
  PROVE  /\ q <= SockCap => /\ Lesser(b, SockCap - q) \in 0 .. b
                            /\ q + Lesser(b, SockCap - q) <= SockCap
         /\ q < SockCap => /\ Lesser(b, SockCap - q) \in 1 .. b
                           /\ q + Lesser(b, SockCap - q) <= SockCap
BY PicoConnAssumption DEF Lesser

\* pico_handleRead keeps the peer's stream and asks to be called again.
LEMMA WritableRx ==
  ASSUME TypeOK, Control, RxInv, RxNotified, Writable
  PROVE  /\ RxInv' /\ RxNotified' /\ torn' \in BOOLEAN /\ notify' \in BOOLEAN
         /\ Held'
<1>1. /\ svc = "run" /\ "w" \in ready /\ torn \in BOOLEAN /\ notify \in BOOLEAN
      /\ UNCHANGED <<kind, tcp, conn, phy, appOpen>>
  BY Zenon DEF Writable, TypeOK
<1>2. Alive /\ sending = 0 /\ (~HungUp => Len(rx.sock) < SockCap)
  BY <1>1 DEF Control, Alive
<1>3. rx \in RxType /\ Len(rx.sock) <= SockCap
  BY Zenon DEF RxInv, RxOK
<1>4. /\ rx.buf \in Seq(Nat) /\ rx.sock \in Seq(Nat)
      /\ Len(rx.buf) \in Nat /\ Len(rx.sock) \in Nat
  BY <1>3, RxFields, Zenon
<1>5. CASE rx' = rx /\ torn' = torn /\ notify' = notify /\ sending' = sending
           /\ svc' \in {"run", "deadlock"}
  <2>1. Held'
    BY <1>5 DEF Held
  <2> QED BY <1>1, <1>2, <1>5, <2>1, Zenon
      DEF RxInv, RxOK, RxBound, RxIntact, RxNotified, Greeting, Alive
<1>6. CASE rx.buf # <<>> /\ ~HungUp
  <2>1. PICK n : n = Lesser(Len(rx.buf), SockCap - Len(rx.sock))
    OBVIOUS
  <2>2. Len(rx.buf) \in Nat \ {0}
    BY <1>4, <1>6, EmptySeq, Zenon
  <2>3. n \in 1 .. Len(rx.buf) /\ Len(rx.sock) + n <= SockCap
    <3>1. Len(rx.sock) < SockCap
      BY <1>2, <1>6, Zenon
    <3> QED BY <1>4, <2>1, <2>2, <3>1, SockRoom, Zenon
  <2>4. n \in 0 .. Len(rx.buf) - sending /\ sending + n = n /\ n \in 0 .. Len(rx.buf)
    BY <1>2, <1>4, <2>3
  <2>5. Drop(rx.buf, sending) = rx.buf
    BY <1>2, <1>4, DropNone, Zenon
  <2>6. PICK sock : sock = rx.sock \o Take(rx.buf, n)
    OBVIOUS
  <2>7. sock \in Seq(Nat)
    <3>1. Take(rx.buf, n) \in Seq(Nat)
      BY <1>4, <2>4, Cut, Zenon
    <3> QED BY <1>4, <2>6, <3>1, ConcatProperties, Zenon
  <2>8. CASE FinishRead(n, sock) /\ svc' = svc /\ sending' = sending
    <3>1. /\ rx' \in RxType /\ rx'.peer = rx.peer /\ rx'.app = rx.app /\ rx'.sock = sock
          /\ Len(rx'.buf) = Len(rx.buf) - n
          /\ torn' \in BOOLEAN /\ (torn => torn')
          /\ (~torn' => rx'.buf = Drop(rx.buf, n))
          /\ notify' \in BOOLEAN /\ (rx'.buf # <<>> => notify')
      BY <1>1, <1>3, <2>3, <2>7, <2>8, FinishReadRx, Zenon
    <3>2. /\ sending' \in 0 .. Len(rx'.buf) /\ Len(rx'.buf) <= Len(rx.buf)
          /\ Len(rx'.buf) - sending' = Len(rx.buf) - (sending + n)
      BY <1>2, <1>4, <2>3, <2>8, <3>1
    <3>3. ~torn' => Drop(rx'.buf, sending') = Drop(rx.buf, sending + n)
      <4>1. rx'.buf \in Seq(Nat)
        BY <3>1, RxFields, Zenon
      <4>2. Drop(rx'.buf, 0) = rx'.buf
        BY <4>1, DropNone, Zenon
      <4> QED BY <1>2, <2>4, <2>8, <3>1, <4>2, Zenon
    <3>4. Carry(n)
      BY <1>1, <1>2, <2>3, <2>5, <2>6, <3>1, <3>2, <3>3, Zenon DEF Carry
    <3>5. RxInv'
      BY <2>4, <3>4, Carried, Zenon
    <3>6. Held'
      BY <1>1, <2>8 DEF Held
    <3> QED BY <3>1, <3>5, <3>6, Zenon DEF RxNotified
  <2>9. CASE /\ svc' = "blocked" /\ sending' = n /\ rx' = [rx EXCEPT !.sock = sock]
             /\ notify' = notify /\ torn' = torn /\ n < Len(rx.buf)
    <3>1. /\ rx' \in RxType /\ rx'.peer = rx.peer /\ rx'.app = rx.app /\ rx'.sock = sock
          /\ rx'.buf = rx.buf
      BY <1>3, <2>7, <2>9 DEF RxType
    <3>2. /\ sending' \in 0 .. Len(rx'.buf) /\ Len(rx'.buf) <= Len(rx.buf)
          /\ Len(rx'.buf) - sending' = Len(rx.buf) - (sending + n)
          /\ sending' > 0 /\ sending' < Len(rx'.buf)
      BY <1>4, <2>3, <2>4, <2>9, <3>1
    <3>3. Carry(n)
      BY <1>1, <1>2, <2>3, <2>4, <2>5, <2>6, <2>9, <3>1, <3>2, Zenon DEF Carry
    <3>4. RxInv'
      BY <2>4, <3>3, Carried, Zenon
    <3> QED BY <1>1, <1>2, <1>6, <2>9, <3>1, <3>2, <3>4, Zenon DEF RxNotified, Held
  <2> QED BY <1>5, <1>6, <2>1, <2>6, <2>8, <2>9, Zenon DEF Writable
<1> QED BY <1>5, <1>6, Zenon DEF Writable

\* So does the blocking send, whether it ends or not.
LEMMA UnblockRx ==
  ASSUME TypeOK, Control, RxInv, RxNotified, Unblock
  PROVE  /\ RxInv' /\ RxNotified' /\ torn' \in BOOLEAN /\ notify' \in BOOLEAN
         /\ Held'
<1>1. /\ svc = "blocked" /\ torn \in BOOLEAN /\ notify \in BOOLEAN
      /\ UNCHANGED <<kind, tcp, conn, phy, appOpen>>
  BY Zenon DEF Unblock, TypeOK
<1>2. Alive
  BY <1>1 DEF Alive
<1>3. sending > 0
  BY <1>1, Zenon DEF Control, Held
<1>4. rx \in RxType /\ Len(rx.sock) <= SockCap /\ sending \in 0 .. Len(rx.buf) /\ RxBound
      /\ Len(rx.buf) < RxCap
  BY Zenon DEF RxInv, RxOK
<1>5. /\ rx.buf \in Seq(Nat) /\ rx.sock \in Seq(Nat) /\ rx.app \in Seq(Nat) /\ rx.peer \in Nat
      /\ Len(rx.buf) \in Nat /\ Len(rx.sock) \in Nat /\ Len(rx.app) \in Nat
  BY <1>4, RxFields, Zenon
<1>6. sending \in 1 .. Len(rx.buf) /\ Len(rx.buf) - sending \in Nat
  BY <1>3, <1>4, <1>5
<1>7. PICK n : n = Lesser(Len(rx.buf) - sending, SockCap - Len(rx.sock))
  OBVIOUS
<1>8. n \in 0 .. Len(rx.buf) - sending /\ Len(rx.sock) + n <= SockCap
  <2>1. PICK b, q \in Nat : b = Len(rx.buf) - sending /\ q = Len(rx.sock)
    BY <1>5, <1>6, Zenon
  <2>2. q <= SockCap /\ n = Lesser(b, SockCap - q)
    BY <1>4, <1>7, <2>1, Zenon
  <2>3. n \in 0 .. b /\ q + n <= SockCap
    BY <2>2, PicoConnAssumption DEF Lesser
  <2> QED BY <2>1, <2>3, Zenon
<1>9. PICK sock : sock = rx.sock \o Take(Drop(rx.buf, sending), n)
  OBVIOUS
<1>10. sock \in Seq(Nat)
  <2>1. Moved(rx.app, rx.sock, rx.buf, sending, n)
    BY <1>4, <1>5, <1>8, SendMore, Zenon
  <2> QED BY <1>9, <2>1, Zenon DEF Moved
<1>11. CASE /\ sending' = sending + n /\ sending + n < Len(rx.buf) /\ n > 0
            /\ rx' = [rx EXCEPT !.sock = sock]
            /\ svc' = svc /\ notify' = notify /\ torn' = torn
  <2>1. /\ rx' \in RxType /\ rx'.peer = rx.peer /\ rx'.app = rx.app /\ rx'.sock = sock
        /\ rx'.buf = rx.buf
    BY <1>4, <1>10, <1>11 DEF RxType
  <2>2. /\ sending + n \in 0 .. Len(rx.buf) /\ Len(rx.buf) <= Len(rx.buf) /\ sending + n > 0
    BY <1>5, <1>6, <1>8, <1>11, SMTT(60)
  <2>3. Carry(n)
    BY <1>1, <1>2, <1>8, <1>9, <1>11, <2>1, <2>2, Zenon DEF Carry
  <2>4. RxInv'
    BY <1>8, <2>3, Carried, Zenon
  <2> QED BY <1>1, <1>2, <1>11, <2>1, <2>2, <2>4, Zenon DEF RxNotified, Alive, Held
<1>12. CASE /\ sending + n = Len(rx.buf) /\ FinishRead(Len(rx.buf), sock)
            /\ svc' = "run" /\ sending' = 0
  <2>1. Len(rx.buf) \in 1 .. Len(rx.buf) /\ Len(rx.buf) - Len(rx.buf) = 0
        /\ Len(rx.buf) \in 0 .. Len(rx.buf)
    BY <1>5, <1>6
  <2>2. /\ rx' \in RxType /\ rx'.peer = rx.peer /\ rx'.app = rx.app /\ rx'.sock = sock
        /\ Len(rx'.buf) = 0
        /\ torn' \in BOOLEAN /\ (torn => torn')
        /\ (~torn' => rx'.buf = Drop(rx.buf, Len(rx.buf)))
        /\ notify' \in BOOLEAN /\ (rx'.buf # <<>> => notify')
    BY <1>1, <1>4, <1>10, <1>12, <2>1, FinishReadRx, Zenon
  <2>3. 0 \in 0 .. 0 /\ 0 <= Len(rx.buf) /\ 0 - 0 = Len(rx.buf) - Len(rx.buf)
    BY <1>5
  <2>4. ~torn' => Drop(rx'.buf, sending') = Drop(rx.buf, sending + n)
    <3>1. rx'.buf \in Seq(Nat)
      BY <2>2, RxFields, Zenon
    <3>2. Drop(rx'.buf, 0) = rx'.buf
      BY <3>1, DropNone, Zenon
    <3> QED BY <1>12, <2>2, <3>2, Zenon
  <2>5. Carry(n)
    BY <1>1, <1>2, <1>8, <1>9, <1>12, <2>2, <2>3, <2>4, Zenon DEF Carry
  <2>6. RxInv'
    BY <1>8, <2>5, Carried, Zenon
  <2>7. Held'
    BY <1>12 DEF Held
  <2> QED BY <2>2, <2>6, <2>7, Zenon DEF RxNotified
<1> QED BY <1>7, <1>9, <1>11, <1>12, Zenon DEF Unblock

\* No byte and one byte.
LEMMA OneByte ==
  /\ <<>> \in Seq(Nat) /\ Len(<<>>) = 0
  /\ <<0>> \in Seq(Nat) /\ Len(<<0>>) = 1 /\ Append(<<>>, 0) = <<0>>
  /\ 0 < RxCap /\ 0 <= SockCap /\ 1 <= SockCap /\ 0 \in 0 .. 0 /\ 0 \in Nat
  /\ 0 + 0 + 0 - 0 <= 0 + 1 /\ 0 + 1 + 0 - 0 <= 0 + 1
  /\ <<>> \o <<0>> = <<0>>
BY PicoConnAssumption

\* The byte that comes with the socket pair.
LEMMA GreetingType == Greeting \in Seq(Nat) /\ Len(Greeting) \in Nat
<1>1. <<0>> \in Seq(Nat) /\ <<>> \in Seq(Nat)
  OBVIOUS
<1>2. Greeting \in Seq(Nat)
  BY <1>1, Zenon DEF Greeting
<1> QED BY <1>2, LenProperties, Zenon

\* The peer sends k more bytes, of which all or none arrive.
LEMMA MoreSent ==
  ASSUME NEW a \in Nat, NEW s \in Nat, NEW b \in Nat, NEW c \in Nat, NEW g \in Nat,
         NEW k \in Nat, a + s + b - 0 <= c + g
  PROVE  a + s + (b + k) - 0 <= (c + k) + g /\ a + s + b - 0 <= (c + k) + g
OBVIOUS

\* The socket or rxbuf is emptied.
LEMMA Fewer ==
  ASSUME NEW a \in Nat, NEW s \in Nat, NEW b \in Nat, NEW c \in Nat, NEW g \in Nat,
         NEW m \in 0 .. b, a + s + b - m <= c + g
  PROVE  a + 0 + b - m <= c + g /\ (m = 0 => a + s + 0 - 0 <= c + g)
OBVIOUS

\* What a full rxbuf says about the streams, and what later steps keep of it.
LEMMA RxFull ==
  ASSUME NEW a \in Nat, NEW s \in Nat, NEW b \in Nat, NEW c \in Nat, NEW g \in Nat,
         NEW k \in Nat, NEW l \in Int, l <= k, a + s + b - 0 <= c + g, b + l >= RxCap
  PROVE  (c + k) + g - a - s >= RxCap
BY PicoConnAssumption
\* ... when the application reads or closes,
LEMMA RxStaysFull ==
  ASSUME NEW a \in Nat, NEW s \in Nat, NEW c \in Nat, NEW g \in Nat
  PROVE  /\ c + g - a - s >= RxCap => c + g - a - 0 >= RxCap
         /\ \A x, y \in Nat : x + y = a + s /\ c + g - a - s >= RxCap => c + g - x - y >= RxCap
BY PicoConnAssumption
\* ... and writes.
LEMMA TxStaysFull ==
  ASSUME NEW a \in Nat, NEW c \in Nat, NEW o \in Nat, NEW k \in Nat, a - c - o > TxCap
  PROVE  (a + k) - c - o > TxCap
BY PicoConnAssumption

\* k bytes are read.
LEMMA ReadSplit ==
  ASSUME NEW a \in Nat, NEW s \in Nat, NEW k \in 0 .. s, s <= SockCap
  PROVE  s - k <= SockCap /\ (a + k) + (s - k) = a + s
BY PicoConnAssumption

\* When no read fills rxbuf, everything the peer has sent fits into it.
LEMMA ReadRoom ==
  ASSUME rx \in RxType, NEW k \in Nat \ {0}, FullAfter(k) = {}
  PROVE  Len(rx.buf) + k < RxCap
<1>1. PICK b \in Nat : b = Len(rx.buf)
  BY RxFields, Zenon
<1>2. k * MTU >= k
  BY PicoConnAssumption
<1>3. FillAfter(k, k) = b + k
  <2>1. PICK x \in Int : x = k * MTU
    BY PicoConnAssumption
  <2>2. Lesser(x, k) = k
    BY <1>2, <2>1 DEF Lesser
  <2> QED BY <1>1, <2>1, <2>2, Zenon DEF FillAfter
<1>4. k \in 1 .. k
  OBVIOUS
<1>5. ~(FillAfter(k, k) >= RxCap)
  BY <1>4, Zenon DEF FullAfter
<1> QED BY <1>1, <1>3, <1>5, PicoConnAssumption

\* pico_cb_tcp_read appends what the stack has to rxbuf.
LEMMA TcpReadRx ==
  ASSUME TypeOK, Control, RxInv, RxNotified, NEW k \in 1 .. MaxSeg, TcpRead(k)
  PROVE  RxInv' /\ RxNotified'
<1>1. /\ svc = "run" /\ sending' = sending /\ torn' = torn
      /\ UNCHANGED <<kind, tcp, conn, phy, appOpen>>
  BY Zenon DEF TcpRead, InTick
<1>2. Alive /\ sending = 0
  BY <1>1 DEF Control, Alive
<1>3. rx \in RxType /\ Len(rx.sock) <= SockCap /\ RxBound /\ RxIntact /\ Len(rx.buf) < RxCap
  BY Zenon DEF RxInv, RxOK
<1>4. /\ rx.buf \in Seq(Nat) /\ rx.sock \in Seq(Nat) /\ rx.app \in Seq(Nat) /\ rx.peer \in Nat
      /\ Len(rx.buf) \in Nat /\ Len(rx.sock) \in Nat /\ Len(rx.app) \in Nat
  BY <1>3, RxFields, Zenon
<1>5. k \in Nat \ {0} /\ rx.peer + k \in Nat /\ rx.peer <= rx.peer + k /\ 0 <= rx.peer
      /\ (rx.peer + k) - rx.peer = k /\ k \in Nat
  BY <1>4, PicoConnAssumption
<1>6. Greeting' = Greeting
  BY <1>1, Zenon DEF Greeting
<1>7. PICK g \in Nat : g = Len(Greeting)
  BY GreetingType, Zenon
<1>8. Len(rx.app) + Len(rx.sock) + Len(rx.buf) - 0 <= rx.peer + g
  BY <1>2, <1>3, <1>7, Zenon DEF RxBound
<1>9. CASE /\ FullAfter(k) = {} /\ notify' = phy
           /\ rx' = [rx EXCEPT !.peer = rx.peer + k,
                               !.buf = rx.buf \o Numbers(rx.peer, rx.peer + k)]
  <2>1. PICK m \in Seq(Nat) : m = Numbers(rx.peer, rx.peer + k) /\ Len(m) = k
    BY <1>4, <1>5, NumbersType, ZenonT(60)
  <2>2. PICK b \in Seq(Nat) : b = rx.buf \o m /\ Len(b) = Len(rx.buf) + k
    <3>1. rx.buf \o m \in Seq(Nat) /\ Len(rx.buf \o m) = Len(rx.buf) + Len(m)
      BY <1>4, ConcatProperties, Zenon
    <3> QED BY <2>1, <3>1, Zenon
  <2>3. /\ rx' \in RxType /\ rx'.peer = rx.peer + k /\ rx'.app = rx.app
        /\ rx'.sock = rx.sock /\ rx'.buf = b
    BY <1>3, <1>5, <1>9, <2>1, <2>2 DEF RxType
  <2>4. Len(b) < RxCap
    BY <1>3, <1>5, <1>9, <2>2, ReadRoom, Zenon
  <2>5. 0 \in 0 .. Len(b)
    BY <2>2
  <2>6. RxBound'
    <3>1. Len(rx.app) + Len(rx.sock) + (Len(rx.buf) + k) - 0 <= (rx.peer + k) + g
      BY <1>4, <1>5, <1>8, MoreSent, Zenon
    <3> QED BY <1>1, <1>2, <1>6, <1>7, <2>2, <2>3, <3>1, Zenon DEF RxBound
  <2>7. RxIntact'
    <3> SUFFICES ASSUME (Alive /\ conn /\ phy /\ appOpen /\ ~torn)'
                 PROVE  rx.app \o rx.sock \o b = Greeting \o Numbers(0, rx.peer + k)
      <4>1. Drop(b, 0) = b
        BY DropNone, Zenon
      <4> QED BY <1>1, <1>2, <1>6, <2>3, <4>1, Zenon DEF RxIntact
    <3>1. rx.app \o rx.sock \o rx.buf = Greeting \o Numbers(0, rx.peer)
      <4>1. Drop(rx.buf, 0) = rx.buf
        BY <1>4, DropNone, Zenon
      <4> QED BY <1>1, <1>2, <1>3, <4>1, Zenon DEF RxIntact
    <3>2. PICK w \in Seq(Nat) : w = rx.app \o rx.sock
      BY <1>4, ConcatProperties, Zenon
    <3>3. w \o rx.buf \o m = w \o (rx.buf \o m)
      <4>1. \A y, z \in Seq(Nat) : w \o y \o z = w \o (y \o z)
        BY Assoc, Zenon
      <4>2. \A z \in Seq(Nat) : w \o rx.buf \o z = w \o (rx.buf \o z)
        BY <1>4, <4>1, Zenon
      <4> QED BY <4>2, Zenon
    <3>4. PICK p \in Seq(Nat) : p = Numbers(0, rx.peer)
      <4>1. 0 \in Nat
        OBVIOUS
      <4> QED BY <1>4, <1>5, <4>1, NumbersType, ZenonT(60)
    <3>5. PICK y \in Seq(Nat) : y = Greeting
      BY GreetingType, Zenon
    <3>6. y \o p \o m = y \o (p \o m)
      <4>1. \A u, z \in Seq(Nat) : y \o u \o z = y \o (u \o z)
        BY Assoc, Zenon
      <4>2. \A z \in Seq(Nat) : y \o p \o z = y \o (p \o z)
        BY <4>1, Zenon
      <4> QED BY <4>2, Zenon
    <3>7. p \o m = Numbers(0, rx.peer + k)
      <4>1. 0 \in Nat
        OBVIOUS
      <4>2. Numbers(0, rx.peer) \o Numbers(rx.peer, rx.peer + k) = Numbers(0, rx.peer + k)
        BY <1>4, <1>5, <4>1, Joined, ZenonT(60)
      <4> QED BY <2>1, <3>4, <4>2, Zenon
    <3> QED BY <2>2, <3>1, <3>2, <3>3, <3>4, <3>5, <3>6, <3>7, Zenon
  <2>8. RxNotified'
    BY <1>1, <1>9, Zenon DEF RxNotified
  <2> QED BY <1>1, <1>2, <1>3, <2>3, <2>4, <2>5, <2>6, <2>7, <2>8, Zenon DEF RxInv, RxOK
<1>10. CASE /\ svc' \in {"spin", "overrun"} /\ rx' = [rx EXCEPT !.peer = rx.peer + k]
  <2>1. /\ rx' \in RxType /\ rx'.peer = rx.peer + k /\ rx'.app = rx.app
        /\ rx'.sock = rx.sock /\ rx'.buf = rx.buf
    BY <1>3, <1>5, <1>10 DEF RxType
  <2>2. ~Alive'
    BY <1>10 DEF Alive
  <2>3. Len(rx.app) + Len(rx.sock) + Len(rx.buf) - 0 <= (rx.peer + k) + g
    BY <1>4, <1>5, <1>8, MoreSent, Zenon
  <2>4. RxBound'
    BY <1>1, <1>2, <1>6, <1>7, <2>1, <2>3, Zenon DEF RxBound
  <2>5. 0 \in 0 .. Len(rx.buf)
    BY <1>4
  <2> QED BY <1>1, <1>2, <1>3, <2>1, <2>2, <2>4, <2>5, Zenon
      DEF RxInv, RxOK, RxIntact, RxNotified
<1>11. TcpRead(k) => \/ /\ FullAfter(k) = {} /\ notify' = phy
                        /\ rx' = [rx EXCEPT !.peer = rx.peer + k,
                                            !.buf = rx.buf \o Numbers(rx.peer, rx.peer + k)]
                     \/ /\ svc' \in {"spin", "overrun"}
                        /\ rx' = [rx EXCEPT !.peer = rx.peer + k]
  BY Zenon DEF TcpRead
<1> QED BY <1>9, <1>10, <1>11, Zenon

\* EV_CONN of a connection that the application opened: before it, nothing has
\* arrived.
LEMMA EstablishedRx ==
  ASSUME TypeOK, Control, RxInv, RxNotified, Established
  PROVE  RxInv' /\ RxNotified'
<1>1. /\ svc = "run" /\ tcp = "synSent" /\ tcp' = "est" /\ sending' = sending /\ torn' = torn
      /\ UNCHANGED <<kind, conn, phy, appOpen, notify>>
  BY Zenon DEF Established, InTick
<1>2. /\ kind = "connected"
      /\ rx = [peer |-> 0, buf |-> <<>>, sock |-> <<>>, app |-> <<>>]
  BY <1>1, Zenon DEF Control
<1>3. sending = 0 /\ Greeting' = <<0>>
  BY <1>1, <1>2 DEF Control, Greeting
<1>4. PICK q \in {<<>>, <<0>>} :
        /\ rx' = [rx EXCEPT !.sock = q] /\ (phy /\ appOpen => q = <<0>>)
  <2>1. Append(<<>>, 0) = <<0>> /\ rx.sock = <<>>
    BY <1>2, OneByte
  <2>2. [rx EXCEPT !.sock = <<>>] = rx
    BY <1>2
  <2> QED BY <2>1, <2>2, Zenon DEF Established
<1>5. q \in Seq(Nat) /\ Len(q) \in {0, 1}
  BY OneByte, Zenon
<1>6. rx' = [peer |-> 0, buf |-> <<>>, sock |-> q, app |-> <<>>]
  BY <1>2, <1>4
<1>7. rx' \in RxType /\ rx'.peer = 0 /\ rx'.buf = <<>> /\ rx'.sock = q /\ rx'.app = <<>>
  BY <1>5, <1>6 DEF RxType
<1>8. Len(q) <= SockCap /\ 0 + Len(q) + 0 - 0 <= 0 + 1
  BY <1>5, OneByte, Zenon
<1>9. RxOK(rx, sending)' /\ RxBound'
  BY <1>1, <1>3, <1>7, <1>8, OneByte, Zenon DEF RxOK, RxBound
<1>10. RxIntact'
  <2>1. Drop(<<>>, 0) = <<>> /\ Numbers(0, 0) = <<>>
    BY OneByte, DropNone, NumbersNone, Zenon
  <2>2. <<>> \o <<0>> \o <<>> = <<0>> \o <<>>
    BY OneByte, Zenon
  <2> QED BY <1>1, <1>3, <1>4, <1>7, <2>1, <2>2, Zenon DEF RxIntact
<1>11. RxNotified'
  BY <1>7, Zenon DEF RxNotified
<1> QED BY <1>9, <1>10, <1>11, Zenon DEF RxInv

\* The application reads k bytes.
LEMMA AppReadRx ==
  ASSUME RxInv, RxNotified, NEW k \in 1 .. Len(rx.sock), AppRead(k)
  PROVE  RxInv' /\ RxNotified'
<1>1. UNCHANGED <<kind, tcp, svc, conn, phy, notify, appOpen, sending, torn>>
  BY Zenon DEF AppRead
<1>2. /\ rx \in RxType /\ Len(rx.buf) < RxCap /\ Len(rx.sock) <= SockCap
      /\ sending \in 0 .. Len(rx.buf) /\ RxBound /\ RxIntact
  BY Zenon DEF RxInv, RxOK
<1>3. /\ rx.buf \in Seq(Nat) /\ rx.sock \in Seq(Nat) /\ rx.app \in Seq(Nat) /\ rx.peer \in Nat
      /\ Len(rx.buf) \in Nat /\ Len(rx.sock) \in Nat /\ Len(rx.app) \in Nat
  BY <1>2, RxFields, Zenon
<1>4. k \in 0 .. Len(rx.sock) /\ k \in Nat
  BY <1>3
<1>5. PICK q \in Seq(Nat) : q = Drop(rx.sock, k) /\ Len(q) = Len(rx.sock) - k
  BY <1>3, <1>4, Cut, Zenon
<1>6. PICK t \in Seq(Nat) : t = Take(rx.sock, k) /\ Len(t) = k
  BY <1>3, <1>4, Cut, Zenon
<1>7. PICK a \in Seq(Nat) : a = rx.app \o t /\ Len(a) = Len(rx.app) + k
  <2>1. rx.app \o t \in Seq(Nat) /\ Len(rx.app \o t) = Len(rx.app) + Len(t)
    BY <1>3, ConcatProperties, Zenon
  <2> QED BY <1>6, <2>1, Zenon
<1>8. a \o q = rx.app \o rx.sock
  BY <1>3, <1>4, <1>5, <1>6, <1>7, ReadMore, Zenon
<1>9. rx' = [rx EXCEPT !.app = a, !.sock = q]
  BY <1>5, <1>6, <1>7, Zenon DEF AppRead
<1>10. /\ rx' \in RxType /\ rx'.peer = rx.peer /\ rx'.app = a /\ rx'.sock = q
       /\ rx'.buf = rx.buf
  BY <1>2, <1>9 DEF RxType
<1>11. Len(q) <= SockCap /\ Len(a) + Len(q) = Len(rx.app) + Len(rx.sock)
  <2>1. /\ Len(rx.sock) - k <= SockCap
        /\ (Len(rx.app) + k) + (Len(rx.sock) - k) = Len(rx.app) + Len(rx.sock)
    BY <1>2, <1>3, <1>4, ReadSplit, Zenon
  <2> QED BY <1>5, <1>7, <2>1, Zenon
<1>12. Greeting' = Greeting
  BY <1>1, Zenon DEF Greeting
<1>13. RxBound'
  BY <1>1, <1>2, <1>10, <1>11, <1>12, Zenon DEF RxBound
<1>14. RxIntact'
  BY <1>1, <1>2, <1>8, <1>10, <1>12, Zenon DEF RxIntact, Alive
<1>15. RxNotified'
  BY <1>1, <1>10, Zenon DEF RxNotified, Alive
<1> QED BY <1>1, <1>2, <1>10, <1>11, <1>13, <1>14, <1>15, Zenon DEF RxInv, RxOK

\* One side closes, and what was in rxbuf or in the socket is gone.
LEMMA ClosedRx ==
  ASSUME TypeOK, Control, RxInv, RxNotified, AppClose \/ EvClose
  PROVE  RxInv' /\ RxNotified'
<1>1. /\ rx \in RxType /\ Len(rx.buf) < RxCap /\ Len(rx.sock) <= SockCap
      /\ sending \in 0 .. Len(rx.buf) /\ RxBound /\ RxIntact
  BY Zenon DEF RxInv, RxOK
<1>2. /\ rx.peer \in Nat /\ rx.app \in Seq(Nat)
      /\ Len(rx.buf) \in Nat /\ Len(rx.sock) \in Nat /\ Len(rx.app) \in Nat
  BY <1>1, RxFields, Zenon
<1>3. PICK g \in Nat : g = Len(Greeting)
  BY GreetingType, Zenon
<1>4. Len(rx.app) + Len(rx.sock) + Len(rx.buf) - sending <= rx.peer + g
  BY <1>1, <1>3, Zenon DEF RxBound
<1>5. Len(<<>>) = 0 /\ <<>> \in Seq(Nat) /\ 0 <= SockCap /\ 0 < RxCap /\ 0 \in 0 .. 0
  BY OneByte, Zenon
<1>a. CASE AppClose /\ kind # "connected"
  BY <1>1, <1>a, Zenon
  DEF AppClose, RxInv, RxOK, RxBound, RxIntact, RxNotified, Alive, Greeting
<1>6. CASE AppClose /\ kind = "connected"
  <2>1. /\ rx' = [rx EXCEPT !.sock = <<>>] /\ appOpen' = FALSE
        /\ UNCHANGED <<kind, tcp, svc, conn, phy, notify, sending, torn>>
    BY <1>6, Zenon DEF AppClose
  <2>2. /\ rx' \in RxType /\ rx'.peer = rx.peer /\ rx'.app = rx.app /\ rx'.sock = <<>>
        /\ rx'.buf = rx.buf
    BY <1>1, <1>5, <2>1 DEF RxType
  <2>3. Len(rx.app) + 0 + Len(rx.buf) - sending <= rx.peer + g
    BY <1>1, <1>2, <1>4, Fewer, Zenon
  <2>4. RxBound'
    <3>1. Greeting' = Greeting
      BY <2>1, Zenon DEF Greeting
    <3> QED BY <1>3, <1>5, <2>1, <2>2, <2>3, <3>1, Zenon DEF RxBound
  <2> QED BY <1>1, <1>5, <2>1, <2>2, <2>4, Zenon
      DEF RxInv, RxOK, RxIntact, RxNotified, Alive
<1>7. CASE EvClose
  <2>1. /\ rx' = [rx EXCEPT !.buf = <<>>] /\ conn' = FALSE
        /\ kind' = kind /\ sending' = sending
    BY <1>7, Zenon DEF EvClose
  <2>2. /\ rx' \in RxType /\ rx'.peer = rx.peer /\ rx'.app = rx.app /\ rx'.sock = rx.sock
        /\ rx'.buf = <<>>
    BY <1>1, <1>5, <2>1 DEF RxType
  <2>3. sending = 0 /\ Greeting' = Greeting
    BY <1>7 DEF EvClose, InTick, Control, Greeting
  <2>4. Len(rx.app) + Len(rx.sock) + 0 - 0 <= rx.peer + g
    BY <1>1, <1>2, <1>4, <2>3, Fewer, Zenon
  <2>5. RxBound'
    BY <1>3, <1>5, <2>1, <2>2, <2>3, <2>4, Zenon DEF RxBound
  <2> QED BY <1>1, <1>5, <2>1, <2>2, <2>3, <2>5, Zenon
      DEF RxInv, RxOK, RxIntact, RxNotified
<1> QED BY <1>a, <1>6, <1>7, Zenon

\* Every step keeps the peer's stream and the promise to pass it on.
LEMMA RxStep ==
  ASSUME TypeOK, Control, RxInv, RxNotified, [Next]_vars
  PROVE  /\ RxInv' /\ RxNotified' /\ torn' \in BOOLEAN /\ notify' \in BOOLEAN
         /\ Held'
<1>1. torn \in BOOLEAN /\ notify \in BOOLEAN /\ phy \in BOOLEAN
      /\ Held /\ RxIntact /\ RxBound /\ RxOK(rx, sending)
  BY Zenon DEF TypeOK, Control, RxInv
<1>a. svc' # "blocked" => Held'
  BY Zenon DEF Held
<1>2. CASE Writable
  BY <1>2, WritableRx, Zenon
<1>3. CASE Unblock
  BY <1>3, UnblockRx, Zenon
<1>4. CASE \E k \in 1 .. MaxSeg : TcpRead(k)
  <2>1. svc' \in {"run", "crash", "spin", "overrun"} /\ torn' = torn /\ notify' = phy
    BY <1>4, Zenon DEF TcpRead, Dangling
  <2>2. svc' # "blocked"
    BY <2>1
  <2> QED BY <1>1, <1>4, <1>a, <2>1, <2>2, TcpReadRx, Zenon
<1>5. CASE Established
  <2>1. svc' \in {"run", "crash"} /\ torn' = torn /\ notify' = notify
    BY <1>5, Zenon DEF Established, Dangling
  <2>2. svc' # "blocked"
    BY <2>1
  <2> QED BY <1>1, <1>5, <1>a, <2>1, <2>2, EstablishedRx, Zenon
<1>b. rx \in RxType
  BY <1>1, Zenon DEF RxOK
<1>6. CASE Reads
  <2>1. svc' = svc /\ sending' = sending /\ torn' = torn /\ notify' = notify
    BY <1>6, Zenon DEF Reads, AppRead
  <2>2. rx'.buf = rx.buf
    BY <1>6, <1>b DEF Reads, AppRead, RxType
  <2>3. Held'
    BY <1>1, <2>1, <2>2, Zenon DEF Held
  <2> QED BY <1>1, <1>6, <2>1, <2>3, AppReadRx, Zenon DEF Reads
<1>7. CASE AppClose
  <2>1. svc' = svc /\ sending' = sending /\ torn' = torn /\ notify' = notify
    BY <1>7, Zenon DEF AppClose
  <2>2. rx'.buf = rx.buf
    BY <1>7, <1>b DEF AppClose, RxType
  <2>3. Held'
    BY <1>1, <2>1, <2>2, Zenon DEF Held
  <2> QED BY <1>1, <1>7, <2>1, <2>3, ClosedRx, Zenon
<1>8. CASE EvClose
  <2>1. svc' \in {"run", "crash"} /\ torn' = torn /\ notify' = FALSE
    BY <1>8, Zenon DEF EvClose, Dangling
  <2>2. svc' # "blocked"
    BY <2>1
  <2> QED BY <1>1, <1>8, <1>a, <2>1, <2>2, ClosedRx, Zenon
<1>9. ASSUME /\ UNCHANGED <<kind, tcp, conn, appOpen, rx, sending, torn>>
             /\ \/ UNCHANGED <<svc, phy, notify>>
                \/ svc' = svc /\ phy' = FALSE /\ notify' = FALSE
                \/ svc' \in {"overrun", "crash"} /\ phy' = phy /\ notify' = notify
                \/ svc = "run" /\ svc' = "run" /\ phy' = phy /\ notify' = notify
      PROVE  /\ RxInv' /\ RxNotified' /\ torn' \in BOOLEAN /\ notify' \in BOOLEAN
             /\ Held'
  <2>1. UNCHANGED <<kind, tcp, conn, appOpen, rx, sending, torn>> /\ Greeting' = Greeting
    BY <1>9, Zenon DEF Greeting
  <2>2. (phy' => phy) /\ (Alive' => Alive)
        /\ (svc' = "blocked" => svc = "blocked")
    BY <1>9 DEF Alive
  <2>3. phy' /\ Alive' => notify' = notify
    BY <1>9 DEF Alive
  <2>4. notify' \in BOOLEAN
    BY <1>1, <1>9, Zenon
  <2>5. RxOK(rx, sending)' /\ RxBound'
    BY <1>1, <2>1, Zenon DEF RxOK, RxBound
  <2>6. RxIntact' /\ RxNotified'
    BY <1>1, <2>1, <2>2, <2>3, Zenon DEF RxIntact, RxNotified
  <2> QED BY <1>1, <2>1, <2>2, <2>4, <2>5, <2>6, Zenon DEF RxInv, Held
<1>10. CASE Poll \/ TickDone \/ (\E k \in 1 .. SockCap : AppWrite(k)) \/ UNCHANGED vars
  BY <1>9, <1>10, Zenon DEF Poll, TickDone, AppWrite, vars
<1>11. CASE Readable
  BY <1>9, <1>11, Zenon DEF Readable, UnixData
<1>12. CASE Acknowledged
  BY <1>9, <1>12, Zenon DEF Acknowledged, TcpWrite, InTick
<1> QED BY <1>2, <1>3, <1>4, <1>5, <1>6, <1>7, <1>8, <1>10, <1>11, <1>12, Zenon DEF Next

-----------------------------------------------------------------------------
(* The loop                                                                *)

CtlType ==
  /\ kind \in {"connected", "accepted"}
  /\ tcp \in {"synSent", "est", "closeWait"}
  /\ pc \in {"poll", "handle", "tick"}
  /\ ready \subseteq {"r", "w"}
  /\ svc \in {"run", "blocked", "spin", "overrun", "deadlock", "crash"}
  /\ conn \in BOOLEAN /\ phy \in BOOLEAN /\ appOpen \in BOOLEAN

\* Every step keeps the types of the loop's variables.
LEMMA CtlTypeStep ==
  ASSUME TypeOK, [Next]_vars
  PROVE  CtlType'
<1>1. CtlType
  BY Zenon DEF TypeOK, CtlType
<1>2. CASE Poll
  BY <1>1, <1>2 DEF CtlType, Poll
<1>3. CASE Writable
  <2>1. /\ UNCHANGED <<kind, tcp, conn, phy, appOpen>>
        /\ svc' \in {svc, "deadlock", "blocked"}
        /\ ready' \in {ready, ready \ {"w"}} /\ pc' \in {pc, "tick", "handle"}
    BY <1>3, Zenon DEF Writable, Handled
  <2> QED BY <1>1, <2>1, Zenon DEF CtlType
<1>4. CASE Unblock
  <2>1. /\ UNCHANGED <<kind, tcp, conn, phy, appOpen>> /\ svc' \in {svc, "run"}
        /\ ready' \in {ready, ready \ {"w"}} /\ pc' \in {pc, "tick", "handle"}
    BY <1>4, Zenon DEF Unblock, Handled
  <2> QED BY <1>1, <2>1, Zenon DEF CtlType
<1>5. CASE Readable
  <2>1. /\ UNCHANGED <<kind, tcp, conn, appOpen>> /\ phy' \in {phy, FALSE}
        /\ svc' \in {svc, "overrun"}
        /\ ready' = ready \ {"r"} /\ pc' \in {"tick", "handle"}
    BY <1>5, Zenon DEF Readable, Handled, UnixData
  <2> QED BY <1>1, <2>1, Zenon DEF CtlType
<1>6. CASE \E k \in 1 .. MaxSeg : TcpRead(k)
  <2>1. /\ UNCHANGED <<kind, tcp, pc, ready, conn, phy, appOpen>>
        /\ svc' \in {"run", "crash", "spin", "overrun"}
    BY <1>6, Zenon DEF TcpRead, Dangling
  <2> QED BY <1>1, <2>1, Zenon DEF CtlType
<1>7. CASE Established
  BY <1>1, <1>7, Zenon DEF CtlType, Established, Dangling
<1>8. CASE Acknowledged
  <2>1. /\ UNCHANGED <<kind, tcp, pc, ready, conn, phy, appOpen>>
        /\ svc' \in {"run", "crash"}
    BY <1>8, Zenon DEF Acknowledged, TcpWrite
  <2> QED BY <1>1, <2>1, Zenon DEF CtlType
<1>9. CASE EvClose
  BY <1>1, <1>9, Zenon DEF CtlType, EvClose, Dangling
<1>10. CASE TickDone
  BY <1>1, <1>10, Zenon DEF CtlType, TickDone
<1>11. CASE Reads \/ (\E k \in 1 .. SockCap : AppWrite(k)) \/ AppClose \/ UNCHANGED vars
  <2>1. /\ UNCHANGED <<kind, tcp, pc, ready, svc, conn, phy>>
        /\ appOpen' \in {appOpen, FALSE}
    BY <1>11, Zenon DEF Reads, AppRead, AppWrite, AppClose, vars
  <2> QED BY <1>1, <2>1, Zenon DEF CtlType
<1> QED BY <1>2, <1>3, <1>4, <1>5, <1>6, <1>7, <1>8, <1>9, <1>10, <1>11, Zenon DEF Next

Silent == [peer |-> 0, buf |-> <<>>, sock |-> <<>>, app |-> <<>>]

\* Every step keeps the loop's snapshot, and what is known of a connection that
\* is not established yet.
LEMMA ControlStep ==
  ASSUME TypeOK, Control, RxInv, [Next]_vars, Held'
  PROVE  Control'
<1>1. /\ pc # "handle" => ready = {}
      /\ ready # {} => phy
      /\ "r" \in ready => tx.sock # <<>> \/ HungUp
      /\ phy => conn
      /\ ~phy => ~conn \/ HungUp
      /\ tcp # "closeWait" => conn
      /\ tcp = "synSent" => kind = "connected" /\ rx = Silent
      /\ svc # "blocked" => sending = 0
      /\ svc = "run" /\ "w" \in ready => Len(rx.sock) < SockCap \/ HungUp
      /\ ready \subseteq {"r", "w"} /\ rx \in RxType /\ tx \in TxType
      /\ conn \in BOOLEAN /\ phy \in BOOLEAN /\ appOpen \in BOOLEAN
  BY Zenon DEF Control, TypeOK, Silent, RxType, TxType
<1>2. /\ rx.buf \in Seq(Nat) /\ rx.sock \in Seq(Nat)
      /\ Len(rx.buf) \in Nat /\ Len(rx.sock) \in Nat
      /\ tx.sock \in Seq(Nat) /\ Len(tx.sock) \in Nat /\ tx.app \in Nat
  BY <1>1, RxFields, TxFields, ZenonT(60)
<1>3. rx = Silent => rx.buf = <<>> /\ rx.sock = <<>> /\ [rx EXCEPT !.sock = <<>>] = rx
  BY DEF Silent
<1>a. kind' = kind /\ appOpen' = appOpen => (HungUp' <=> HungUp)
  BY DEF HungUp
<1>4. CASE Poll
  <2>1. UNCHANGED <<kind, tcp, svc, conn, phy, appOpen, rx, tx, sending>>
    BY <1>4, Zenon DEF Poll
  <2>2. /\ pc' # "handle" => ready' = {}
        /\ ready' # {} => phy
        /\ "r" \in ready' => tx.sock # <<>> \/ HungUp
        /\ "w" \in ready' => Len(rx.sock) < SockCap \/ HungUp
    BY <1>4, Zenon DEF Poll
  <2> QED BY <1>1, <1>a, <2>1, <2>2, Zenon DEF Control, Silent
<1>5. CASE Writable
  <2>1. /\ UNCHANGED <<kind, tcp, conn, phy, appOpen, tx>> /\ svc = "run" /\ pc = "handle"
    BY <1>5, Zenon DEF Writable
  <2>2. svc # "blocked"
    BY <2>1
  <2>3. sending = 0
    BY <1>1, <2>2, Zenon
  <2>4. /\ pc' # "handle" => ready' = {}
        /\ ready' \subseteq ready
        /\ rx.buf = <<>> => rx' = rx
    BY <1>5, <2>1, Zenon DEF Writable, Handled
  <2>5. svc' # "blocked" => sending' = sending
    BY <1>5, Zenon DEF Writable
  <2>6. svc' = "run" => "w" \notin ready'
    <3>1. (svc' = svc /\ "w" \notin ready') \/ svc' = "deadlock" \/ svc' = "blocked"
      BY <1>5, Zenon DEF Writable, Handled
    <3> QED BY <3>1
  <2> QED BY <1>1, <1>a, <1>3, <2>1, <2>3, <2>4, <2>5, <2>6, Zenon DEF Control, Silent
<1>6. CASE Unblock
  <2>1. /\ UNCHANGED <<kind, tcp, conn, phy, appOpen, tx>> /\ svc = "blocked"
    BY <1>6, Zenon DEF Unblock
  <2>2. sending > 0 /\ sending \in 0 .. Len(rx.buf)
    BY <2>1, Zenon DEF Control, Held, RxInv, RxOK
  <2>3. rx.buf # <<>>
    BY <1>2, <2>2
  <2>4. /\ (pc' = pc /\ ready' = ready) \/ (pc' # "handle" => ready' = {})
        /\ ready' \subseteq ready
    BY <1>6, Zenon DEF Unblock, Handled
  <2>5. (svc' = "run" /\ "w" \notin ready' /\ sending' = 0) \/ svc' = svc
    BY <1>6, Zenon DEF Unblock, Handled
  <2>6. svc' = "run" => "w" \notin ready'
    BY <2>1, <2>5
  <2>7. svc' # "blocked" => sending' = 0
    BY <2>1, <2>5, Zenon
  <2> QED BY <1>1, <1>a, <1>3, <2>1, <2>3, <2>4, <2>6, <2>7, Zenon DEF Control, Silent
<1>7. CASE Readable
  <2>1. /\ UNCHANGED <<kind, tcp, conn, appOpen, rx, sending>> /\ ready = {"r"}
        /\ ready' = {} /\ svc = "run"
    BY <1>7, Zenon DEF Readable, Handled
  <2>2. \/ phy' = phy \/ (phy' = FALSE /\ HungUp)
    BY <1>1, <1>7, Zenon DEF Readable
  <2>3. svc # "blocked"
    BY <2>1
  <2> QED BY <1>1, <1>a, <2>1, <2>2, <2>3, Zenon DEF Control, Silent
<1>8. ASSUME svc = "run", pc = "tick", UNCHANGED <<kind, ready, appOpen, sending>>,
             (conn' = conn /\ phy' = phy) \/ (conn' = FALSE /\ phy' = FALSE /\ tcp' = "closeWait"),
             tcp' \in {tcp, "est", "closeWait"}, tcp' # "closeWait" => tcp # "closeWait",
             tcp' # "synSent" \/ (tcp' = tcp /\ rx' = rx)
      PROVE  Control'
  <2>1. ready = {} /\ sending = 0
    BY <1>1, <1>8
  <2>2. (tcp' = "synSent" => tcp = "synSent" /\ rx' = rx) /\ (~conn' => tcp' = "closeWait" \/ conn' = conn)
    BY <1>8
  <2>3. (tcp' # "closeWait" => conn') /\ (phy' => conn') /\ (~phy' => ~conn' \/ HungUp')
    <3>1. CASE conn' = conn /\ phy' = phy
      <4>1. appOpen' = appOpen /\ (tcp' # "closeWait" => tcp # "closeWait")
        BY <1>8, Zenon
      <4> QED BY <1>1, <1>8, <1>a, <3>1, <4>1, Zenon
    <3>2. CASE conn' = FALSE /\ phy' = FALSE /\ tcp' = "closeWait"
      BY <3>2, Zenon
    <3> QED BY <1>8, <3>1, <3>2, Zenon
  <2>4. ready' = {} /\ sending' = 0
    BY <1>8, <2>1, Zenon
  <2>5. tcp' = "synSent" => kind' = "connected" /\ rx' = Silent
    BY <1>1, <1>8, <2>2, Zenon
  <2> QED BY <1>8, <1>a, <2>3, <2>4, <2>5, Zenon DEF Control, Silent
<1>9. CASE \/ \E k \in 1 .. MaxSeg : TcpRead(k)
           \/ Established \/ Acknowledged \/ EvClose \/ TickDone
  <2>1. CASE \E k \in 1 .. MaxSeg : TcpRead(k)
    <3>1. tcp = "est" /\ tcp' = tcp /\ svc = "run" /\ pc = "tick"
          /\ UNCHANGED <<kind, ready, appOpen, sending, conn, phy>>
      BY <2>1, Zenon DEF TcpRead, InTick
    <3>2. tcp' # "synSent"
      BY <3>1
    <3> QED BY <1>8, <3>1, <3>2, Zenon
  <2>2. CASE Established
    <3>1. tcp = "synSent" /\ tcp' = "est" /\ svc = "run" /\ pc = "tick"
          /\ UNCHANGED <<kind, ready, appOpen, sending, conn, phy>>
      BY <2>2, Zenon DEF Established, InTick
    <3>2. tcp' # "synSent" /\ tcp # "closeWait"
      BY <3>1
    <3> QED BY <1>8, <3>1, <3>2, Zenon
  <2>3. CASE Acknowledged
    BY <1>8, <2>3, Zenon DEF Acknowledged, TcpWrite, InTick
  <2>4. CASE EvClose
    <3>1. tcp' = "closeWait" /\ svc = "run" /\ pc = "tick" /\ conn' = FALSE /\ phy' = FALSE
          /\ UNCHANGED <<kind, ready, appOpen, sending>>
      BY <2>4, Zenon DEF EvClose, InTick
    <3>2. tcp' # "synSent"
      BY <3>1
    <3> QED BY <1>8, <3>1, <3>2, Zenon
  <2>5. CASE TickDone
    BY <1>8, <2>5, Zenon DEF TickDone, InTick
  <2> QED BY <1>9, <2>1, <2>2, <2>3, <2>4, <2>5
<1>10. CASE Reads
  <2>1. PICK k \in 1 .. Len(rx.sock) : AppRead(k)
    BY <1>10, Zenon DEF Reads
  <2>2. UNCHANGED <<kind, tcp, pc, ready, svc, conn, phy, appOpen, tx, sending>>
        /\ rx' = [rx EXCEPT !.app = rx.app \o Take(rx.sock, k), !.sock = Drop(rx.sock, k)]
    BY <2>1, Zenon DEF AppRead
  <2>3. rx.sock # <<>> /\ k \in 0 .. Len(rx.sock) /\ k \in Nat
    BY <1>2
  <2>4. Len(rx'.sock) = Len(rx.sock) - k
    <3>1. rx'.sock = Drop(rx.sock, k)
      BY <1>1, <2>2 DEF RxType
    <3> QED BY <1>2, <2>3, <3>1, Cut, Zenon
  <2>5. Len(rx.sock) < SockCap => Len(rx'.sock) < SockCap
    BY <1>2, <2>3, <2>4, PicoConnAssumption
  <2> QED BY <1>1, <1>a, <1>3, <2>2, <2>3, <2>5, Zenon DEF Control, Silent
<1>11. CASE \E k \in 1 .. SockCap : AppWrite(k)
  <2>1. PICK k \in 1 .. SockCap : AppWrite(k)
    BY <1>11, Zenon
  <2>2. UNCHANGED <<kind, tcp, pc, ready, svc, conn, phy, appOpen, rx, sending>>
    BY <2>1, Zenon DEF AppWrite
  <2>3. tx'.sock # <<>>
    <3>1. tx.app + k \in Nat /\ tx.app <= tx.app + k /\ (tx.app + k) - tx.app = k
          /\ k \in Nat \ {0}
      BY <1>2, PicoConnAssumption
    <3>2. PICK m \in Seq(Nat) : m = Numbers(tx.app, tx.app + k) /\ Len(m) = k
      BY <1>2, <3>1, NumbersType, ZenonT(60)
    <3>3. Len(tx.sock \o m) = Len(tx.sock) + Len(m)
      BY <1>2, ConcatProperties, Zenon
    <3>4. tx.sock \o m # <<>>
      <4>1. Len(tx.sock) + k # 0
        BY <1>2, <3>1
      <4> QED BY <3>2, <3>3, <4>1, OneByte, Zenon
    <3>5. tx' = [tx EXCEPT !.app = tx.app + k, !.sock = tx.sock \o m]
      BY <2>1, <3>2, Zenon DEF AppWrite
    <3> QED BY <1>1, <3>4, <3>5 DEF TxType
  <2> QED BY <1>1, <1>a, <2>2, <2>3, Zenon DEF Control, Silent
<1>12. CASE AppClose
  <2>1. /\ UNCHANGED <<kind, tcp, pc, ready, svc, conn, phy, tx, sending>>
        /\ appOpen' = FALSE /\ (rx' = [rx EXCEPT !.sock = <<>>] \/ (rx' = rx /\ kind # "connected"))
        /\ HungUp => HungUp'
    BY <1>12, Zenon DEF AppClose, HungUp
  <2>2. Len(rx.sock) < SockCap => Len(rx'.sock) < SockCap
    <3>1. Len([rx EXCEPT !.sock = <<>>].sock) < SockCap
      BY <1>1, PicoConnAssumption DEF RxType
    <3> QED BY <2>1, <3>1, Zenon
  <2> QED BY <1>1, <1>3, <2>1, <2>2, Zenon DEF Control, Silent
<1>13. CASE UNCHANGED vars
  <2>1. UNCHANGED <<kind, tcp, pc, ready, svc, conn, phy, appOpen, rx, tx, sending>>
    BY <1>13, Zenon DEF vars
  <2> QED BY <1>1, <1>a, <2>1, Zenon DEF Control, Silent
<1> QED BY <1>4, <1>5, <1>6, <1>7, <1>9, <1>10, <1>11, <1>12, <1>13, Zenon DEF Next

\* One of the two buffers ran full.
Flooded ==
  \/ rx.peer + Len(Greeting) - Len(rx.app) - Len(rx.sock) >= RxCap
  \/ tx.app - Len(tx.peer) - Len(tx.out) > TxCap

\* The reads that fill rxbuf.
LEMMA TcpReadFloods ==
  ASSUME TypeOK, Control, RxInv, NEW k \in 1 .. MaxSeg, TcpRead(k),
         svc' \in {"spin", "overrun"}
  PROVE  Flooded'
<1>1. svc = "run" /\ UNCHANGED <<kind, tcp>>
  BY Zenon DEF TcpRead, InTick
<1>2. sending = 0
  BY <1>1 DEF Control
<1>3. rx \in RxType /\ RxBound
  BY Zenon DEF RxInv, RxOK
<1>4. rx.peer \in Nat /\ Len(rx.buf) \in Nat /\ Len(rx.sock) \in Nat /\ Len(rx.app) \in Nat
  BY <1>3, RxFields, Zenon
<1>5. PICK g \in Nat : g = Len(Greeting) /\ Greeting' = Greeting
  BY <1>1, GreetingType, Zenon DEF Greeting
<1>6. Len(rx.app) + Len(rx.sock) + Len(rx.buf) - 0 <= rx.peer + g
  BY <1>2, <1>3, <1>5, Zenon DEF RxBound
<1>7. svc' \notin Dangling
  BY DEF Dangling
<1>8. PICK j \in FullAfter(k) : rx' = [rx EXCEPT !.peer = rx.peer + k]
  BY <1>7, Zenon DEF TcpRead
<1>9. k \in Nat /\ j \in Nat
  BY PicoConnAssumption DEF FullAfter
<1>10. PICK l \in Int : l = Lesser(j * MTU, k) /\ l <= k
  BY <1>9, PicoConnAssumption DEF Lesser
<1>11. Len(rx.buf) + l >= RxCap
  BY <1>8, <1>10, Zenon DEF FullAfter, FillAfter
<1>12. (rx.peer + k) + g - Len(rx.app) - Len(rx.sock) >= RxCap
  BY <1>4, <1>6, <1>9, <1>10, <1>11, RxFull, Zenon
<1>13. rx'.peer = rx.peer + k /\ rx'.app = rx.app /\ rx'.sock = rx.sock
  BY <1>3, <1>8 DEF RxType
<1> QED BY <1>5, <1>12, <1>13, Zenon DEF Flooded

\* More data than txbuf has room for.
LEMMA UnixDataFloods ==
  ASSUME TypeOK, Control, TxInv, Readable, svc' = "overrun"
  PROVE  Flooded'
<1>1. svc = "run" /\ (UnixData \/ svc' = svc) /\ "r" \in ready
  BY Zenon DEF Readable
<1>2. svc' # svc
  BY <1>1
<1>3. Len(tx.buf \o tx.sock) > TxCap /\ tx' = tx
  <2>1. tx \in TxType /\ Received(tx).buf = tx.buf \o tx.sock
    BY DEF TypeOK, TxType, Received
  <2> QED BY <1>1, <1>2, <2>1, Zenon DEF UnixData, Received
<1>4. tx \in TxType /\ Streams(tx)
  <2>1. conn
    BY <1>1, Zenon DEF Control
  <2> QED BY <2>1, Zenon DEF TypeOK, TxType, TxInv
<1>5. /\ Received(tx).buf = tx.buf \o tx.sock
      /\ Len(Received(tx).buf) = tx.app - Len(tx.peer) - Len(tx.out)
  BY <1>4, ReceivedStreams, ZenonT(60)
<1>6. tx.app - Len(tx.peer) - Len(tx.out) > TxCap
  BY <1>3, <1>5, Zenon
<1> QED BY <1>3, <1>6, Zenon DEF Flooded

\* A buffer that ran full stays so, whatever the application does.
LEMMA FloodedStays ==
  ASSUME TypeOK, RxInv, Flooded,
         Reads \/ (\E k \in 1 .. SockCap : AppWrite(k)) \/ AppClose
  PROVE  Flooded'
<1>1. /\ rx \in RxType /\ tx \in TxType
  BY Zenon DEF TypeOK, RxType, TxType
<1>2. /\ rx.peer \in Nat /\ rx.sock \in Seq(Nat) /\ rx.app \in Seq(Nat)
      /\ Len(rx.sock) \in Nat /\ Len(rx.app) \in Nat
      /\ tx.app \in Nat /\ Len(tx.peer) \in Nat /\ Len(tx.out) \in Nat
  BY <1>1, RxFields, TxFields, ZenonT(60)
<1>3. kind' = kind /\ tcp' = tcp
  BY Zenon DEF Reads, AppRead, AppWrite, AppClose
<1>4. PICK g \in Nat : g = Len(Greeting) /\ Greeting' = Greeting
  BY <1>3, GreetingType, Zenon DEF Greeting
<1>a. CASE AppClose /\ kind # "connected"
  BY <1>4, <1>a, Zenon DEF AppClose, Flooded
<1>5. CASE AppClose /\ kind = "connected"
  <2>1. rx' = [rx EXCEPT !.sock = <<>>] /\ tx' = tx
    BY <1>5, Zenon DEF AppClose
  <2>2. rx'.peer = rx.peer /\ rx'.app = rx.app /\ rx'.sock = <<>>
    BY <1>1, <2>1 DEF RxType
  <2>3. rx.peer + g - Len(rx.app) - Len(rx.sock) >= RxCap
          => rx.peer + g - Len(rx.app) - 0 >= RxCap
    BY <1>2, RxStaysFull, Zenon
  <2> QED BY <1>4, <2>1, <2>2, <2>3, OneByte, Zenon DEF Flooded
<1>6. CASE Reads
  <2>1. PICK k \in 1 .. Len(rx.sock) : AppRead(k)
    BY <1>6, Zenon DEF Reads
  <2>2. rx' = [rx EXCEPT !.app = rx.app \o Take(rx.sock, k), !.sock = Drop(rx.sock, k)]
        /\ tx' = tx
    BY <2>1, Zenon DEF AppRead
  <2>3. k \in 0 .. Len(rx.sock) /\ k \in Nat
    BY <1>2
  <2>4. /\ rx'.peer = rx.peer /\ rx'.app = rx.app \o Take(rx.sock, k)
        /\ rx'.sock = Drop(rx.sock, k)
    BY <1>1, <2>2 DEF RxType
  <2>5. PICK x \in Nat : x = Len(rx'.app) /\ x = Len(rx.app) + k
    <3>1. Take(rx.sock, k) \in Seq(Nat) /\ Len(Take(rx.sock, k)) = k
      BY <1>2, <2>3, Cut, Zenon
    <3>2. Len(rx.app \o Take(rx.sock, k)) = Len(rx.app) + Len(Take(rx.sock, k))
      BY <1>2, <3>1, ConcatProperties, Zenon
    <3>3. Len(rx.app) + k \in Nat
      BY <1>2, <2>3
    <3> QED BY <2>4, <3>1, <3>2, <3>3, Zenon
  <2>6. PICK y \in Nat : y = Len(rx'.sock) /\ y = Len(rx.sock) - k
    <3>1. Len(Drop(rx.sock, k)) = Len(rx.sock) - k
      BY <1>2, <2>3, Cut, Zenon
    <3>2. Len(rx.sock) - k \in Nat
      BY <1>2, <2>3
    <3> QED BY <2>4, <3>1, <3>2, Zenon
  <2>7. x + y = Len(rx.app) + Len(rx.sock)
    <3>1. Len(rx.sock) <= SockCap
      BY Zenon DEF TypeOK
    <3>2. (Len(rx.app) + k) + (Len(rx.sock) - k) = Len(rx.app) + Len(rx.sock)
      BY <1>2, <2>3, <3>1, ReadSplit, Zenon
    <3> QED BY <2>5, <2>6, <3>2, Zenon
  <2>8. rx.peer + g - Len(rx.app) - Len(rx.sock) >= RxCap => rx.peer + g - x - y >= RxCap
    BY <1>2, <2>7, RxStaysFull, Zenon
  <2> QED BY <1>4, <2>2, <2>4, <2>5, <2>6, <2>8, Zenon DEF Flooded
<1>7. CASE \E k \in 1 .. SockCap : AppWrite(k)
  <2>1. PICK k \in 1 .. SockCap : AppWrite(k)
    BY <1>7, Zenon
  <2>2. /\ tx' = [tx EXCEPT !.app = tx.app + k,
                            !.sock = tx.sock \o Numbers(tx.app, tx.app + k)]
        /\ rx' = rx
    BY <2>1, Zenon DEF AppWrite
  <2>3. tx'.app = tx.app + k /\ tx'.peer = tx.peer /\ tx'.out = tx.out
    BY <1>1, <2>2 DEF TxType
  <2>4. k \in Nat
    BY PicoConnAssumption
  <2>5. tx.app - Len(tx.peer) - Len(tx.out) > TxCap
          => (tx.app + k) - Len(tx.peer) - Len(tx.out) > TxCap
    BY <1>2, <2>4, TxStaysFull, ZenonT(60)
  <2> QED BY <1>4, <2>2, <2>3, <2>5, Zenon DEF Flooded
<1> QED BY <1>a, <1>5, <1>6, <1>7, Zenon

\* A send that waits, with the socket full, has more than the socket holds.
LEMMA StuckExplained ==
  ASSUME RxInv', Held', svc' = "blocked", kind' = "accepted", Len(rx'.sock) = SockCap
  PROVE  rx'.peer - Len(rx'.app) > SockCap
<1>1. rx' \in RxType /\ sending' \in 0 .. Len(rx'.buf) /\ RxBound'
  BY Zenon DEF RxInv, RxOK
<1>2. /\ rx'.peer \in Nat /\ Len(rx'.buf) \in Nat /\ Len(rx'.sock) \in Nat
      /\ Len(rx'.app) \in Nat
  BY <1>1, RxFields, Zenon
<1>3. Len(Greeting') = 0
  BY DEF Greeting
<1>4. Len(rx'.app) + Len(rx'.sock) + Len(rx'.buf) - sending' <= rx'.peer + 0
  BY <1>1, <1>3, Zenon DEF RxBound
<1>5. sending' < Len(rx'.buf)
  BY Zenon DEF Held
<1>6. PICK a, q, b, m, p \in Int :
        /\ a = Len(rx'.app) /\ q = Len(rx'.sock) /\ b = Len(rx'.buf)
        /\ m = sending' /\ p = rx'.peer
  BY <1>1, <1>2
<1>7. a + q + b - m <= p + 0 /\ m < b
  BY <1>4, <1>5, <1>6, Zenon
<1>8. p - a > q
  BY <1>7
<1> QED BY <1>6, <1>8, Zenon

\* Every step that stops the loop has one of the reasons.
LEMMA StopsStep ==
  ASSUME TypeOK, Control, TxInv, RxInv, StopsExplained, [Next]_vars, RxInv', Held'
  PROVE  StopsExplained'
<1>1. /\ svc = "deadlock" => HungUp /\ rx.buf # <<>>
      /\ svc = "crash" => ~conn \/ HungUp
      /\ svc \in {"spin", "overrun"} => Flooded
      /\ svc = "blocked" => kind = "accepted"
  BY Zenon DEF StopsExplained, Flooded
<1>b. svc' = "blocked" /\ kind' = "accepted" /\ Len(rx'.sock) = SockCap
        => rx'.peer - Len(rx'.app) > SockCap
  BY StuckExplained, Zenon
<1>2. rx \in RxType /\ conn \in BOOLEAN /\ phy \in BOOLEAN /\ appOpen \in BOOLEAN
  BY Zenon DEF TypeOK, RxType
<1>3. ASSUME svc' = "run" PROVE StopsExplained'
  BY <1>3 DEF StopsExplained, Stuck
<1>4. ASSUME svc' = "crash", ~conn' \/ HungUp' PROVE StopsExplained'
  <2>1. svc' # "deadlock" /\ svc' \notin {"spin", "overrun"} /\ svc' # "blocked"
    BY <1>4
  <2> QED BY <1>4, <2>1, Zenon DEF StopsExplained, Stuck
<1>5. ASSUME svc' \in {"spin", "overrun"}, Flooded' PROVE StopsExplained'
  <2>1. svc' # "deadlock" /\ svc' # "crash" /\ svc' # "blocked"
    BY <1>5
  <2> QED BY <1>5, <2>1, Zenon DEF StopsExplained, Flooded, Stuck
<1>6. ASSUME svc' = "blocked", kind' = "accepted" PROVE StopsExplained'
  <2>1. svc' # "deadlock" /\ svc' \notin {"spin", "overrun"} /\ svc' # "crash"
    BY <1>6
  <2>2. Stuck' => rx'.peer - Len(rx'.app) > SockCap
    BY <1>6, <1>b, Zenon DEF Stuck
  <2> QED BY <1>6, <2>1, <2>2, Zenon DEF StopsExplained
<1>7. ASSUME svc' = "deadlock", HungUp', rx'.buf # <<>> PROVE StopsExplained'
  <2>1. svc' # "blocked" /\ svc' \notin {"spin", "overrun"} /\ svc' # "crash"
    BY <1>7
  <2> QED BY <1>7, <2>1, Zenon DEF StopsExplained, Stuck
<1>a. kind' = kind /\ appOpen' = appOpen => (HungUp' <=> HungUp)
  BY DEF HungUp
<1>8. CASE Poll \/ TickDone
  BY <1>3, <1>8, Zenon DEF Poll, TickDone, InTick
<1>10. CASE Writable
  <2>1. /\ appOpen' = appOpen /\ kind' = kind
        /\ \/ svc' = "run"
           \/ svc' = "deadlock" /\ HungUp /\ rx' = rx /\ rx.buf # <<>>
           \/ svc' = "blocked" /\ kind = "accepted"
    BY <1>10, Zenon DEF Writable
  <2> QED BY <1>3, <1>6, <1>7, <1>a, <2>1, Zenon
<1>11. CASE Unblock
  <2>1. /\ kind' = kind /\ svc = "blocked"
        /\ svc' = "run" \/ svc' = svc
    BY <1>11, Zenon DEF Unblock
  <2> QED BY <1>1, <1>3, <1>6, <2>1, Zenon
<1>12. CASE Readable
  <2>1. svc' = "run" \/ svc' = "overrun"
    BY <1>12, Zenon DEF Readable, UnixData
  <2> QED BY <1>3, <1>5, <1>12, <2>1, UnixDataFloods, Zenon
<1>13. svc' \in Dangling => svc' = "run" \/ (svc' = "crash" /\ ~phy)
  BY Zenon DEF Dangling
<1>14. ~phy => ~conn \/ HungUp
  BY Zenon DEF Control
<1>15. CASE \E k \in 1 .. MaxSeg : TcpRead(k)
  <2>1. PICK k \in 1 .. MaxSeg : TcpRead(k)
    BY <1>15, Zenon
  <2>2. /\ conn' = conn /\ appOpen' = appOpen /\ kind' = kind
        /\ svc' \in Dangling \/ svc' \in {"spin", "overrun"}
    BY <2>1, Zenon DEF TcpRead
  <2> QED BY <1>3, <1>4, <1>5, <1>13, <1>14, <1>a, <2>1, <2>2, TcpReadFloods, Zenon
<1>16. CASE Established
  <2>1. conn' = conn /\ appOpen' = appOpen /\ kind' = kind /\ svc' \in Dangling
    BY <1>16, Zenon DEF Established
  <2> QED BY <1>3, <1>4, <1>13, <1>14, <1>a, <2>1, Zenon
<1>17. CASE Acknowledged
  <2>1. conn' = conn /\ (svc' = "run" \/ (svc' = "crash" /\ ~conn))
    BY <1>17, Zenon DEF Acknowledged, TcpWrite
  <2> QED BY <1>3, <1>4, <2>1, Zenon
<1>18. CASE EvClose
  <2>1. conn' = FALSE /\ svc' \in Dangling
    BY <1>18, Zenon DEF EvClose
  <2> QED BY <1>3, <1>4, <1>13, <2>1, Zenon
<1>19. CASE Reads \/ (\E k \in 1 .. SockCap : AppWrite(k)) \/ AppClose
  <2>1. /\ svc' = svc /\ conn' = conn /\ kind' = kind /\ appOpen /\ appOpen' \in {appOpen, FALSE}
    BY <1>19, Zenon DEF Reads, AppRead, AppWrite, AppClose
  <2>2. HungUp => HungUp'
    BY <2>1, Zenon DEF HungUp
  <2>3. CASE svc \in {"spin", "overrun"}
    BY <1>1, <1>5, <1>19, <2>1, <2>3, FloodedStays, Zenon
  <2>4. CASE svc = "crash"
    BY <1>1, <1>4, <2>1, <2>2, <2>4, Zenon
  <2>5. CASE svc = "blocked"
    BY <1>1, <1>6, <2>1, <2>5, Zenon
  <2>6. CASE svc = "run"
    BY <1>3, <2>1, <2>6, Zenon
  <2>7. svc # "deadlock"
    BY <1>1, <2>1, Zenon DEF HungUp
  <2> QED BY <2>3, <2>4, <2>5, <2>6, <2>7, Zenon DEF TypeOK
<1>20. CASE UNCHANGED vars
  <2>1. UNCHANGED <<kind, tcp, svc, conn, appOpen, rx, tx>>
    BY <1>20, Zenon DEF vars
  <2> QED BY <2>1, Zenon DEF StopsExplained, Greeting, Stuck, HungUp
<1> QED BY <1>8, <1>10, <1>11, <1>12, <1>15, <1>16, <1>17, <1>18, <1>19, <1>20, Zenon
    DEF Next

-----------------------------------------------------------------------------
(* Theorems                                                                *)

\* A connection starts with empty buffers.
LEMMA InitIInv == Init => IInv
<1> SUFFICES ASSUME Init PROVE IInv
  OBVIOUS
<1>1. /\ svc = "run" /\ pc = "poll" /\ ready = {} /\ sending = 0
      /\ conn = TRUE /\ phy = TRUE /\ notify = FALSE /\ appOpen = TRUE /\ torn = FALSE
      /\ kind \in {"connected", "accepted"}
      /\ tcp = IF kind = "connected" THEN "synSent" ELSE "est"
  BY Zenon DEF Init
<1>2. rx = Silent /\ rx \in RxType /\ rx.peer = 0 /\ rx.buf = <<>> /\ rx.sock = <<>>
      /\ rx.app = <<>>
  <2>1. rx = Silent
    BY Zenon DEF Init, Silent
  <2> QED BY <2>1, OneByte DEF Silent, RxType
<1>3. tx \in TxType /\ tx.app = 0 /\ tx.buf = <<>> /\ tx.sock = <<>> /\ tx.out = <<>>
      /\ tx.peer = <<>>
  BY OneByte DEF Init, TxType
<1>4. /\ tcp \in {"synSent", "est"} /\ tcp # "closeWait" /\ Greeting = <<>>
      /\ (tcp = "synSent" => kind = "connected")
  BY <1>1 DEF Greeting
<1>5. 0 <= TxCap /\ 0 <= OutCap /\ 0 \in 0 .. 0 /\ 0 <= 0 /\ 0 + 0 + 0 - 0 <= 0 + 0
  BY PicoConnAssumption
<1>6. TxOK(tx) /\ RxOK(rx, sending)
  BY <1>1, <1>2, <1>3, <1>5, OneByte, Zenon DEF TxOK, RxOK
<1>7. CtlType
  BY <1>1, <1>4, Zenon DEF CtlType
<1>8. TypeOK
  BY <1>1, <1>6, <1>7, Zenon DEF TypeOK, TxOK, RxOK, TxType, RxType, CtlType
<1>9. Control
  <2>1. svc # "blocked" /\ Held
    BY <1>1 DEF Held
  <2> QED BY <1>1, <1>2, <1>4, <2>1, Zenon DEF Control, Silent
<1>10. Numbers(0, 0) = <<>>
  BY OneByte, NumbersNone, Zenon
<1>11. TxInv
  <2>1. Numbered(tx, 0, 0, 0)
    BY <1>3, <1>5, <1>10, Zenon DEF Numbered
  <2> QED BY <1>1, <1>3, <1>5, <2>1, Zenon DEF TxInv, Streams
<1>12. RxInv
  <2>1. RxBound
    BY <1>1, <1>2, <1>4, <1>5, OneByte, Zenon DEF RxBound
  <2>2. Drop(<<>>, 0) = <<>> /\ <<>> \o <<>> = <<>>
    BY OneByte, DropNone, ConcatEmptySeq, Zenon
  <2>3. RxIntact
    BY <1>1, <1>2, <1>4, <1>10, <2>2, Zenon DEF RxIntact
  <2> QED BY <1>6, <2>1, <2>3, Zenon DEF RxInv
<1>13. RxNotified
  BY <1>2, Zenon DEF RxNotified
<1>14. StopsExplained
  BY <1>1 DEF StopsExplained, Stuck
<1> QED BY <1>8, <1>9, <1>11, <1>12, <1>13, <1>14, Zenon DEF IInv

\* Every step of the loop, the stack and the application keeps the invariant.
LEMMA NextIInv == IInv /\ [Next]_vars => IInv'
<1> SUFFICES ASSUME IInv, [Next]_vars PROVE IInv'
  OBVIOUS
<1>1. TypeOK /\ Control /\ TxInv /\ RxInv /\ RxNotified /\ StopsExplained
  BY Zenon DEF IInv
<1>2. TxOK(tx)' /\ TxInv'
  BY <1>1, TxStep, ZenonT(60)
<1>3. /\ RxInv' /\ RxNotified' /\ torn' \in BOOLEAN /\ notify' \in BOOLEAN
      /\ Held'
  BY <1>1, RxStep, Zenon
<1>4. CtlType'
  BY <1>1, CtlTypeStep, Zenon
<1>5. TypeOK'
  BY <1>2, <1>3, <1>4, Zenon DEF TypeOK, TxOK, RxInv, RxOK, TxType, RxType, CtlType
<1>6. Control'
  BY <1>1, <1>3, ControlStep, Zenon
<1>7. StopsExplained'
  BY <1>1, <1>3, StopsStep, Zenon
<1> QED BY <1>2, <1>3, <1>5, <1>6, <1>7, Zenon DEF IInv

\* The invariant holds in every behaviour of the loop, the stack and the
\* application.
THEOREM Invariance == Spec => []IInv
BY InitIInv, NextIInv, PTL DEF Spec

\* The buffers of pico_cb_tcp_read, pico_handleRead and pico_handleWrite stay
\* within their bounds as long as the loop runs.
THEOREM TypeCorrect == Spec => []TypeOK
<1>1. IInv => TypeOK
  BY DEF IInv
<1> QED BY Invariance, <1>1, PTL

\* What the application reads, its socket and rxbuf are the peer's stream.
THEOREM RxCorrect == Spec => []RxIntact
<1>1. IInv => RxIntact
  BY DEF IInv, RxInv
<1> QED BY Invariance, <1>1, PTL

\* pico_cb_tcp_read and pico_handleRead lose no wakeup.
THEOREM NotifiedCorrect == Spec => []RxNotified
<1>1. IInv => RxNotified
  BY DEF IInv
<1> QED BY Invariance, <1>1, PTL

\* The loop stops only for the reasons that StopsExplained lists.
THEOREM StopsCorrect == Spec => []StopsExplained
<1>1. IInv => StopsExplained
  BY DEF IInv
<1> QED BY Invariance, <1>1, PTL

\* A shorter prefix of the stream is continued by a longer one.
LEMMA PrefixContinues ==
  ASSUME NEW m \in Nat, NEW n \in Nat, m <= n
  PROVE  TxPipe!Continues(Numbers(0, m), Numbers(0, n))
<1>1. 0 \in Nat /\ 0 <= m /\ 0 <= n /\ m \in 0 .. n - 0 /\ 0 + m = m
      /\ m - 0 = m /\ n - 0 = n
  OBVIOUS
<1>2. Len(Numbers(0, m)) = m - 0 /\ Len(Numbers(0, n)) = n - 0
  BY <1>1, NumbersType, ZenonT(60)
<1>3. Take(Numbers(0, n), m) = Numbers(0, 0 + m)
  BY <1>1, Parted, Zenon
<1> QED BY <1>1, <1>2, <1>3, Zenon DEF TxPipe!Continues, Take

\* phyOnUnixData, pico_handleWrite and pico_cb_tcp_write implement a stream
\* between the application and the peer.
THEOREM Refinement == Spec => TxIsPipe
<1>1. Init => TxPipe!Init
  <2> SUFFICES ASSUME Init PROVE TxPipe!Init
    OBVIOUS
  <2>1. tx.app = 0 /\ tx.peer = <<>>
    BY DEF Init
  <2>2. Numbers(0, 0) = <<>>
    BY OneByte, NumbersNone, Zenon
  <2> QED BY <2>1, <2>2, Zenon DEF TxPipe!Init
<1>2. IInv /\ [Next]_vars => [TxPipe!Next]_<<Numbers(0, tx.app), tx.peer>>
  <2> SUFFICES ASSUME IInv, [Next]_vars
               PROVE  \/ TxPipe!Next
                      \/ UNCHANGED <<Numbers(0, tx.app), tx.peer>>
    OBVIOUS
  <2>1. TxOK(tx) /\ TxInv /\ conn \in BOOLEAN /\ tx.app \in Nat /\ Control
    <3>1. TxOK(tx) /\ tx \in TxType /\ TxInv /\ conn \in BOOLEAN /\ Control
      BY Zenon DEF IInv, TypeOK, TxOK, TxType
    <3> QED BY <3>1, TxFields, ZenonT(60)
  <2>2. conn => Streams(tx)
    BY <2>1, Zenon DEF TxInv
  <2>3. ASSUME NEW k \in 1 .. SockCap, AppWrite(k) PROVE TxPipe!Write
    <3>1. conn
      BY <2>1, <2>3, Zenon DEF AppWrite, Control
    <3>2. tx'.peer = tx.peer /\ tx'.app = tx.app + k
      BY <2>1, <2>2, <2>3, <3>1, AppWriteTx, ZenonT(60)
    <3>3. tx.app + k \in Nat /\ tx.app <= tx.app + k
      BY <2>1, PicoConnAssumption
    <3>4. TxPipe!Continues(Numbers(0, tx.app), Numbers(0, tx.app + k))
      BY <2>1, <3>3, PrefixContinues, Zenon
    <3> QED BY <3>2, <3>4, Zenon DEF TxPipe!Write
  <2>4. ASSUME NEW k \in 1 .. Len(tx.out), TcpWrite(k) PROVE TxPipe!Read
    <3>1. tx'.app = tx.app
      BY <2>1, <2>4, TcpWriteTx, ZenonT(60)
    <3>2. PICK a, b \in 0 .. tx.app :
            a <= b /\ tx.peer = Numbers(0, a) /\ tx'.peer = Numbers(0, b)
      BY <2>1, <2>4, TcpWriteTx, ZenonT(60)
    <3>3. a \in Nat /\ b \in Nat /\ b <= tx.app
      BY <2>1
    <3>4. /\ TxPipe!Continues(Numbers(0, a), Numbers(0, b))
          /\ TxPipe!Continues(Numbers(0, b), Numbers(0, tx.app))
      BY <2>1, <3>2, <3>3, PrefixContinues, Zenon
    <3> QED BY <3>1, <3>2, <3>4, Zenon DEF TxPipe!Read
  <2>5. CASE Readable \/ Established \/ EvClose
    <3>1. tx'.peer = tx.peer /\ tx'.app = tx.app
      <4>1. CASE Readable
        <5>1. conn /\ (UnixData \/ tx' = tx)
          BY <2>1, <4>1, Zenon DEF Readable, Control
        <5> QED BY <2>1, <2>2, <5>1, UnixDataTx, ZenonT(60)
      <4>2. CASE Established
        <5>1. tcp # "closeWait"
          BY <4>2 DEF Established
        <5>2. conn
          BY <2>1, <5>1, Zenon DEF Control
        <5> QED BY <2>1, <2>2, <4>2, <5>2, EstablishedTx, ZenonT(60)
      <4>3. CASE EvClose
        <5>1. tcp # "closeWait"
          BY <4>3 DEF EvClose
        <5>2. conn
          BY <2>1, <5>1, Zenon DEF Control
        <5> QED BY <2>1, <2>2, <4>3, <5>2, EvCloseTx, ZenonT(60)
      <4> QED BY <2>5, <4>1, <4>2, <4>3, Zenon
    <3> QED BY <3>1, Zenon
  <2>6. CASE Poll \/ Writable \/ Unblock \/ TickDone \/ AppClose
             \/ (\E k \in 1 .. MaxSeg : TcpRead(k)) \/ Reads \/ UNCHANGED vars
    <3>1. tx' = tx
      BY <2>6, Zenon DEF Poll, Writable, Unblock, TickDone, AppClose, TcpRead, Reads,
         AppRead, vars
    <3> QED BY <3>1, Zenon
  <2> QED BY <2>3, <2>4, <2>5, <2>6, Zenon DEF Next, Acknowledged, TxPipe!Next
<1> QED BY <1>1, <1>2, Invariance, PTL DEF Spec, TxIsPipe, TxPipe!Spec

=============================================================================
