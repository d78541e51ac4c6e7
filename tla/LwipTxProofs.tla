---------------------------- MODULE LwipTxProofs ----------------------------
(***************************************************************************)
(* Proofs about the sending side of the lwIP driver, for buffers of any    *)
(* size and any number of bytes: what lwIP gets is the application's       *)
(* stream, and a socket that is not read has a reason.                     *)
(*                                                                         *)
(* The inductive invariant numbers the bytes of every buffer.  Between     *)
(* tcp_write and the update of txsz the bytes that lwIP took are in both   *)
(* buffers (Taken).                                                        *)
(***************************************************************************)
EXTENDS LwipTx, SequenceTheorems, TLAPS

Taken == IF loop = "shift" THEN Room ELSE 0

\* The peer has the bytes up to the a-th and lwIP those up to the h-th;
\* txbuf has the ones from the t-th up to the f-th, and the socket the rest.
Numbered(a, h, t, f) ==
  /\ a <= h /\ t <= f /\ f <= written /\ t + Taken = h
  /\ peer = Numbers(0, a)
  /\ out = Numbers(a, h)
  /\ txbuf = Numbers(t, f)
  /\ sock = Numbers(f, written)

StreamInv == \E a, h, t, f \in 0 .. written : Numbered(a, h, t, f)

FlowInv ==
  /\ loop \in {"write", "tcpWrite", "off", "probation", "shift"} => txbuf # <<>>
  /\ loop = "tcpWrite" => sndbuf > 0 /\ sndbuf + Len(out) <= SndCap
  /\ loop = "shift" => \/ readable \/ probation \/ core # "idle"
                       \/ out # <<>> \/ Len(txbuf) > Room

IInv == TypeOK /\ StreamInv /\ FlowInv /\ UnreadHasCause

-----------------------------------------------------------------------------
(* Buffers of numbered bytes                                               *)

\* A buffer of numbered bytes, and how many it holds.
LEMMA NumbersType ==
  ASSUME NEW m \in Nat, NEW n \in Nat, m <= n
  PROVE  /\ Numbers(m, n) \in Seq(Nat) /\ Len(Numbers(m, n)) = n - m
         /\ DOMAIN Numbers(m, n) = 1 .. n - m
         /\ \A i \in 1 .. n - m : Numbers(m, n)[i] = m + i
<1>1. n - m \in Nat /\ \A i \in 1 .. n - m : m + i \in Nat
  OBVIOUS
<1>2. Numbers(m, n) \in [1 .. n - m -> Nat]
  BY <1>1 DEF Numbers
<1> QED BY <1>1, <1>2 DEF Numbers

\* Appending what follows.
LEMMA Joined ==
  ASSUME NEW m \in Nat, NEW n \in Nat, NEW k \in Nat, m <= n, n <= k
  PROVE  Numbers(m, n) \o Numbers(n, k) = Numbers(m, k)
<1> DEFINE a == Numbers(m, n)
           b == Numbers(n, k)
           c == Numbers(m, k)
<1>0. m <= k
  OBVIOUS
<1>1. /\ a \in Seq(Nat) /\ Len(a) = n - m /\ \A i \in 1 .. n - m : a[i] = m + i
      /\ b \in Seq(Nat) /\ Len(b) = k - n /\ \A i \in 1 .. k - n : b[i] = n + i
      /\ c \in Seq(Nat) /\ Len(c) = k - m /\ \A i \in 1 .. k - m : c[i] = m + i
  BY <1>0, NumbersType, Zenon
<1> HIDE DEF a, b, c
<1>2. /\ a \o b \in Seq(Nat) /\ Len(a \o b) = Len(a) + Len(b)
      /\ \A i \in 1 .. Len(a) + Len(b) :
           (a \o b)[i] = IF i <= Len(a) THEN a[i] ELSE b[i - Len(a)]
  BY <1>1, ConcatProperties, Zenon
<1>3. Len(a) + Len(b) = k - m
  BY <1>1
<1>4. ASSUME NEW i \in 1 .. k - m PROVE (a \o b)[i] = c[i]
  <2>1. (a \o b)[i] = IF i <= Len(a) THEN a[i] ELSE b[i - Len(a)]
    BY <1>2, <1>3
  <2>2. i <= n - m => i \in 1 .. n - m
    OBVIOUS
  <2>3. ~(i <= n - m) => i - (n - m) \in 1 .. k - n
    OBVIOUS
  <2>4. c[i] = m + i
    BY <1>1
  <2> QED BY <1>1, <2>1, <2>2, <2>3, <2>4
<1>5. a \o b = c
  <2>1. Len(a \o b) = Len(c)
    BY <1>1, <1>2, <1>3
  <2>2. \A i \in 1 .. Len(a \o b) : (a \o b)[i] = c[i]
    BY <1>2, <1>3, <1>4
  <2> QED BY <1>1, <1>2, <2>1, <2>2, SeqEqual
<1> QED BY <1>5 DEF a, b, c

\* Taking the first k bytes out.
LEMMA Parted ==
  ASSUME NEW m \in Nat, NEW n \in Nat, m <= n, NEW k \in 0 .. n - m
  PROVE  /\ Take(Numbers(m, n), k) = Numbers(m, m + k)
         /\ Drop(Numbers(m, n), k) = Numbers(m + k, n)
<1> DEFINE a == Numbers(m, n)
           b == Numbers(m, m + k)
           c == Numbers(m + k, n)
<1>0. m + k \in Nat /\ m <= m + k /\ m + k <= n
  OBVIOUS
<1>1. /\ a \in Seq(Nat) /\ Len(a) = n - m /\ \A i \in 1 .. n - m : a[i] = m + i
      /\ b \in Seq(Nat) /\ Len(b) = (m + k) - m /\ \A i \in 1 .. (m + k) - m : b[i] = m + i
      /\ c \in Seq(Nat) /\ Len(c) = n - (m + k) /\ \A i \in 1 .. n - (m + k) : c[i] = (m + k) + i
  BY <1>0, NumbersType
<1> HIDE DEF a, b, c
<1>2. SubSeq(a, 1, k) = b
  <2>1. SubSeq(a, 1, k) \in Seq(Nat) /\ Len(SubSeq(a, 1, k)) = Len(b)
    BY <1>1, SMTT(60)
  <2>2. \A i \in 1 .. Len(b) : SubSeq(a, 1, k)[i] = b[i]
    BY <1>1
  <2> QED BY <1>1, <2>1, <2>2, SMTT(60)
<1>3. SubSeq(a, k + 1, Len(a)) = c
  <2>1. SubSeq(a, k + 1, Len(a)) \in Seq(Nat) /\ Len(SubSeq(a, k + 1, Len(a))) = Len(c)
    BY <1>1, SMTT(60)
  <2>2. \A i \in 1 .. Len(c) : SubSeq(a, k + 1, Len(a))[i] = c[i]
    BY <1>1
  <2> QED BY <1>1, <2>1, <2>2, SMTT(60)
<1> QED BY <1>2, <1>3 DEF a, b, c, Take, Drop

-----------------------------------------------------------------------------
(* The stream                                                              *)

\* The lengths of the buffers.
LEMMA Lengths ==
  ASSUME written \in Nat, NEW a \in 0 .. written, NEW h \in 0 .. written,
         NEW t \in 0 .. written, NEW f \in 0 .. written, Numbered(a, h, t, f)
  PROVE  /\ a \in Nat /\ h \in Nat /\ t \in Nat /\ f \in Nat
         /\ a <= h /\ t <= f /\ f <= written
         /\ Len(peer) = a /\ Len(out) = h - a /\ Len(txbuf) = f - t
         /\ Len(sock) = written - f
<1>1. a \in Nat /\ h \in Nat /\ t \in Nat /\ f \in Nat /\ 0 <= a /\ 0 \in Nat
  OBVIOUS
<1>2. a <= h /\ t <= f /\ f <= written
  BY DEF Numbered
<1>3. /\ Len(Numbers(0, a)) = a - 0 /\ Len(Numbers(a, h)) = h - a
      /\ Len(Numbers(t, f)) = f - t /\ Len(Numbers(f, written)) = written - f
  BY <1>1, <1>2, NumbersType, Zenon
<1>4. /\ Len(peer) = a - 0 /\ Len(out) = h - a /\ Len(txbuf) = f - t
      /\ Len(sock) = written - f
  BY <1>3, Zenon DEF Numbered
<1> QED BY <1>1, <1>2, <1>4

\* The application appends to the stream.
LEMMA AppWriteStream ==
  ASSUME TypeOK, StreamInv, NEW k \in 1 .. SockCap, AppWrite(k)
  PROVE  StreamInv'
<1>1. PICK a, h, t, f \in 0 .. written : Numbered(a, h, t, f)
  BY DEF StreamInv
<1>2. written \in Nat /\ k \in Nat /\ written + k \in Nat
  BY LwipTxAssumption DEF TypeOK
<1>3. /\ a \in Nat /\ h \in Nat /\ t \in Nat /\ f \in Nat
      /\ a <= h /\ t <= f /\ f <= written
  BY <1>1, <1>2, Lengths
<1>4. /\ written' = written + k
      /\ sock' = sock \o Numbers(written, written + k)
      /\ UNCHANGED <<peer, out, txbuf, loop, sndbuf>>
  BY DEF AppWrite
<1>0. written <= written + k
  BY <1>2
<1>5. sock' = Numbers(f, written + k)
  <2>1. Numbers(f, written) \o Numbers(written, written + k) = Numbers(f, written + k)
    BY <1>0, <1>2, <1>3, Joined, Zenon
  <2> QED BY <1>1, <1>4, <2>1, Zenon DEF Numbered
<1>6. Taken' = Taken
  BY <1>4, Zenon DEF Taken, Room
<1>7. a \in 0 .. written' /\ h \in 0 .. written' /\ t \in 0 .. written'
      /\ f \in 0 .. written' /\ f <= written'
  BY <1>2, <1>3, <1>4
<1>8. Numbered(a, h, t, f)'
  BY <1>1, <1>4, <1>5, <1>6, <1>7, Zenon DEF Numbered
<1> QED BY <1>7, <1>8, Zenon DEF StreamInv

\* phyOnUnixData moves n bytes from the socket to txbuf.
LEMMA UnixDataStream ==
  ASSUME TypeOK, StreamInv, NEW n \in 0 .. Len(sock), UnixData(n)
  PROVE  StreamInv'
<1>1. PICK a, h, t, f \in 0 .. written : Numbered(a, h, t, f)
  BY DEF StreamInv
<1>2. written \in Nat
  BY DEF TypeOK
<1>3. /\ a \in Nat /\ h \in Nat /\ t \in Nat /\ f \in Nat
      /\ a <= h /\ t <= f /\ f <= written /\ Len(sock) = written - f
  BY <1>1, <1>2, Lengths
<1>4. n \in 0 .. written - f /\ f + n \in 0 .. written /\ f + n \in Nat
      /\ f <= f + n /\ t <= f + n /\ f + n <= written
  BY <1>2, <1>3
<1>5. /\ sock' = Drop(sock, n) /\ txbuf' = txbuf \o Take(sock, n)
      /\ loop = "idle" /\ loop' = "write"
      /\ UNCHANGED <<written, out, peer>>
  BY DEF UnixData
<1>6. sock' = Numbers(f + n, written) /\ Take(sock, n) = Numbers(f, f + n)
  BY <1>1, <1>2, <1>3, <1>4, <1>5, Parted, ZenonT(60) DEF Numbered
<1>7. txbuf' = Numbers(t, f + n)
  <2>1. Numbers(t, f) \o Numbers(f, f + n) = Numbers(t, f + n)
    BY <1>3, <1>4, Joined, Zenon
  <2> QED BY <1>1, <1>5, <1>6, <2>1, Zenon DEF Numbered
<1>8. Taken = 0 /\ Taken' = 0
  BY <1>5, Zenon DEF Taken
<1>9. Numbered(a, h, t, f + n)'
  BY <1>1, <1>4, <1>5, <1>6, <1>7, <1>8, Zenon DEF Numbered
<1> QED BY <1>4, <1>5, <1>9, Zenon DEF StreamInv

\* tcp_write copies bytes from txbuf to lwIP.
LEMMA TcpWriteStream ==
  ASSUME TypeOK, StreamInv, loop = "tcpWrite", loop' = "shift",
         out' = out \o Take(txbuf, Room),
         UNCHANGED <<written, sock, txbuf, peer, sndbuf>>
  PROVE  StreamInv'
<1>1. PICK a, h, t, f \in 0 .. written : Numbered(a, h, t, f)
  BY DEF StreamInv
<1>2. written \in Nat /\ sndbuf \in Nat
  BY LwipTxAssumption DEF TypeOK
<1>3. /\ a \in Nat /\ h \in Nat /\ t \in Nat /\ f \in Nat
      /\ a <= h /\ t <= f /\ f <= written /\ Len(txbuf) = f - t
  BY <1>1, <1>2, Lengths
<1>4. PICK r \in 0 .. f - t : r = Room
  <2>1. Room \in 0 .. f - t
    BY <1>2, <1>3 DEF Room, Lesser
  <2> QED BY <2>1, Zenon
<1>5. Taken = 0 /\ Taken' = r
  BY <1>4 DEF Taken, Room
<1>6. t = h
  BY <1>1, <1>3, <1>5 DEF Numbered
<1>7. h + r \in 0 .. written /\ h + r \in Nat /\ h <= h + r /\ a <= h + r
  BY <1>2, <1>3, <1>4, <1>6
<1>8. Take(txbuf, r) = Numbers(h, h + r)
  <2>1. Take(Numbers(t, f), r) = Numbers(t, t + r)
    BY <1>3, <1>4, Parted, Zenon
  <2> QED BY <1>1, <1>6, <2>1, Zenon DEF Numbered
<1>9. out' = Numbers(a, h + r)
  <2>1. Numbers(a, h) \o Numbers(h, h + r) = Numbers(a, h + r)
    BY <1>3, <1>7, Joined, Zenon
  <2> QED BY <1>1, <1>4, <1>8, <2>1, Zenon DEF Numbered
<1>10. Numbered(a, h + r, t, f)'
  BY <1>1, <1>3, <1>5, <1>6, <1>7, <1>9, Zenon DEF Numbered
<1> QED BY <1>7, <1>10, Zenon DEF StreamInv

\* The bytes that lwIP took leave txbuf.
LEMMA ShiftStream == ASSUME TypeOK, StreamInv, Shift PROVE StreamInv'
<1>1. PICK a, h, t, f \in 0 .. written : Numbered(a, h, t, f)
  BY DEF StreamInv
<1>2. written \in Nat /\ sndbuf \in Nat
  BY LwipTxAssumption DEF TypeOK
<1>3. /\ a \in Nat /\ h \in Nat /\ t \in Nat /\ f \in Nat
      /\ a <= h /\ t <= f /\ f <= written /\ Len(txbuf) = f - t
  BY <1>1, <1>2, Lengths
<1>4. PICK r \in 0 .. f - t : r = Room
  <2>1. Room \in 0 .. f - t
    BY <1>2, <1>3 DEF Room, Lesser
  <2> QED BY <2>1, Zenon
<1>5. /\ loop = "shift" /\ loop' = "idle" /\ txbuf' = Drop(txbuf, r)
      /\ UNCHANGED <<written, sock, out, peer>>
  BY <1>4 DEF Shift
<1>6. Taken = r /\ Taken' = 0
  BY <1>4, <1>5, Zenon DEF Taken
<1>7. t + r = h
  BY <1>1, <1>6, Zenon DEF Numbered
<1>8. txbuf' = Numbers(h, f)
  <2>1. Drop(Numbers(t, f), r) = Numbers(t + r, f)
    BY <1>3, <1>4, Parted, Zenon
  <2> QED BY <1>1, <1>5, <1>7, <2>1, Zenon DEF Numbered
<1>9. h <= f /\ h + 0 = h
  BY <1>3, <1>4, <1>7
<1>10. Numbered(a, h, h, f)'
  BY <1>1, <1>5, <1>6, <1>8, <1>9, Zenon DEF Numbered
<1> QED BY <1>5, <1>10, Zenon DEF StreamInv

\* An acknowledgement moves bytes from lwIP to the peer, and the peer has a
\* longer prefix of the stream than before.
LEMMA AckStream ==
  ASSUME TypeOK, StreamInv, NEW k \in 1 .. Len(out), Ack(k)
  PROVE  StreamInv'
<1>1. PICK a, h, t, f \in 0 .. written : Numbered(a, h, t, f)
  BY DEF StreamInv
<1>2. written \in Nat
  BY DEF TypeOK
<1>3. /\ a \in Nat /\ h \in Nat /\ t \in Nat /\ f \in Nat
      /\ a <= h /\ t <= f /\ f <= written /\ Len(out) = h - a
  BY <1>1, <1>2, Lengths
<1>4. k \in 0 .. h - a /\ a + k \in 0 .. written /\ a + k \in Nat /\ 0 <= a
      /\ a <= a + k /\ a + k <= h /\ 0 \in Nat
  BY <1>2, <1>3
<1>5. /\ peer' = peer \o Take(out, k) /\ out' = Drop(out, k)
      /\ UNCHANGED <<written, sock, txbuf, loop, sndbuf>>
  BY DEF Ack
<1>6. out' = Numbers(a + k, h) /\ Take(out, k) = Numbers(a, a + k)
  BY <1>1, <1>3, <1>4, <1>5, Parted, ZenonT(60) DEF Numbered
<1>7. peer' = Numbers(0, a + k)
  <2>1. Numbers(0, a) \o Numbers(a, a + k) = Numbers(0, a + k)
    BY <1>3, <1>4, Joined, Zenon
  <2> QED BY <1>1, <1>5, <1>6, <2>1, Zenon DEF Numbered
<1>8. Taken' = Taken
  BY <1>5, Zenon DEF Taken, Room
<1>9. Numbered(a + k, h, t, f)'
  BY <1>1, <1>4, <1>5, <1>6, <1>7, <1>8, Zenon DEF Numbered
<1> QED BY <1>4, <1>5, <1>9, Zenon DEF StreamInv

\* The other steps move no bytes.
LEMMA QuietStream ==
  ASSUME StreamInv, UNCHANGED <<written, sock, txbuf, out, peer>>, Taken' = Taken
  PROVE  StreamInv'
BY ZenonT(60) DEF StreamInv, Numbered

\* A buffer without its first n bytes, and those bytes.
LEMMA Cut ==
  ASSUME NEW s \in Seq(Nat), NEW n \in 0 .. Len(s)
  PROVE  /\ Drop(s, n) \in Seq(Nat) /\ Len(Drop(s, n)) = Len(s) - n
         /\ Take(s, n) \in Seq(Nat) /\ Len(Take(s, n)) = n
<1>1. Len(s) \in Nat /\ n \in Nat /\ \A i \in 1 .. Len(s) : s[i] \in Nat
  OBVIOUS
<1> QED BY <1>1 DEF Drop, Take

\* Room is at most what txbuf holds and what lwIP has room for, and is
\* nothing only if one of the two is.
LEMMA RoomFacts ==
  ASSUME TypeOK
  PROVE  /\ Room \in 0 .. Len(txbuf) /\ Room <= sndbuf /\ Room < TxCap
         /\ Len(txbuf) \in Nat
         /\ txbuf # <<>> /\ sndbuf > 0 => Room > 0
<1>1. txbuf \in Seq(Nat) /\ sndbuf \in 0 .. SndCap /\ SndCap \in Nat
      /\ TxCap \in Nat /\ SndCap < TxCap
  BY LwipTxAssumption DEF TypeOK
<1>2. Len(txbuf) \in Nat /\ (txbuf # <<>> => Len(txbuf) > 0)
  BY <1>1
<1> QED BY <1>1, <1>2 DEF Room, Lesser

-----------------------------------------------------------------------------
(* Flow control                                                            *)

\* What the two threads know of each other's steps.
Flow == TypeOK /\ FlowInv /\ UnreadHasCause

\* Writing to the socket does not touch the flow control.
LEMMA AppWriteFlow ==
  ASSUME Flow, NEW k \in 1 .. SockCap, AppWrite(k)
  PROVE  Flow'
<1>1. written \in Nat /\ k \in Nat /\ sock \in Seq(Nat) /\ MaxTx \in Nat
      /\ SockCap \in Nat
  BY LwipTxAssumption DEF Flow, TypeOK
<1>2. /\ written + k <= MaxTx /\ Len(sock) + k <= SockCap /\ written' = written + k
      /\ sock' = sock \o Numbers(written, written + k)
      /\ UNCHANGED <<txbuf, out, peer, readable, probation, loop, sndbuf, core, overrun>>
  BY DEF AppWrite
<1>3. /\ written + k \in Nat /\ written <= written + k
      /\ Numbers(written, written + k) \in Seq(Nat)
      /\ Len(Numbers(written, written + k)) = k
  <2>1. written + k \in Nat /\ written <= written + k /\ (written + k) - written = k
    BY <1>1
  <2> QED BY <1>1, <2>1, NumbersType, Zenon
<1>4. written' \in 0 .. MaxTx /\ sock' \in Seq(Nat) /\ Len(sock') <= SockCap
  BY <1>1, <1>2, <1>3
<1>5. TypeOK'
  BY <1>2, <1>4 DEF Flow, TypeOK
<1> QED BY <1>2, <1>5 DEF Flow, FlowInv, UnreadHasCause, Room

\* Reading the socket leaves txbuf with something to write.
LEMMA UnixDataFlow ==
  ASSUME Flow, NEW n \in 1 .. Len(sock), UnixData(n)
  PROVE  Flow'
<1>1. sock \in Seq(Nat) /\ txbuf \in Seq(Nat) /\ Len(sock) <= SockCap
      /\ TxCap \in Nat /\ SockCap \in Nat /\ n \in 0 .. Len(sock) /\ n > 0
  BY LwipTxAssumption DEF Flow, TypeOK
<1>2. /\ sock' = Drop(sock, n) /\ txbuf' = txbuf \o Take(sock, n)
      /\ overrun' = (Len(txbuf) + n > TxCap)
      /\ loop' = "write"
      /\ UNCHANGED <<written, out, peer, readable, probation, sndbuf, core>>
  BY DEF UnixData
<1>3. /\ Drop(sock, n) \in Seq(Nat) /\ Len(Drop(sock, n)) = Len(sock) - n
      /\ Take(sock, n) \in Seq(Nat) /\ Len(Take(sock, n)) = n
  BY <1>1, Cut
<1>4. sock' \in Seq(Nat) /\ Len(sock') <= SockCap
  BY <1>1, <1>2, <1>3
<1>5. txbuf' \in Seq(Nat) /\ Len(txbuf') = Len(txbuf) + n /\ Len(txbuf) \in Nat
  <2>1. txbuf \o Take(sock, n) \in Seq(Nat)
        /\ Len(txbuf \o Take(sock, n)) = Len(txbuf) + Len(Take(sock, n))
    BY <1>1, <1>3, ConcatProperties, Zenon
  <2>2. Len(txbuf) \in Nat
    BY <1>1
  <2> QED BY <1>2, <1>3, <2>1, <2>2, Zenon
<1>6. txbuf' # <<>>
  BY <1>1, <1>5
<1>7. overrun' \in BOOLEAN /\ (Len(txbuf') <= TxCap \/ overrun')
  <2>1. Len(txbuf) + n <= TxCap \/ Len(txbuf) + n > TxCap
    BY <1>1, <1>5
  <2>2. overrun' \in BOOLEAN
    BY <1>2
  <2> QED BY <1>2, <1>5, <2>1, <2>2, Zenon
<1>8. TypeOK'
  BY <1>2, <1>4, <1>5, <1>7, Zenon DEF Flow, TypeOK
<1> QED BY <1>2, <1>6, <1>8, Zenon DEF Flow, FlowInv, UnreadHasCause

\* The steps of the tap thread up to tcp_write.
LEMMA TimerFlow == ASSUME Flow, Timer PROVE Flow'
<1>1. /\ txbuf # <<>> /\ loop' = "write"
      /\ UNCHANGED <<written, sock, txbuf, out, peer, readable, probation, sndbuf,
                     core, overrun>>
  BY DEF Timer
<1> QED BY <1>1, Zenon DEF Flow, TypeOK, FlowInv, UnreadHasCause

\* A full control block leads to probation, which begins with the socket out
\* of _readfds.
LEMMA ReadSndbufFlow == ASSUME Flow, ReadSndbuf PROVE Flow'
<1>1. /\ sndbuf' = SndCap - Len(out) /\ loop = "write"
      /\ loop' \in {"tcpWrite", "idle", "off"}
      /\ loop' = "tcpWrite" => sndbuf' > 0
      /\ UNCHANGED <<written, sock, txbuf, out, peer, readable, probation, core,
                     overrun>>
  BY DEF ReadSndbuf
<1>2. out \in Seq(Nat) /\ Len(out) <= SndCap /\ SndCap \in Nat
  BY LwipTxAssumption DEF Flow, TypeOK
<1>3. sndbuf' \in 0 .. SndCap /\ sndbuf' + Len(out) <= SndCap
  BY <1>1, <1>2
<1>4. TypeOK'
  BY <1>1, <1>3, Zenon DEF Flow, TypeOK
<1>5. txbuf # <<>>
  BY <1>1 DEF Flow, FlowInv
<1> QED BY <1>1, <1>3, <1>4, <1>5, Zenon DEF Flow, FlowInv, UnreadHasCause

\* Probation begins.
LEMMA ProbationFlow == ASSUME Flow, StopReading \/ StartProbation PROVE Flow'
<1>1. CASE StopReading
  BY <1>1, Zenon DEF StopReading, Flow, TypeOK, FlowInv, UnreadHasCause
<1>2. CASE StartProbation
  BY <1>2, Zenon DEF StartProbation, Flow, TypeOK, FlowInv, UnreadHasCause
<1> QED BY <1>1, <1>2

\* tcp_write leaves bytes with lwIP, whose acknowledgement will come.
LEMMA TcpWriteFlow == ASSUME Flow, TcpWrite PROVE Flow'
<1>1. /\ loop = "tcpWrite"
      /\ UNCHANGED <<written, sock, txbuf, peer, readable, probation, sndbuf, core,
                     overrun>>
  BY DEF TcpWrite
<1>2. /\ out \in Seq(Nat) /\ txbuf \in Seq(Nat) /\ TypeOK
      /\ txbuf # <<>> /\ sndbuf > 0 /\ sndbuf + Len(out) <= SndCap
      /\ SndCap \in Nat /\ sndbuf \in Nat
  BY <1>1, LwipTxAssumption DEF Flow, FlowInv, TypeOK
<1>3. CASE out' = out \o Take(txbuf, Room) /\ loop' = "shift"
  <2>1. Room \in 0 .. Len(txbuf) /\ Room <= sndbuf /\ Room > 0
    BY <1>2, RoomFacts
  <2>2. Take(txbuf, Room) \in Seq(Nat) /\ Len(Take(txbuf, Room)) = Room
    BY <1>2, <2>1, Cut
  <2>3. out' \in Seq(Nat) /\ Len(out') = Len(out) + Room /\ Len(out) \in Nat
    <3>1. out \o Take(txbuf, Room) \in Seq(Nat)
          /\ Len(out \o Take(txbuf, Room)) = Len(out) + Len(Take(txbuf, Room))
      BY <1>2, <2>2, ConcatProperties, Zenon
    <3>2. Len(out) \in Nat
      BY <1>2
    <3> QED BY <1>3, <2>2, <3>1, <3>2, Zenon
  <2>4. Len(out') <= SndCap /\ out' # <<>>
    BY <1>2, <2>1, <2>3
  <2>5. TypeOK'
    BY <1>1, <1>2, <1>3, <2>3, <2>4, Zenon DEF TypeOK
  <2> QED BY <1>1, <1>2, <1>3, <2>4, <2>5, Zenon DEF Flow, FlowInv, UnreadHasCause
<1>4. CASE out # <<>> /\ loop' = "idle" /\ out' = out
  BY <1>1, <1>4, Zenon DEF Flow, TypeOK, FlowInv, UnreadHasCause
<1> QED BY <1>3, <1>4 DEF TcpWrite

\* When txbuf becomes empty, nc_sent has been or is still to come.
LEMMA ShiftFlow == ASSUME Flow, Shift PROVE Flow'
<1>1. /\ loop = "shift" /\ loop' = "idle" /\ txbuf' = Drop(txbuf, Room)
      /\ UNCHANGED <<written, sock, out, peer, readable, probation, sndbuf, core,
                     overrun>>
  BY DEF Shift
<1>2. TypeOK /\ txbuf \in Seq(Nat) /\ (Len(txbuf) <= TxCap \/ overrun) /\ TxCap \in Nat
  BY LwipTxAssumption DEF Flow, TypeOK
<1>3. Room \in 0 .. Len(txbuf) /\ Len(txbuf) \in Nat
  BY <1>2, RoomFacts
<1>4. txbuf' \in Seq(Nat) /\ Len(txbuf') = Len(txbuf) - Room
  BY <1>1, <1>2, <1>3, Cut
<1>5. Len(txbuf') <= TxCap \/ overrun
  BY <1>2, <1>3, <1>4
<1>6. TypeOK'
  BY <1>1, <1>2, <1>4, <1>5, Zenon DEF TypeOK
<1>7. Len(txbuf) > Room => txbuf' # <<>>
  BY <1>3, <1>4
<1> QED BY <1>1, <1>6, <1>7, Zenon DEF Flow, FlowInv, UnreadHasCause

\* An acknowledgement is followed by nc_sent.
LEMMA AckFlow == ASSUME Flow, NEW k \in 1 .. Len(out), Ack(k) PROVE Flow'
<1>1. /\ core' = "sent"
      /\ peer' = peer \o Take(out, k) /\ out' = Drop(out, k)
      /\ UNCHANGED <<written, sock, txbuf, readable, probation, loop, sndbuf,
                     overrun>>
  BY DEF Ack
<1>2. /\ out \in Seq(Nat) /\ peer \in Seq(Nat) /\ Len(out) <= SndCap
      /\ SndCap \in Nat /\ sndbuf \in Nat /\ k \in 0 .. Len(out)
  BY LwipTxAssumption DEF Flow, TypeOK
<1>3. /\ out' \in Seq(Nat) /\ Len(out') = Len(out) - k
      /\ Take(out, k) \in Seq(Nat)
  BY <1>1, <1>2, Cut
<1>4. peer' \in Seq(Nat) /\ Len(out') <= SndCap
  BY <1>1, <1>2, <1>3
<1>5. loop = "tcpWrite" => sndbuf + Len(out') <= SndCap
  <2>1. loop = "tcpWrite" => sndbuf + Len(out) <= SndCap
    BY DEF Flow, FlowInv
  <2> QED BY <1>2, <1>3, <2>1
<1>6. TypeOK'
  BY <1>1, <1>3, <1>4, Zenon DEF Flow, TypeOK
<1> QED BY <1>1, <1>5, <1>6, Zenon DEF Flow, FlowInv, UnreadHasCause

\* nc_sent takes up reading again, unless the connection stays on probation
\* or txbuf is full.
LEMMA SentFlow == ASSUME Flow, Sent PROVE Flow'
<1>0. TypeOK /\ TxCap \in Nat /\ txbuf \in Seq(Nat)
  BY LwipTxAssumption DEF Flow, TypeOK
<1>1. CASE TestProbation \/ EndProbation
  <2>1. /\ core' \in {"end", "test"} /\ probation' \in {probation, FALSE}
        /\ UNCHANGED <<written, sock, txbuf, out, peer, readable, loop, sndbuf,
                       overrun>>
    BY <1>1, Zenon DEF TestProbation, EndProbation
  <2>2. core' # "idle"
    BY <2>1
  <2>3. TypeOK'
    BY <1>0, <2>1, Zenon DEF TypeOK
  <2> QED BY <2>1, <2>2, <2>3, Zenon DEF Flow, FlowInv, UnreadHasCause
<1>2. CASE TestRoom
  <2>1. /\ core' \in {"resume", "idle"}
        /\ UNCHANGED <<written, sock, txbuf, out, peer, readable, probation, loop,
                       sndbuf, overrun>>
    BY <1>2, Zenon DEF TestRoom
  <2>2. ~(Len(txbuf) < TxCap) => txbuf # <<>> /\ Len(txbuf) > Room
    BY <1>0, RoomFacts, LwipTxAssumption
  <2>3. core' # "idle" \/ probation \/ ~(Len(txbuf) < TxCap)
    BY <1>2 DEF TestRoom
  <2>4. TypeOK'
    BY <1>0, <2>1, Zenon DEF TypeOK
  <2>5. Room' = Room
    BY <2>1 DEF Room
  <2> QED BY <2>1, <2>2, <2>3, <2>4, <2>5, Zenon DEF Flow, FlowInv, UnreadHasCause
<1>3. CASE Resume
  <2>1. /\ readable' = TRUE /\ core' = "idle"
        /\ UNCHANGED <<written, sock, txbuf, out, peer, probation, loop, sndbuf,
                       overrun>>
    BY <1>3, Zenon DEF Resume
  <2>2. TypeOK'
    BY <1>0, <2>1, Zenon DEF TypeOK
  <2> QED BY <2>1, <2>2, Zenon DEF Flow, FlowInv, UnreadHasCause
<1> QED BY <1>1, <1>2, <1>3, Zenon DEF Sent

-----------------------------------------------------------------------------
(* The theorems                                                            *)

\* Both ways of reading the socket read at least one byte of it and at most
\* what it holds.
LEMMA ReadsFacts ==
  ASSUME TypeOK, Poll \/ ConnectionCheck
  PROVE  \E n \in 1 .. Len(sock) : UnixData(n)
<1>1. sock \in Seq(Nat) /\ CheckMax \in Nat \ {0} /\ sock # <<>>
  BY LwipTxAssumption DEF TypeOK, Poll, ConnectionCheck, UnixData
<1>2. Len(sock) \in Nat /\ Len(sock) > 0
  BY <1>1
<1>3. Len(sock) \in 1 .. Len(sock) /\ Lesser(Len(sock), CheckMax) \in 1 .. Len(sock)
  BY <1>1, <1>2 DEF Lesser
<1> QED BY <1>3, Zenon DEF Poll, ConnectionCheck

\* The invariant holds when the connection is established.
LEMMA InitIInv == Init => IInv
<1> SUFFICES ASSUME Init PROVE IInv
  OBVIOUS
<1>1. TypeOK
  <2>1. /\ 0 \in 0 .. MaxTx /\ 0 \in 0 .. SndCap
        /\ <<>> \in Seq(Nat) /\ Len(<<>>) <= SockCap /\ Len(<<>>) <= TxCap
        /\ Len(<<>>) <= SndCap
    BY LwipTxAssumption
  <2> QED BY <2>1, Zenon DEF Init, TypeOK
<1>2. StreamInv
  <2>1. Numbers(0, 0) = <<>>
    BY NumbersType
  <2>2. 0 \in 0 .. written /\ Taken = 0 /\ written = 0
    BY DEF Init, Taken
  <2>3. Numbered(0, 0, 0, 0)
    BY <2>1, <2>2 DEF Numbered, Init
  <2> QED BY <2>2, <2>3, Zenon DEF StreamInv
<1>3. FlowInv /\ UnreadHasCause
  BY DEF Init, FlowInv, UnreadHasCause
<1> QED BY <1>1, <1>2, <1>3 DEF IInv

\* The invariant survives every step of the three.
LEMMA NextIInv == ASSUME IInv, [Next]_vars PROVE IInv'
<1>1. Flow /\ TypeOK /\ StreamInv
  BY DEF IInv, Flow
<1>2. ASSUME NEW k \in 1 .. SockCap, AppWrite(k) PROVE IInv'
  BY <1>1, <1>2, AppWriteFlow, AppWriteStream, Zenon DEF IInv, Flow
<1>3. ASSUME Poll \/ ConnectionCheck PROVE IInv'
  <2>1. PICK n \in 1 .. Len(sock) : UnixData(n)
    BY <1>1, <1>3, ReadsFacts
  <2>2. n \in 0 .. Len(sock)
    BY <2>1
  <2> QED BY <1>1, <2>1, <2>2, UnixDataFlow, UnixDataStream, Zenon DEF IInv, Flow
<1>4. ASSUME Timer PROVE IInv'
  <2>1. UNCHANGED <<written, sock, txbuf, out, peer>> /\ Taken' = Taken
    BY <1>4, Zenon DEF Timer, Taken
  <2> QED BY <1>1, <1>4, <2>1, TimerFlow, QuietStream, Zenon DEF IInv, Flow
<1>5. ASSUME ReadSndbuf PROVE IInv'
  <2>1. UNCHANGED <<written, sock, txbuf, out, peer>> /\ Taken' = Taken
    BY <1>5 DEF ReadSndbuf, Taken
  <2> QED BY <1>1, <1>5, <2>1, ReadSndbufFlow, QuietStream, Zenon DEF IInv, Flow
<1>6. ASSUME StopReading \/ StartProbation PROVE IInv'
  <2>1. UNCHANGED <<written, sock, txbuf, out, peer>> /\ Taken' = Taken
    BY <1>6 DEF StopReading, StartProbation, Taken
  <2> QED BY <1>1, <1>6, <2>1, ProbationFlow, QuietStream, Zenon DEF IInv, Flow
<1>7. ASSUME TcpWrite PROVE IInv'
  <2>1. CASE out' = out \o Take(txbuf, Room) /\ loop' = "shift"
    <3>1. StreamInv'
      BY <1>1, <1>7, <2>1, TcpWriteStream, Zenon DEF TcpWrite
    <3> QED BY <1>1, <1>7, <3>1, TcpWriteFlow, Zenon DEF IInv, Flow
  <2>2. CASE loop' = "idle" /\ out' = out
    <3>1. UNCHANGED <<written, sock, txbuf, out, peer>> /\ Taken' = Taken
      BY <1>7, <2>2 DEF TcpWrite, Taken
    <3> QED BY <1>1, <1>7, <3>1, TcpWriteFlow, QuietStream, Zenon DEF IInv, Flow
  <2> QED BY <1>7, <2>1, <2>2, Zenon DEF TcpWrite
<1>8. ASSUME Shift PROVE IInv'
  BY <1>1, <1>8, ShiftFlow, ShiftStream, Zenon DEF IInv, Flow
<1>9. ASSUME NEW k \in 1 .. Len(out), Ack(k) PROVE IInv'
  BY <1>1, <1>9, AckFlow, AckStream, Zenon DEF IInv, Flow
<1>10. ASSUME Sent PROVE IInv'
  <2>1. UNCHANGED <<written, sock, txbuf, out, peer, loop, sndbuf>>
    BY <1>10 DEF Sent, TestProbation, EndProbation, TestRoom, Resume
  <2>2. Taken' = Taken
    BY <2>1 DEF Taken, Room
  <2> QED BY <1>1, <1>10, <2>1, <2>2, SentFlow, QuietStream, Zenon DEF IInv, Flow
<1>11. ASSUME UNCHANGED vars PROVE IInv'
  <2>1. UNCHANGED <<written, sock, txbuf, out, peer, readable, probation, loop,
                    sndbuf, core, overrun>>
    BY <1>11 DEF vars
  <2>2. UNCHANGED <<Taken, Room>>
    BY <2>1, Zenon DEF Taken, Room
  <2>3. StreamInv'
    BY <1>1, <2>1, <2>2, QuietStream, Zenon
  <2>4. Flow'
    BY <1>1, <2>1, <2>2, Zenon DEF Flow, TypeOK, FlowInv, UnreadHasCause
  <2> QED BY <2>3, <2>4, Zenon DEF IInv, Flow
<1> QED
  BY <1>2, <1>3, <1>4, <1>5, <1>6, <1>7, <1>8, <1>9, <1>10, <1>11, Zenon
  DEF Next, HandleWrite, Acknowledged

\* The invariant holds in every behaviour of the tap thread and the service
\* thread.
THEOREM Invariance == Spec => []IInv
BY InitIInv, NextIInv, PTL DEF Spec

\* lwip_handleWrite never gives lwIP more than it has room for, and txbuf is
\* exceeded only where phyOnUnixData does not look.
THEOREM TypeCorrect == Spec => []TypeOK
<1>1. IInv => TypeOK
  BY DEF IInv
<1> QED BY Invariance, <1>1, PTL

\* No interleaving of lwip_handleWrite and nc_sent leaves a socket unread
\* without probation and without an acknowledgement to come.
THEOREM UnreadCorrect == Spec => []UnreadHasCause
<1>1. IInv => UnreadHasCause
  BY DEF IInv
<1> QED BY Invariance, <1>1, PTL

\* A shorter prefix of the stream is continued by a longer one.
LEMMA PrefixContinues ==
  ASSUME NEW m \in Nat, NEW n \in Nat, m <= n
  PROVE  TxPipe!Continues(Numbers(0, m), Numbers(0, n))
<1>1. 0 \in Nat /\ 0 <= m /\ 0 <= n /\ m \in 0 .. n - 0 /\ 0 + m = m
  OBVIOUS
<1>2. Len(Numbers(0, m)) = m - 0 /\ Len(Numbers(0, n)) = n - 0
  BY <1>1, NumbersType, Zenon
<1>3. Take(Numbers(0, n), m) = Numbers(0, 0 + m)
  BY <1>1, Parted, Zenon
<1> QED BY <1>1, <1>2, <1>3 DEF TxPipe!Continues, Take

\* The driver implements a stream between the application and the peer.
THEOREM Refinement == Spec => TxIsPipe
<1>1. Init => TxPipe!Init
  BY NumbersType DEF Init, TxPipe!Init
<1>2. IInv /\ [Next]_vars => [TxPipe!Next]_<<Numbers(0, written), peer>>
  <2> SUFFICES ASSUME IInv, [Next]_vars
               PROVE  \/ TxPipe!Next
                      \/ UNCHANGED <<Numbers(0, written), peer>>
    OBVIOUS
  <2>1. TypeOK /\ StreamInv /\ written \in Nat
    BY LwipTxAssumption DEF IInv, TypeOK
  <2>2. ASSUME NEW k \in 1 .. SockCap, AppWrite(k) PROVE TxPipe!Write
    <3>1. written + k \in Nat /\ written <= written + k
      BY <2>1
    <3>2. written' = written + k /\ peer' = peer
      BY <2>2 DEF AppWrite
    <3>3. TxPipe!Continues(Numbers(0, written), Numbers(0, written + k))
      BY <2>1, <3>1, PrefixContinues
    <3> QED BY <3>2, <3>3, Zenon DEF TxPipe!Write
  <2>3. ASSUME NEW k \in 1 .. Len(out), Ack(k) PROVE TxPipe!Read
    <3>1. PICK a, h, t, f \in 0 .. written : Numbered(a, h, t, f)
      BY <2>1 DEF StreamInv
    <3>2. a \in Nat /\ h \in Nat /\ a <= h /\ Len(out) = h - a
      BY <2>1, <3>1, Lengths
    <3>3. k \in 0 .. h - a /\ a + k \in Nat /\ a <= a + k /\ a + k <= written
          /\ 0 \in Nat /\ 0 <= a
      BY <2>1, <3>1, <3>2
    <3>4. peer = Numbers(0, a) /\ out = Numbers(a, h)
      BY <3>1, Zenon DEF Numbered
    <3>5. Take(out, k) = Numbers(a, a + k)
      BY <3>2, <3>3, <3>4, Parted, Zenon
    <3>6. Numbers(0, a) \o Numbers(a, a + k) = Numbers(0, a + k)
      BY <3>2, <3>3, Joined, Zenon
    <3>7. peer' = Numbers(0, a + k) /\ written' = written
      BY <2>3, <3>4, <3>5, <3>6, Zenon DEF Ack
    <3>8. /\ TxPipe!Continues(Numbers(0, a), Numbers(0, a + k))
          /\ TxPipe!Continues(Numbers(0, a + k), Numbers(0, written))
      BY <2>1, <3>2, <3>3, PrefixContinues, Zenon
    <3> QED BY <3>4, <3>7, <3>8, Zenon DEF TxPipe!Read
  <2>4. ASSUME Poll \/ ConnectionCheck \/ Timer \/ HandleWrite \/ Sent \/ UNCHANGED vars
        PROVE  written' = written /\ peer' = peer
    BY <2>4, Zenon DEF Poll, ConnectionCheck, UnixData, Timer, HandleWrite, ReadSndbuf,
       StopReading, StartProbation, TcpWrite, Shift, Sent, TestProbation, EndProbation, TestRoom,
       Resume, vars
  <2> QED BY <2>2, <2>3, <2>4, Zenon DEF Next, Acknowledged, TxPipe!Next
<1> QED BY <1>1, <1>2, Invariance, PTL DEF Spec, TxIsPipe, TxPipe!Spec

=============================================================================
