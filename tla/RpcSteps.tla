----------------------------- MODULE RpcSteps ------------------------------
(***************************************************************************)
(* What a step does, as far as the proofs about the order of the streams   *)
(* need it, and the plain facts these build on: who holds the mutex, which *)
(* sockets are open, what the service knows of them and what is in them.   *)
(***************************************************************************)
EXTENDS RpcInv

\* phyOnUnixData has read the RPC of call s.
RpcRead(s) ==
  /\ IsNext(s) /\ ready' = ready \ {s}
  /\ up[s] = <<[k |-> "rpc", n |-> s]>> /\ up'[s] = <<>>
  /\ down[s] = <<>> /\ down'[s] = <<"z">>
  /\ \A r \in Socks : r # s => up'[r] = up[r] /\ down'[r] = down[r] /\ jobmap'[r] = jobmap[r]
  /\ owner[s] \in Threads /\ pc[owner[s]] = "ack" /\ cur[owner[s]] = s
  /\ UNCHANGED <<appvars, nacc, phys, tx, done>>
  /\ \/ /\ call[s].cmd = "SOCKET"
        /\ jobmap'[s] = jobmap[s] /\ tmpbuf' = tmpbuf
        /\ conns' = conns \cup {s} \/ ("pico_socket_open" \in Faults /\ conns' = conns)
     \/ /\ call[s].cmd # "SOCKET"
        /\ jobmap'[s] = s /\ tmpbuf' = s
        /\ conns' = conns

\* It has read k items of a data stream,
StreamRead(s, k) ==
  /\ IsNext(s) /\ ready' = ready \ {s}
  /\ k \in 1 .. Len(up[s])
  /\ k = ReadMax \/ (k = Len(up[s]) /\ k < ReadMax)
  /\ Consumed(s, k)
  /\ \A i \in 1 .. Len(up[s]) : up[s][i].k # "rpc"
  /\ UNCHANGED <<appvars, nacc, phys, tmpbuf, conns>>
  /\ \A r \in Socks : r # s => tx'[r] = tx[r]
  /\ s \notin conns => tx' = tx

\* and has found no whole canary where the padding is.  The stream is not a
\* canary alone, and of one that holds nothing but data every block is kept.
DataRead(s, k) ==
  /\ StreamRead(s, k)
  /\ ~(Len(up[s]) = 1 /\ up[s][1].k = "canary")
  /\ s \in conns /\ (\A i \in 1 .. Len(up[s]) : up[s][i].k = "data") =>
       tx' = [tx EXCEPT ![s] = @ \o [i \in 1 .. k |-> up[s][i].n]]
  /\ UNCHANGED <<down, jobmap, done>>

\* Or it has found the p-th item, the canary of call c.  If there was nothing
\* else, only CONNECT changes txbuf, and only if there is something in it.
CanaryRead(s, k, p, c) ==
  /\ StreamRead(s, k)
  /\ p \in 1 .. k /\ up[s][p].k = "canary" /\ up[s][p].n = c
  /\ c \in Socks /\ Registered(c)
  /\ Len(up[s]) = 1 /\ (tmpbuf = 0 \/ call[tmpbuf].cmd # "CONNECT" \/ tx[s] = <<>>) => tx' = tx
  /\ \/ /\ s \notin conns \/ tmpbuf = 0
        /\ UNCHANGED <<down, jobmap, done>>
     \/ /\ s \in conns /\ tmpbuf # 0
        /\ \A r \in Socks : r # c => down'[r] = down[r]
        /\ jobmap' = [jobmap EXCEPT ![c] = 0]
        /\ done' = [done EXCEPT ![c] = call[tmpbuf].cmd]

\* The data socket a call names.
LEMMA CalledSocket ==
  ASSUME IInv, NEW t \in Threads, pc[t] # "idle", want[t].cmd # "SOCKET"
  PROVE  want[t].fd \in Socks /\ result[want[t].fd] = "ok"
  <1>1. want[t] \in Call
    BY Zenon DEF IInv, TypeOK
  <1>2. want[t].fd \in 0 .. MaxSocks
    BY <1>1, Zenon DEF Call
  <1>3. want[t].fd # 0 /\ result[want[t].fd] = "ok"
    BY Zenon DEF IInv, InCall, CallOf
  <1> QED
    BY <1>2, <1>3, ConstantsAssumption DEF Socks

\* The branches of phyOnUnixData: an RPC is read.
LEMMA OnRpcReads ==
  ASSUME IInv, NEW s \in Socks, OnRpc(s)
  PROVE  RpcRead(s)
  <1>1. PICK k \in 1 .. Len(up[s]) : /\ Taken(s, [got |-> Chunk(s), left |-> Rest(s)], k)
                                     /\ Consumed(s, k)
    <2>1. PICK r \in Reads(s) : r = [got |-> Chunk(s), left |-> Rest(s)]
      BY Zenon DEF Reads
    <2>2. up' = [up EXCEPT ![s] = r.left]
      BY <2>1, Zenon DEF OnRpc
    <2> QED
      BY <2>1, <2>2, ReadItems, Zenon DEF OnRpc, IInv
  <1>2. Chunk(s)[1] = up[s][1] /\ up[s][1].k = "rpc" /\ 1 \in 1 .. Len(up[s])
    <2>1. Len(Chunk(s)) = 1 /\ Chunk(s)[1].k = "rpc"
      BY Zenon DEF OnRpc, IsRpc
    <2>2. \A i \in 1 .. k : Chunk(s)[i] = up[s][i]
      BY <1>1, Zenon DEF Taken
    <2>3. 1 \in 1 .. k /\ 1 \in 1 .. Len(up[s])
      OBVIOUS
    <2> QED
      BY <2>1, <2>2, <2>3, Zenon
  <1>3. /\ up[s] = <<[k |-> "rpc", n |-> s]>>
        /\ down[s] = <<>>
        /\ owner[s] \in Threads
        /\ pc[owner[s]] = "ack"
        /\ cur[owner[s]] = s
    BY <1>2, Zenon DEF IInv, RpcItems
  <1>4. Chunk(s)[1].n = s
    BY <1>2, <1>3
  <1>5. up'[s] = <<>> /\ \A r \in Socks : r # s => up'[r] = up[r]
    <2>1. Len(up[s]) = 1 /\ k = 1
      BY <1>3
    <2>2. up'[s] \in Seq(Item) /\ Len(up'[s]) = Len(up[s]) - k
      BY <1>1, Zenon DEF Consumed
    <2>3. up'[s] = <<>>
      BY <2>1, <2>2
    <2> QED
      BY <1>1, <2>3, Zenon DEF Consumed
  <1>6. down'[s] = <<"z">> /\ \A r \in Socks : r # s => down'[r] = down[r]
    <2>1. Append(down[s], "z") = <<"z">>
      BY <1>3
    <2> QED
      BY <2>1, Zenon DEF OnRpc, IInv, TypeOK
  <1>7. \/ /\ call[s].cmd = "SOCKET"
           /\ jobmap' = jobmap /\ tmpbuf' = tmpbuf
           /\ conns' = conns \cup {s} \/ ("pico_socket_open" \in Faults /\ conns' = conns)
        \/ /\ call[s].cmd # "SOCKET"
           /\ jobmap' = [jobmap EXCEPT ![s] = s] /\ tmpbuf' = s
           /\ conns' = conns
    BY <1>4, Zenon DEF OnRpc
  <1>8. jobmap \in [Socks -> 0 .. MaxSocks]
    BY Zenon DEF IInv, TypeOK
  <1>9. /\ \A r \in Socks : r # s => jobmap'[r] = jobmap[r]
        /\ call[s].cmd # "SOCKET" => jobmap'[s] = s
    BY <1>7, <1>8, Zenon
  <1>10. UNCHANGED <<appvars, nacc, phys, tx, done>> /\ IsNext(s) /\ ready' = ready \ {s}
    BY Zenon DEF OnRpc
  <1> QED
    BY <1>3, <1>5, <1>6, <1>7, <1>9, <1>10, Zenon DEF RpcRead

\* Data is read.
LEMMA OnDataReads ==
  ASSUME IInv, NEW s \in Socks, OnData(s)
  PROVE  \E k \in Nat : DataRead(s, k)
  <1>1. PICK r \in Reads(s) :
          /\ ~IsRpc(r.got) /\ NoPadding(r.got)
          /\ tx' = IF s \in conns THEN [tx EXCEPT ![s] = @ \o Appended(r.got)] ELSE tx
          /\ up' = [up EXCEPT ![s] = r.left]
    BY Zenon DEF OnData
  <1>2. /\ up[s] # <<>> /\ IsNext(s) /\ ready' = ready \ {s}
        /\ UNCHANGED <<appvars, nacc, phys, tmpbuf, conns, down, jobmap, done>>
    BY Zenon DEF OnData
  <1>3. PICK k \in 1 .. Len(up[s]) : Taken(s, r, k) /\ Consumed(s, k)
    BY <1>1, <1>2, ReadItems, Zenon DEF IInv
  <1>4. \A i \in 1 .. Len(up[s]) : up[s][i].k # "rpc"
    BY <1>1, <1>3, NoRpc, Zenon
  <1>5. StreamRead(s, k)
    <2>1. tx \in [Socks -> Seq(0 .. MaxData)]
      BY Zenon DEF IInv, TypeOK
    <2>2. (\A q \in Socks : q # s => tx'[q] = tx[q]) /\ (s \notin conns => tx' = tx)
      BY <1>1, <2>1, Zenon
    <2> QED
      BY <1>2, <1>3, <1>4, <2>2, Zenon DEF StreamRead, Taken
  <1>6. ~(Len(up[s]) = 1 /\ up[s][1].k = "canary")
    <2>1. r.got[1] = up[s][1] /\ 1 \in 1 .. Len(r.got)
      <3>1. /\ Len(r.got) \in {k, k + 1}
            /\ \A i \in 1 .. k : r.got[i] = up[s][i]
        BY <1>3, Zenon DEF Taken
      <3> QED
        BY <3>1
    <2> QED
      BY <1>1, <2>1, Zenon DEF NoPadding
  <1>7. ASSUME s \in conns, \A i \in 1 .. Len(up[s]) : up[s][i].k = "data"
        PROVE  tx' = [tx EXCEPT ![s] = @ \o [i \in 1 .. k |-> up[s][i].n]]
    <2>1. Len(r.got) = k /\ \A i \in 1 .. k : r.got[i] = up[s][i]
      <3>1. \A i \in 1 .. Len(up[s]) : up[s][i].k # "canary"
        BY <1>7
      <3> QED
        BY <1>3, <3>1, Zenon DEF Taken
    <2>2. Appended(r.got) = [i \in 1 .. k |-> up[s][i].n]
      BY <1>1, <2>1, Zenon DEF Appended
    <2> QED
      BY <1>1, <1>7, <2>2, Zenon
  <1>8. k \in Nat
    OBVIOUS
  <1> QED
    BY <1>2, <1>5, <1>6, <1>7, <1>8, Zenon DEF DataRead

\* Padding is read that is not that of a canary: not in a stream of data.
LEMMA OnPaddingReads ==
  ASSUME IInv, NEW s \in Socks, OnPadding(s)
  PROVE  \E k \in Nat : DataRead(s, k)
  <1>1. PICK r \in Reads(s) : \E i \in 1 .. Len(r.got) :
          /\ FirstPadding(r.got, i)
          /\ r.got[i].k = "pad"
          /\ tx' = tx \/ (s \in conns /\ tx' = [tx EXCEPT ![s] = Append(@, 0)])
          /\ up' = [up EXCEPT ![s] = r.left]
    BY Zenon DEF OnPadding
  <1>2. /\ up[s] # <<>> /\ IsNext(s) /\ ready' = ready \ {s}
        /\ UNCHANGED <<appvars, nacc, phys, tmpbuf, conns, down, jobmap, done>>
    BY Zenon DEF OnPadding
  <1>3. PICK p \in 1 .. Len(r.got) : FirstPadding(r.got, p) /\ r.got[p].k = "pad"
    BY <1>1, Zenon
  <1>4. PICK k \in 1 .. Len(up[s]) : Taken(s, r, k) /\ Consumed(s, k)
    BY <1>1, <1>2, ReadItems, Zenon DEF IInv
  <1>5. \A i \in 1 .. Len(up[s]) : up[s][i].k # "rpc"
    BY <1>3, <1>4, PaddingNoRpc, NoRpc, Zenon
  <1>6. StreamRead(s, k)
    <2>1. tx \in [Socks -> Seq(0 .. MaxData)]
      BY Zenon DEF IInv, TypeOK
    <2>2. (\A q \in Socks : q # s => tx'[q] = tx[q]) /\ (s \notin conns => tx' = tx)
      BY <1>1, <2>1, Zenon
    <2> QED
      BY <1>2, <1>4, <1>5, <2>2, Zenon DEF StreamRead, Taken
  <1>7. p \in 1 .. Len(up[s]) /\ up[s][p].k = "pad"
    <2>1. /\ k \in 1 .. Len(up[s])
          /\ \A i \in 1 .. k : r.got[i] = up[s][i]
          /\ Len(r.got) = k \/ (Len(r.got) = k + 1 /\ r.got[k + 1] = Piece("data"))
      BY <1>4, Zenon DEF Taken
    <2>2. r.got[p] # Piece("data")
      BY <1>3 DEF Piece
    <2>3. p \in 1 .. k
      <3>1. p # k + 1 \/ Len(r.got) = k
        BY <2>1, <2>2, Zenon
      <3> QED
        BY <2>1, <3>1
    <2>4. p \in 1 .. Len(up[s])
      BY <2>1, <2>3
    <2> QED
      BY <1>3, <2>1, <2>3, <2>4, Zenon
  <1>8. ~(Len(up[s]) = 1 /\ up[s][1].k = "canary")
    BY <1>7
  <1>9. ~(\A i \in 1 .. Len(up[s]) : up[s][i].k = "data")
    BY <1>7
  <1>10. k \in Nat
    OBVIOUS
  <1> QED
    BY <1>2, <1>6, <1>8, <1>9, <1>10, Zenon DEF DataRead

\* Where there is nothing in txbuf, handleConnect destroys nothing.
LEMMA NothingLost ==
  ASSUME NEW s, NEW q, tmpbuf = 0 \/ call[tmpbuf].cmd # "CONNECT" \/ q = <<>>,
         NEW o \in Kept(s, q)
  PROVE  o = q
  <1>1. CASE q = <<>> /\ o \in Overwritten(s, q)
    <2>1. PICK k : o = [i \in 1 .. Len(q) |-> IF i = k THEN 0 ELSE q[i]]
      BY <1>1, ZenonT(60) DEF Overwritten
    <2>2. 1 .. Len(q) = {} /\ q = [i \in {} |-> 0]
      BY <1>1
    <2> QED
      BY <2>1, <2>2
  <1>2. CASE ~(tmpbuf # 0 /\ call[tmpbuf].cmd = "CONNECT")
    BY <1>2, Zenon DEF Kept
  <1> QED
    BY <1>1, <1>2, Zenon DEF Kept

\* A canary is read: its job is there, and its RPC socket has no Connection.
LEMMA OnCanaryReads ==
  ASSUME IInv, NEW s \in Socks, OnCanary(s)
  PROVE  \E k, p \in Nat, c \in Socks : CanaryRead(s, k, p, c)
  <1>0. PICK b \in Reads(s) : \E i \in 1 .. Len(b.got) :
          /\ FirstPadding(b.got, i)
          /\ b.got[i].k = "canary"
          /\ IF jobmap[b.got[i].n] = 0 \/ s \notin conns
               THEN UNCHANGED <<tx, down, jobmap, conns, phys, pico, done>>
               ELSE /\ \E q \in Kept(s, tx[s] \o Appended(b.got)) : tx' = [tx EXCEPT ![s] = q]
                    /\ RunJob(s, b.got[i].n)
          /\ up' = [up EXCEPT ![s] = b.left]
    BY ZenonT(60) DEF OnCanary
  <1>1. PICK k \in 1 .. Len(up[s]) : Taken(s, b, k) /\ Consumed(s, k)
    BY <1>0, ReadItems, Zenon DEF OnCanary, IInv
  <1>2. \A i \in 1 .. Len(up[s]) : up[s][i].k # "rpc"
    BY <1>0, <1>1, NoRpc, PaddingNoRpc, ZenonT(60)
  <1>3. PICK p \in 1 .. Len(b.got) :
          /\ FirstPadding(b.got, p)
          /\ b.got[p].k = "canary"
          /\ IF jobmap[b.got[p].n] = 0 \/ s \notin conns
               THEN UNCHANGED <<tx, down, jobmap, conns, phys, pico, done>>
               ELSE /\ \E q \in Kept(s, tx[s] \o Appended(b.got)) : tx' = [tx EXCEPT ![s] = q]
                    /\ RunJob(s, b.got[p].n)
    BY <1>0, ZenonT(60)
  <1>4. p \in 1 .. Len(up[s]) /\ b.got[p] = up[s][p] /\ up[s][p].k = "canary" /\ p \in 1 .. k
    <2>1. Taken(s, b, k) /\ b.got[p].k = "canary"
      BY <1>1, <1>3, Zenon
    <2> QED
      BY <2>1, CanaryTaken, SMTT(60)
  <1>5. PICK c \in Socks : up[s][p].n = c
    BY <1>4, ItemKinds, Zenon DEF IInv
  <1>6. Registered(c)
    BY <1>4, <1>5, Zenon DEF IInv, Canaries
  <1>7. jobmap[c] = c /\ c # 0 /\ c \notin conns
    <2>1. c # 0
      BY ConstantsAssumption DEF Socks
    <2> QED
      BY <1>6, <2>1, Zenon DEF Registered, IInv, Conns
  <1>8. /\ IsNext(s) /\ ready' = ready \ {s}
        /\ UNCHANGED <<appvars, nacc, tmpbuf>>
    BY Zenon DEF OnCanary
  <1>9. /\ \A r \in Socks : r # s => tx'[r] = tx[r]
        /\ s \notin conns => tx' = tx
        /\ Len(up[s]) = 1 /\ (tmpbuf = 0 \/ call[tmpbuf].cmd # "CONNECT" \/ tx[s] = <<>>) => tx' = tx
    <2>1. tx \in [Socks -> Seq(0 .. MaxData)] /\ tx[s] \in Seq(0 .. MaxData)
      BY Zenon DEF IInv, TypeOK
    <2>2. s \in conns => \E q \in Kept(s, tx[s] \o Appended(b.got)) : tx' = [tx EXCEPT ![s] = q]
      BY <1>3, <1>4, <1>5, <1>7, Zenon
    <2>3. s \notin conns => tx' = tx
      BY <1>3, Zenon
    <2>4. Len(up[s]) = 1 => Len(b.got) = 1
      <3>1. k \in 1 .. Len(up[s]) /\ (Len(b.got) = k \/ k + 1 \in 1 .. Len(up[s]))
        BY <1>1, Zenon DEF Taken
      <3> QED
        BY <3>1
    <2>5. Len(up[s]) = 1 => Appended(b.got) = <<>>
      BY <1>3, <2>4, PaddingNoRpc, Zenon DEF Appended
    <2>6. tx[s] \o <<>> = tx[s]
      BY <2>1
    <2>7. ASSUME s \in conns, Len(up[s]) = 1,
                 tmpbuf = 0 \/ call[tmpbuf].cmd # "CONNECT" \/ tx[s] = <<>>
          PROVE  tx' = tx
      <3>1. PICK q \in Kept(s, tx[s]) : tx' = [tx EXCEPT ![s] = q]
        BY <2>2, <2>5, <2>6, <2>7, Zenon
      <3>2. q = tx[s]
        BY <2>7, NothingLost, Zenon
      <3> QED
        BY <2>1, <3>1, <3>2, Zenon
    <2>8. \A r \in Socks : r # s => tx'[r] = tx[r]
      BY <2>1, <2>2, <2>3, ZenonT(60)
    <2> QED
      BY <2>3, <2>7, <2>8, ZenonT(60)
  <1>10. \/ /\ s \notin conns \/ tmpbuf = 0
            /\ UNCHANGED <<down, jobmap, done, conns, phys>>
         \/ /\ s \in conns /\ tmpbuf # 0
            /\ \A r \in Socks : r # c => down'[r] = down[r]
            /\ jobmap' = [jobmap EXCEPT ![c] = 0]
            /\ done' = [done EXCEPT ![c] = call[tmpbuf].cmd]
            /\ UNCHANGED <<conns, phys>>
    <2>1. CASE s \notin conns
      BY <1>3, <2>1, Zenon
    <2>2. CASE s \in conns
      <3>1. RunJob(s, c)
        BY <1>3, <1>4, <1>5, <1>7, <2>2, Zenon
      <3>2. CASE tmpbuf = 0
        BY <3>1, <3>2, Zenon DEF RunJob
      <3>3. CASE tmpbuf # 0
        <4>1. /\ down' = [down EXCEPT ![c] = @ \o Returned(call[tmpbuf].cmd)]
              /\ jobmap' = [jobmap EXCEPT ![c] = 0]
              /\ done' = [done EXCEPT ![c] = call[tmpbuf].cmd]
              /\ UNCHANGED <<conns, phys>> \/ CloseConnection(c)
          BY <1>7, <3>1, <3>3, Zenon DEF RunJob, ReplySock, Erased
        <4>2. UNCHANGED <<conns, phys>>
          BY <1>7, <4>1, Zenon DEF CloseConnection
        <4>3. \A r \in Socks : r # c => down'[r] = down[r]
          BY <4>1, Zenon DEF IInv, TypeOK
        <4> QED
          BY <2>2, <3>3, <4>1, <4>2, <4>3, Zenon
      <3> QED
        BY <3>2, <3>3, Zenon
    <2> QED
      BY <2>1, <2>2, Zenon
  <1>11. k \in Nat /\ p \in Nat
    OBVIOUS
  <1>12. StreamRead(s, k)
    BY <1>1, <1>2, <1>8, <1>9, <1>10, Zenon DEF StreamRead, Taken
  <1> QED
    BY <1>3, <1>4, <1>5, <1>6, <1>9, <1>10, <1>11, <1>12, ZenonT(60) DEF CanaryRead

\* A step is of a thread of the application, which leaves the service alone,
\* or of the service, which leaves the application alone.
LEMMA Sides ==
  ASSUME [Next]_vars
  PROVE  \/ \E t \in Threads : (Begin(t) \/ WriteData(t) \/ Client(t)) /\ UNCHANGED svcvars
         \/ UNCHANGED appvars
  <1>1. ASSUME NEW t \in Threads, Begin(t) \/ WriteData(t) \/ Client(t)
        PROVE  UNCHANGED svcvars
    BY <1>1, Zenon DEF Begin, WriteData, Client, Lock, Join, TokenFails, SendRpc, ReadAck,
       SendCanary, GetRetval, ReadAddr
  <1>2. ASSUME AddIp \/ RemoveIp \/ Select \/ Accept \/ ReuseStack \/ UNCHANGED vars
        PROVE  UNCHANGED appvars
    BY <1>2, Zenon DEF AddIp, RemoveIp, Select, Accept, ReuseStack, vars
  <1>3. ASSUME NEW s \in Socks, Serve(s)
        PROVE  UNCHANGED appvars
    BY <1>3, Zenon DEF Serve, Eof, Crash, OnRpc, OnData, OnCanary, OnPadding
  <1> QED
    BY <1>1, <1>2, <1>3, Zenon DEF Next

\* What a call asked for, who made it and what it returned stays so.
LEMMA Past ==
  ASSUME IInv, [Next]_vars, NEW s \in Socks
  PROVE  /\ s <= nsock => call'[s] = call[s] /\ owner'[s] = owner[s]
         /\ result[s] # "none" => result'[s] = result[s]
  <1>1. CASE UNCHANGED appvars
    BY <1>1, Zenon DEF appvars
  <1>2. ASSUME NEW t \in Threads, Join(t)
        PROVE  /\ s <= nsock => call'[s] = call[s] /\ owner'[s] = owner[s]
               /\ result' = result
    <2>1. s <= nsock => s # nsock + 1
      BY ConstantsAssumption DEF IInv, TypeOK, Socks
    <2> QED
      BY <1>2, <2>1, Zenon DEF Join, IInv, TypeOK
  <1>3. ASSUME NEW t \in Threads,
               TokenFails(t) \/ ReadAck(t) \/ GetRetval(t) \/ ReadAddr(t)
        PROVE  call' = call /\ owner' = owner /\ (result[s] # "none" => result'[s] = result[s])
    <2>1. PICK c \in Socks : cur[t] = c /\ result[c] = "none"
      BY <1>3, CurrentCall, Zenon DEF TokenFails, ReadAck, GetRetval, ReadAddr
    <2>2. /\ call' = call /\ owner' = owner
          /\ result' = result \/ \E v \in Reply : result' = [result EXCEPT ![c] = v]
      <3>1. CASE GetRetval(t)
        <4>1. down[c] \in Seq(Reply) /\ down[c] # <<>>
          BY <2>1, <3>1, Zenon DEF GetRetval, IInv, TypeOK
        <4>2. Head(down[c]) \in Reply
          BY <4>1
        <4> QED
          BY <2>1, <3>1, <4>2, Zenon DEF GetRetval
      <3>2. CASE TokenFails(t) \/ ReadAck(t) \/ ReadAddr(t)
        BY <2>1, <3>2, Zenon DEF TokenFails, ReadAck, ReadAddr, Reply
      <3> QED
        BY <1>3, <3>1, <3>2, Zenon
    <2> QED
      BY <2>1, <2>2, Zenon DEF IInv, TypeOK
  <1>4. ASSUME NEW t \in Threads,
               Begin(t) \/ WriteData(t) \/ Lock(t) \/ SendRpc(t) \/ SendCanary(t)
        PROVE  UNCHANGED <<call, owner, result>>
    BY <1>4, Zenon DEF Begin, WriteData, Lock, SendRpc, SendCanary
  <1> QED
    BY <1>1, <1>2, <1>3, <1>4, Sides, Zenon DEF Client

\* A stream has grown, or it is as it was.
LEMMA AppStreams ==
  ASSUME IInv, NEW t \in Threads, Begin(t) \/ WriteData(t) \/ Client(t), NEW s \in Socks
  PROVE  up[s] # <<>> => up'[s] # <<>>
  <1>1. ASSUME NEW r \in Socks, NEW x, up' = [up EXCEPT ![r] = Append(@, x)]
        PROVE  up[s] # <<>> => up'[s] # <<>>
    <2>1. CASE r = s
      <3>1. up[s] \in Seq(Item) /\ up'[s] = Append(up[s], x)
        BY <1>1, <2>1, Zenon DEF IInv, TypeOK
      <3> QED
        BY <3>1
    <2>2. CASE r # s
      BY <1>1, <2>2, Zenon DEF IInv, TypeOK
    <2> QED
      BY <2>1, <2>2, Zenon
  <1>2. CASE WriteData(t)
    BY <1>1, <1>2, Zenon DEF WriteData, Fds
  <1>3. CASE SendRpc(t)
    <2>1. cur[t] \in Socks
      BY <1>3, CurrentCall, Zenon DEF SendRpc
    <2> QED
      BY <1>1, <1>3, <2>1, Zenon DEF SendRpc
  <1>4. CASE SendCanary(t)
    <2>1. want[t].fd \in Socks
      BY <1>4, CalledSocket, Zenon DEF SendCanary, IInv, InCall, CallOf
    <2> QED
      BY <1>1, <1>4, <2>1, Zenon DEF SendCanary
  <1>5. CASE up' = up
    BY <1>5, Zenon
  <1> QED
    BY <1>2, <1>3, <1>4, <1>5, Zenon DEF Client, Begin, Lock, Join, TokenFails, ReadAck, GetRetval, ReadAddr

\* Nothing that matters here: addIp, removeIp, the crash, or another handler
\* uses the stack.
Quiet ==
  /\ UNCHANGED <<appvars, up, down, nacc, phys, ready, jobmap, conns, tx, done>>
  /\ tmpbuf' = tmpbuf \/ (Clobber /\ tmpbuf' = 0)

\* The steps of the system.
LEMMA Steps ==
  ASSUME IInv, [Next]_vars
  PROVE  \/ \E t \in Threads : (Begin(t) \/ WriteData(t) \/ Client(t)) /\ UNCHANGED svcvars
         \/ Quiet \/ Select \/ Accept
         \/ \E s \in Socks : \/ Eof(s) \/ RpcRead(s)
                             \/ \E k \in Nat : DataRead(s, k)
                             \/ \E k, p \in Nat, c \in Socks : CanaryRead(s, k, p, c)
  <1>1. ASSUME AddIp \/ RemoveIp \/ ReuseStack \/ UNCHANGED vars \/ \E s \in Socks : Crash(s)
        PROVE  Quiet
    BY <1>1, Zenon DEF AddIp, RemoveIp, Crash, ReuseStack, vars, svcvars, Quiet
  <1>2. ASSUME NEW s \in Socks, Serve(s), ~Crash(s)
        PROVE  \/ Eof(s) \/ RpcRead(s)
               \/ \E k \in Nat : DataRead(s, k)
               \/ \E k, p \in Nat, c \in Socks : CanaryRead(s, k, p, c)
    BY <1>2, OnRpcReads, OnDataReads, OnPaddingReads, OnCanaryReads, Zenon DEF Serve
  <1>3. ASSUME NEW t \in Threads, Begin(t) \/ WriteData(t) \/ Client(t)
        PROVE  UNCHANGED svcvars
    BY <1>3, Zenon DEF Begin, WriteData, Client, Lock, Join, TokenFails, SendRpc, ReadAck,
       SendCanary, GetRetval, ReadAddr
  <1> QED
    BY <1>1, <1>2, <1>3, Zenon DEF Next

----------------------------------------------------------------------------
(***************************************************************************)
(* What the application and the service know of each other.                *)
(***************************************************************************)

\* Where a thread of rpc_send_command holds the mutex of its process.
Holding == {"join", "token", "ack", "canary", "retval"}
Mutex == \A t \in Threads : pc[t] \in Holding => lock[ProcOf[t]] = t

\* Sockets are accepted in the order of their numbers.  One leaves the list
\* of Phy only when its caller has closed it, and select() reports one only
\* if there is something to read or it is closed.
Listed ==
  /\ nacc <= nsock
  /\ \A s \in phys : s <= nacc
  /\ \A s \in Socks : s <= nacc /\ copen[s] => s \in phys
  /\ \A s \in Socks : s \in ready => s \in phys /\ (up[s] # <<>> \/ ~copen[s])

\* The application keeps a data socket, and rpc_sock during the call, open.
Opened ==
  /\ \A s \in Socks : s <= nsock /\ call[s].cmd = "SOCKET" => copen[s]
  /\ \A t \in Threads :
       pc[t] \in {"token", "ack", "canary", "retval", "addr"} => copen[cur[t]]

\* Nothing is done for a socket before it is accepted.
Unheard ==
  \A s \in Socks : s > nacc => /\ down[s] = <<>>
                               /\ result[s] # "ok"
                               /\ jobmap[s] = 0
                               /\ done[s] = "none"
                               /\ s \notin conns

\* The RPC of a caller that waits for the ACK has been read, or it has not.
Acked ==
  \A t \in Threads :
    /\ pc[t] = "ack" => \/ /\ up[cur[t]] = <<[k |-> "rpc", n |-> cur[t]]>>
                           /\ down[cur[t]] = <<>>
                        \/ /\ up[cur[t]] = <<>>
                           /\ down[cur[t]] = <<"z">>
    /\ pc[t] = "canary" => down[cur[t]] = <<>>

\* s is a data socket that thread t may name in a call.
Usable(s, t) ==
  /\ call[s].cmd = "SOCKET"
  /\ result[s] = "ok"
  /\ owner[s] \in Threads
  /\ ProcOf[owner[s]] = ProcOf[t]
  /\ ~Sharing => owner[s] = t
Wanted ==
  \A t \in Threads : pc[t] # "idle" /\ want[t].fd # 0 => Usable(want[t].fd, t)

----------------------------------------------------------------------------
(***************************************************************************)
(* The mutex.                                                              *)
(***************************************************************************)

\* rpc_send_command holds the mutex of its process from rpc_join on, until it
\* returns or, for getsockname and getpeername, until the canary is written.
LEMMA MutexNext ==
  ASSUME IInv, Mutex, [Next]_vars
  PROVE  Mutex'
  <1>1. CASE UNCHANGED appvars
    BY <1>1, Zenon DEF appvars, Mutex
  <1>2. /\ None \notin Threads
        /\ lock \in [Procs -> Threads \cup {None}]
        /\ \A t \in Threads : ProcOf[t] \in Procs
        /\ pc \in [Threads -> {"idle", "lock", "join", "token", "ack", "canary", "retval", "addr"}]
    BY ConstantsAssumption, Zenon DEF IInv, TypeOK, Procs
  <1>3. ASSUME NEW t \in Threads, NEW p \in Holding, pc' = [pc EXCEPT ![t] = p],
               \/ pc[t] \in Holding /\ lock' = lock
               \/ lock[ProcOf[t]] = None /\ lock' = [lock EXCEPT ![ProcOf[t]] = t]
        PROVE  Mutex'
    BY <1>2, <1>3, Zenon DEF Mutex
  <1>4. ASSUME NEW t \in Threads, NEW p, p \notin Holding, pc' = [pc EXCEPT ![t] = p],
               \/ lock' = lock
               \/ pc[t] \in Holding /\ lock' = [lock EXCEPT ![ProcOf[t]] = None]
        PROVE  Mutex'
    BY <1>2, <1>4, Zenon DEF Mutex
  <1>5. /\ {"join", "token", "ack", "canary", "retval"} \subseteq Holding
        /\ "idle" \notin Holding /\ "lock" \notin Holding /\ "addr" \notin Holding
    BY Zenon DEF Holding
  <1>6. ASSUME NEW t \in Threads, Begin(t) \/ WriteData(t) \/ Client(t)
        PROVE  Mutex'
    <2>1. CASE WriteData(t)
      BY <2>1, Zenon DEF WriteData, Mutex
    <2>2. CASE Lock(t) \/ Join(t) \/ SendRpc(t)
      <3>1. CASE Lock(t)
        BY <1>3, <1>5, <3>1, ZenonT(60) DEF Lock
      <3>2. CASE Join(t)
        BY <1>3, <1>5, <3>2, ZenonT(60) DEF Join
      <3>3. CASE SendRpc(t)
        BY <1>3, <1>5, <3>3, ZenonT(60) DEF SendRpc
      <3> QED
        BY <2>2, <3>1, <3>2, <3>3, Zenon
    <2>3. CASE Begin(t) \/ TokenFails(t) \/ GetRetval(t) \/ ReadAddr(t)
      BY <1>4, <1>5, <2>3, ZenonT(60) DEF Begin, TokenFails, GetRetval, ReadAddr
    <2>4. CASE ReadAck(t)
      BY <1>3, <1>4, <1>5, <2>4, ZenonT(60) DEF ReadAck
    <2>5. CASE SendCanary(t)
      BY <1>3, <1>4, <1>5, <2>5, Zenon DEF SendCanary
    <2> QED
      BY <1>6, <2>1, <2>2, <2>3, <2>4, <2>5, Zenon DEF Client
  <1> QED
    BY <1>1, <1>6, Sides, Zenon

----------------------------------------------------------------------------
(***************************************************************************)
(* The sockets of the application and the list of Phy.                     *)
(***************************************************************************)

\* A step of the application opens no old socket.
LEMMA AppSockets ==
  ASSUME IInv, NEW t \in Threads, Begin(t) \/ WriteData(t) \/ Client(t)
  PROVE  nsock <= nsock' /\ \A s \in Socks : s <= nsock /\ copen'[s] => copen[s]
  <1>1. nsock \in Nat /\ Socks \subseteq Nat
    BY ConstantsAssumption DEF IInv, TypeOK, Socks
  <1>2. CASE Join(t)
    <2>1. nsock' = nsock + 1
      BY <1>2, Zenon DEF Join
    <2>2. nsock <= nsock' /\ \A s \in Socks : s <= nsock => s # nsock + 1
      BY <1>1, <2>1
    <2> QED
      BY <1>2, <2>2, Zenon DEF Join, IInv, TypeOK
  <1>3. nsock <= nsock
    BY <1>1
  <1>4. CASE GetRetval(t) \/ ReadAddr(t)
    <2>1. PICK c \in Socks : copen' = [copen EXCEPT ![c] = FALSE] /\ nsock' = nsock
      BY <1>4, CurrentCall, Zenon DEF GetRetval, ReadAddr
    <2> QED
      BY <1>3, <2>1, Zenon DEF IInv, TypeOK
  <1>5. CASE nsock' = nsock /\ copen' = copen
    BY <1>3, <1>5, Zenon
  <1> QED
    BY <1>2, <1>4, <1>5, Zenon DEF Client, Begin, WriteData, Lock, TokenFails, SendRpc, ReadAck, SendCanary

\* poll accepts in order, and drops a socket after end of file only.
LEMMA ListedNext ==
  ASSUME IInv, IInv', Listed, [Next]_vars
  PROVE  Listed'
  <1>1. /\ nsock \in Nat /\ nsock' \in Nat /\ nacc \in Nat /\ Socks \subseteq Nat
        /\ phys \subseteq Socks
    BY ConstantsAssumption, SMTT(90) DEF IInv, TypeOK, Socks
  <1>2. ASSUME NEW t \in Threads, Begin(t) \/ WriteData(t) \/ Client(t), UNCHANGED svcvars
        PROVE  Listed'
    <2>1. nacc' = nacc /\ phys' = phys /\ ready' = ready
      BY <1>2, Zenon DEF svcvars
    <2>3. nacc' <= nsock'
      <3>1. nsock <= nsock'
        BY <1>2, AppSockets, Zenon
      <3> QED
        BY <1>1, <2>1, <3>1 DEF Listed
    <2>4. \A s \in Socks : s <= nacc => s <= nsock
      BY <1>1 DEF Listed
    <2>5. \A s \in Socks : s <= nacc' /\ copen'[s] => s \in phys'
      BY <1>2, <2>1, <2>4, AppSockets, Zenon DEF Listed
    <2>6. \A s \in Socks : s \in ready' => s \in phys' /\ (up'[s] # <<>> \/ ~copen'[s])
      BY <1>2, <2>1, <2>4, AppSockets, AppStreams, Zenon DEF Listed
    <2> QED
      BY <2>1, <2>3, <2>5, <2>6, Zenon DEF Listed
  <1>3. CASE Quiet
    BY <1>3, Zenon DEF Quiet, appvars, Listed
  <1>4. CASE Select
    <2>1. \A s \in Socks : s \in ready' => s \in phys' /\ (up'[s] # <<>> \/ ~copen'[s])
      <3>1. 0 \notin Socks
        BY DEF Socks
      <3> QED
        BY <1>4, <3>1, Zenon DEF Select, Readable, Listening, appvars
    <2> QED
      BY <1>4, <2>1, Zenon DEF Select, appvars, Listed
  <1>5. CASE Accept
    <2>1. nacc' = nacc + 1 /\ phys' = phys \cup {nacc + 1}
      BY <1>5, Zenon DEF Accept
    <2>2. 0 \in ready /\ nacc < nsock
      BY <1>5, Zenon DEF Accept, IsNext, IInv, Pending
    <2>3. ready' \subseteq ready /\ UNCHANGED <<up, copen, nsock>>
      BY <1>5, Zenon DEF Accept, appvars
    <2>4. nacc' <= nsock' /\ (\A s \in phys' : s <= nacc')
      BY <1>1, <2>1, <2>2, <2>3 DEF Listed
    <2>5. \A s \in Socks : s <= nacc' => s <= nacc \/ s = nacc + 1
      BY <1>1, <2>1
    <2>6. \A s \in Socks : s <= nacc' /\ copen'[s] => s \in phys'
      BY <2>1, <2>3, <2>5, Zenon DEF Listed
    <2>7. \A s \in Socks : s \in ready' => s \in phys' /\ (up'[s] # <<>> \/ ~copen'[s])
      BY <2>1, <2>3, Zenon DEF Listed
    <2> QED
      BY <2>4, <2>6, <2>7, Zenon DEF Listed
  <1>6. ASSUME NEW s \in Socks, Eof(s)
        PROVE  Listed'
    <2>1. ~copen[s]
      BY <1>6, Zenon DEF Eof, IsNext, Listed
    <2> QED
      BY <1>6, <2>1, Zenon DEF Eof, appvars, Listed
  <1>7. ASSUME NEW s \in Socks, ready' = ready \ {s}, UNCHANGED <<appvars, nacc, phys>>,
               \A r \in Socks : r # s => up'[r] = up[r]
        PROVE  Listed'
    BY <1>7, Zenon DEF appvars, Listed
  <1>8. ASSUME NEW s \in Socks, RpcRead(s)
        PROVE  Listed'
    BY <1>7, <1>8, Zenon DEF RpcRead
  <1>9. ASSUME NEW s \in Socks, NEW k, StreamRead(s, k)
        PROVE  Listed'
    BY <1>7, <1>9, Zenon DEF StreamRead, Consumed
  <1> QED
    BY <1>2, <1>3, <1>4, <1>5, <1>6, <1>8, <1>9, Steps, ZenonT(60) DEF DataRead, CanaryRead

\* close() is for the rpc_sock of a call that is not RPC_SOCKET and is over.
LEMMA OpenedNext ==
  ASSUME IInv, Opened, [Next]_vars
  PROVE  Opened'
  <1>1. CASE UNCHANGED appvars
    BY <1>1, Zenon DEF appvars, Opened
  <1>2. pc \in [Threads -> {"idle", "lock", "join", "token", "ack", "canary", "retval", "addr"}]
    BY Zenon DEF IInv, TypeOK
  <1>3. ASSUME NEW t \in Threads, Join(t)
        PROVE  Opened'
    <2>1. PICK n \in Socks : n = nsock + 1 /\ n \in Nat /\ nsock \in Nat /\ Socks \subseteq Nat
      BY <1>3, ConstantsAssumption DEF Join, IInv, TypeOK, Socks
    <2>2. \A s \in Socks : s <= nsock' => s <= nsock \/ s = n
      <3>1. nsock' = n
        BY <1>3, <2>1, Zenon DEF Join
      <3> QED
        BY <2>1, <3>1
    <2>3. /\ cur' = [cur EXCEPT ![t] = n]
          /\ call' = [call EXCEPT ![n] = want[t]]
          /\ copen' = [copen EXCEPT ![n] = TRUE]
          /\ pc' = [pc EXCEPT ![t] = "token"]
      BY <1>3, <2>1, Zenon DEF Join
    <2>4. /\ cur \in [Threads -> 0 .. MaxSocks] /\ copen \in [Socks -> BOOLEAN]
          /\ call \in [Socks -> Call]
      BY Zenon DEF IInv, TypeOK
    <2>5. \A u \in Threads :
            pc[u] \in {"token", "ack", "canary", "retval", "addr"} => cur[u] \in Socks
      BY CurrentCall, Zenon
    <2> QED
      BY <1>2, <2>2, <2>3, <2>4, <2>5, ZenonT(60) DEF Opened
  <1>4. ASSUME NEW t \in Threads, GetRetval(t) \/ ReadAddr(t)
        PROVE  Opened'
    <2>1. PICK c \in Socks : cur[t] = c /\ call[c] = want[t] /\ owner[c] = t
      BY <1>4, CurrentCall, Zenon DEF GetRetval, ReadAddr
    <2>2. call[c].cmd # "SOCKET"
      <3>1. pc[t] \in {"canary", "retval", "addr"} /\ CallOf(t)
        BY <1>4, Zenon DEF GetRetval, ReadAddr, IInv, InCall
      <3> QED
        BY <2>1, <3>1, Zenon DEF CallOf
    <2>3. ASSUME NEW u \in Threads \ {t}, pc[u] \in {"token", "ack", "canary", "retval", "addr"}
          PROVE  cur[u] \in Socks /\ cur[u] # c
      <3>1. PICK d \in Socks : cur[u] = d /\ owner[d] = u
        BY <2>3, CurrentCall, Zenon
      <3> QED
        BY <2>1, <3>1, Zenon
    <2>4. /\ copen' = [copen EXCEPT ![c] = FALSE] /\ pc' = [pc EXCEPT ![t] = "idle"]
          /\ UNCHANGED <<cur, call, nsock>>
      BY <1>4, <2>1, Zenon DEF GetRetval, ReadAddr
    <2>5. copen \in [Socks -> BOOLEAN]
      BY Zenon DEF IInv, TypeOK
    <2> QED
      BY <1>2, <2>2, <2>3, <2>4, <2>5, ZenonT(60) DEF Opened
  <1>5. ASSUME NEW t \in Threads, UNCHANGED <<cur, call, nsock, copen>>,
               \A u \in Threads : pc'[u] \in {"token", "ack", "canary", "retval", "addr"} =>
                                    pc[u] \in {"token", "ack", "canary", "retval", "addr"}
        PROVE  Opened'
    BY <1>5, Zenon DEF Opened
  <1>6. ASSUME NEW t \in Threads,
               Begin(t) \/ WriteData(t) \/ Lock(t) \/ TokenFails(t) \/ SendRpc(t) \/ ReadAck(t) \/ SendCanary(t)
        PROVE  Opened'
    <2>1. UNCHANGED <<cur, call, nsock, copen>>
      BY <1>6, Zenon DEF Begin, WriteData, Lock, TokenFails, SendRpc, ReadAck, SendCanary
    <2>2. CASE Begin(t) \/ WriteData(t) \/ Lock(t) \/ TokenFails(t)
      BY <1>2, <1>5, <2>1, <2>2, ZenonT(60) DEF Begin, WriteData, Lock, TokenFails
    <2>3. CASE SendRpc(t) \/ ReadAck(t) \/ SendCanary(t)
      BY <1>2, <1>5, <2>1, <2>3, Zenon DEF SendRpc, ReadAck, SendCanary
    <2> QED
      BY <1>6, <2>2, <2>3, Zenon
  <1> QED
    BY <1>1, <1>3, <1>4, <1>6, Sides, Zenon DEF Client

\* A data socket that a thread may use stays one.
LEMMA UsableKept ==
  ASSUME IInv, [Next]_vars, NEW s \in Socks, NEW t \in Threads, Usable(s, t)
  PROVE  Usable(s, t)'
  <1>1. s <= nsock
    BY KnownSocket, Zenon DEF Usable
  <1> QED
    BY <1>1, Past, Zenon DEF Usable

\* A call names a data socket of the caller's process, and of the caller
\* itself unless the threads share their sockets.
LEMMA WantedNext ==
  ASSUME IInv, Wanted, [Next]_vars
  PROVE  Wanted'
  <1>1. /\ pc \in [Threads -> {"idle", "lock", "join", "token", "ack", "canary", "retval", "addr"}]
        /\ want \in [Threads -> Call]
    BY Zenon DEF IInv, TypeOK
  <1>2. \A t \in Threads : pc[t] # "idle" /\ want[t].fd # 0 => want[t].fd \in Socks
    BY CalledSocket, Zenon DEF IInv, InCall, CallOf
  <1>3. ASSUME want' = want, \A t \in Threads : pc'[t] # "idle" => pc[t] # "idle"
        PROVE  Wanted'
    BY <1>2, <1>3, UsableKept, Zenon DEF Wanted
  <1>4. ASSUME NEW t \in Threads, Begin(t)
        PROVE  Wanted'
    <2>1. PICK cmd \in Cmds, fd \in Fds(t) \cup {0}, arg \in Ports \cup {NoPort} :
            want' = [want EXCEPT ![t] = [cmd |-> cmd, fd |-> fd, arg |-> arg]]
      BY <1>4, Zenon DEF Begin
    <2>2. want'[t].fd = fd /\ \A u \in Threads \ {t} : want'[u] = want[u] /\ pc'[u] = pc[u]
      BY <1>1, <1>4, <2>1, Zenon DEF Begin
    <2>3. fd # 0 => fd \in Socks /\ Usable(fd, t)
      BY <2>1, Zenon DEF Fds, Usable
    <2> QED
      BY <1>2, <2>2, <2>3, UsableKept, Zenon DEF Wanted
  <1>5. ASSUME NEW t \in Threads, WriteData(t) \/ Client(t)
        PROVE  Wanted'
    <2>1. CASE WriteData(t) \/ Lock(t) \/ Join(t) \/ TokenFails(t) \/ SendRpc(t)
      BY <1>1, <1>3, <2>1, Zenon DEF WriteData, Lock, Join, TokenFails, SendRpc
    <2>2. CASE ReadAck(t) \/ SendCanary(t) \/ GetRetval(t) \/ ReadAddr(t)
      BY <1>1, <1>3, <2>2, Zenon DEF ReadAck, SendCanary, GetRetval, ReadAddr
    <2> QED
      BY <1>5, <2>1, <2>2, Zenon DEF Client
  <1>6. CASE UNCHANGED appvars
    BY <1>3, <1>6, Zenon DEF appvars
  <1> QED
    BY <1>4, <1>5, <1>6, Sides, Zenon

\* Two threads are not in the same call.
LEMMA Distinct ==
  ASSUME IInv, NEW t \in Threads, NEW u \in Threads, t # u,
         pc[t] \in {"token", "ack", "canary", "retval", "addr"},
         pc[u] \in {"token", "ack", "canary", "retval", "addr"}
  PROVE  cur[t] \in Socks /\ cur[u] \in Socks /\ cur[t] # cur[u]
  <1>1. PICK c \in Socks : cur[t] = c /\ owner[c] = t
    BY CurrentCall, Zenon
  <1>2. PICK d \in Socks : cur[u] = d /\ owner[d] = u
    BY CurrentCall, Zenon
  <1> QED
    BY <1>1, <1>2, Zenon

\* A call that gets no answer does not succeed.
LEMMA NoReply ==
  ASSUME IInv, NEW t \in Threads, Begin(t) \/ WriteData(t) \/ Client(t),
         NEW s \in Socks, down[s] = <<>>
  PROVE  down'[s] = <<>> /\ (result[s] # "ok" => result'[s] # "ok")
  <1>1. /\ down \in [Socks -> Seq(Reply)]
        /\ result \in [Socks -> Reply \cup {"none"}]
    BY Zenon DEF IInv, TypeOK
  <1>2. CASE TokenFails(t)
    BY <1>1, <1>2, Zenon DEF TokenFails
  <1>3. CASE ReadAck(t) \/ GetRetval(t) \/ ReadAddr(t)
    <2>1. PICK c \in Socks : cur[t] = c
      BY <1>3, CurrentCall, Zenon DEF ReadAck, GetRetval, ReadAddr
    <2>2. s # c
      BY <1>3, <2>1, Zenon DEF ReadAck, GetRetval, ReadAddr
    <2> QED
      BY <1>1, <1>3, <2>1, <2>2, Zenon DEF ReadAck, GetRetval, ReadAddr
  <1>4. CASE down' = down /\ result' = result
    BY <1>4, Zenon
  <1> QED
    BY <1>2, <1>3, <1>4, ZenonT(60) DEF Client, Begin, WriteData, Lock, Join, SendRpc, SendCanary

\* The service hears of a call after it has accepted its socket.
LEMMA UnheardNext ==
  ASSUME IInv, IInv', Listed, Unheard, [Next]_vars
  PROVE  Unheard'
  <1>1. nacc \in Nat /\ Socks \subseteq Nat
    BY ConstantsAssumption, SMTT(90) DEF IInv, TypeOK, Socks
  <1>2. ASSUME NEW t \in Threads, Begin(t) \/ WriteData(t) \/ Client(t), UNCHANGED svcvars
        PROVE  Unheard'
    BY <1>2, NoReply, Zenon DEF Unheard, svcvars
  <1>3. CASE Quiet
    BY <1>3, Zenon DEF Quiet, appvars, Unheard
  <1>4. CASE Select
    BY <1>4, Zenon DEF Select, appvars, Unheard
  <1>5. CASE Accept
    <2>1. \A s \in Socks : s > nacc' => s > nacc
      <3>1. nacc' = nacc + 1
        BY <1>5, Zenon DEF Accept
      <3> QED
        BY <1>1, <3>1
    <2> QED
      BY <1>5, <2>1, Zenon DEF Accept, appvars, Unheard
  <1>6. ASSUME NEW s \in Socks, Eof(s)
        PROVE  Unheard'
    BY <1>6, Zenon DEF Eof, appvars, Unheard
  <1>7. ASSUME NEW s \in Socks, IsNext(s)
        PROVE  \A r \in Socks : r > nacc => r # s
    <2>1. s <= nacc
      BY <1>7, Zenon DEF IsNext, Listed
    <2> QED
      BY <1>1, <2>1
  <1>8. ASSUME NEW s \in Socks, RpcRead(s)
        PROVE  Unheard'
    <2>1. \A r \in Socks : r \in conns' => r \in conns \/ r = s
      <3>1. conns' = conns \/ conns' = conns \cup {s}
        BY <1>8, Zenon DEF RpcRead
      <3> QED
        BY <3>1, Zenon
    <2>2. /\ UNCHANGED <<appvars, nacc, done>> /\ IsNext(s)
          /\ \A r \in Socks : r # s => down'[r] = down[r] /\ jobmap'[r] = jobmap[r]
      BY <1>8, Zenon DEF RpcRead
    <2> QED
      BY <1>7, <2>1, <2>2, Zenon DEF appvars, Unheard
  <1>9. ASSUME NEW s \in Socks, NEW k, DataRead(s, k)
        PROVE  Unheard'
    BY <1>9, Zenon DEF DataRead, StreamRead, appvars, Unheard
  <1>10. ASSUME NEW s \in Socks, NEW k, NEW p, NEW c \in Socks, CanaryRead(s, k, p, c)
         PROVE  Unheard'
    <2>1. jobmap[c] # 0
      <3>1. jobmap[c] = c
        BY <1>10, Zenon DEF CanaryRead, Registered
      <3> QED
        BY <3>1 DEF Socks
    <2>2. \A r \in Socks : r > nacc => r # c
      BY <2>1, Zenon DEF Unheard
    <2>3. /\ jobmap \in [Socks -> 0 .. MaxSocks]
          /\ done \in [Socks -> AllCmds \cup {"none"}]
      BY Zenon DEF IInv, TypeOK
    <2>4. \A r \in Socks : r # c => down'[r] = down[r] /\ jobmap'[r] = jobmap[r] /\ done'[r] = done[r]
      BY <1>10, <2>3, Zenon DEF CanaryRead
    <2>5. UNCHANGED <<appvars, nacc, conns>>
      BY <1>10, Zenon DEF CanaryRead, StreamRead
    <2> QED
      BY <2>2, <2>4, <2>5, Zenon DEF Unheard, appvars
  <1> QED
    BY <1>2, <1>3, <1>4, <1>5, <1>6, <1>8, <1>9, <1>10, Steps, ZenonT(60)

\* The ACK is the answer to the RPC, and nothing else is written to rpc_sock
\* before the canary is in the stream.
LEMMA AckedNext ==
  ASSUME IInv, Acked, [Next]_vars
  PROVE  Acked'
  <1>1. /\ pc \in [Threads -> {"idle", "lock", "join", "token", "ack", "canary", "retval", "addr"}]
        /\ up \in [Socks -> Seq(Item)] /\ down \in [Socks -> Seq(Reply)]
        /\ cur \in [Threads -> 0 .. MaxSocks]
    BY Zenon DEF IInv, TypeOK
  <1> DEFINE A(u) == /\ pc[u] = "ack" => \/ /\ up[cur[u]] = <<[k |-> "rpc", n |-> cur[u]]>>
                                            /\ down[cur[u]] = <<>>
                                         \/ /\ up[cur[u]] = <<>>
                                            /\ down[cur[u]] = <<"z">>
                     /\ pc[u] = "canary" => down[cur[u]] = <<>>
  <1>2. Acked <=> \A u \in Threads : A(u)
    BY Zenon DEF Acked
  <1>3. Acked' <=> \A u \in Threads : A(u)'
    BY Zenon DEF Acked
  <1> HIDE DEF A
  <1>4. ASSUME NEW u \in Threads, pc'[u] \in {"ack", "canary"} => pc'[u] = pc[u] /\ cur'[u] = cur[u],
               pc'[u] = "ack" => up'[cur[u]] = up[cur[u]] /\ down'[cur[u]] = down[cur[u]],
               pc'[u] = "canary" => down'[cur[u]] = down[cur[u]]
        PROVE  A(u)'
    BY <1>2, <1>4, Zenon DEF A
  <1>5. ASSUME NEW u \in Threads, pc[u] \in {"ack", "canary"}
        PROVE  cur[u] \in Socks /\ result[cur[u]] # "ok"
    BY <1>5, CurrentCall, Zenon
  <1>6. ASSUME NEW t \in Threads, Begin(t) \/ Lock(t) \/ TokenFails(t) \/ Join(t)
        PROVE  Acked'
    BY <1>1, <1>3, <1>4, <1>6, Zenon DEF Begin, Lock, TokenFails, Join
  <1>7. ASSUME NEW t \in Threads, WriteData(t)
        PROVE  Acked'
    <2>1. PICK s \in Socks : result[s] = "ok" /\ \E x : up' = [up EXCEPT ![s] = Append(@, x)]
      BY <1>7, Zenon DEF WriteData, Fds
    <2> QED
      BY <1>1, <1>3, <1>4, <1>5, <1>7, <2>1, ZenonT(60) DEF WriteData
  <1>8. ASSUME NEW t \in Threads, SendRpc(t)
        PROVE  Acked'
    <2>1. PICK c \in Socks : cur[t] = c /\ up[c] = <<>> /\ down[c] = <<>>
      <3>1. PICK c \in Socks : cur[t] = c
        BY <1>8, CurrentCall, Zenon DEF SendRpc
      <3>2. pc[t] = "token" /\ CallOf(t)
        BY <1>8, Zenon DEF SendRpc, IInv, InCall
      <3> QED
        BY <3>1, <3>2, Zenon DEF CallOf
    <2>2. up'[c] = <<[k |-> "rpc", n |-> c]>>
      <3>1. up'[c] = Append(<<>>, [k |-> "rpc", n |-> c])
        BY <1>1, <1>8, <2>1, Zenon DEF SendRpc
      <3> QED
        BY <3>1
    <2>3. A(t)'
      BY <1>1, <1>8, <2>1, <2>2, Zenon DEF SendRpc, A
    <2>4. \A u \in Threads \ {t} : A(u)'
      <3>1. SUFFICES ASSUME NEW u \in Threads \ {t}
                     PROVE  A(u)'
        BY Zenon
      <3>2. pc'[u] = pc[u] /\ cur' = cur /\ down' = down
        BY <1>1, <1>8, Zenon DEF SendRpc
      <3>3. pc[u] = "ack" => up'[cur[u]] = up[cur[u]]
        BY <1>1, <1>5, <1>8, <2>1, Distinct, Zenon DEF SendRpc
      <3> QED
        BY <1>4, <3>2, <3>3, Zenon
    <2> QED
      BY <1>3, <2>3, <2>4, Zenon
  <1>9. ASSUME NEW t \in Threads, NEW c \in Socks, cur[t] = c, cur' = cur, up' = up,
               pc[t] \in {"ack", "retval", "addr"},
               \A u \in Threads \ {t} : pc'[u] = pc[u],
               down' = [down EXCEPT ![c] = Tail(@)]
        PROVE  \A u \in Threads \ {t} : A(u)'
    BY <1>1, <1>4, <1>5, <1>9, Distinct, Zenon
  <1>10. ASSUME NEW t \in Threads, ReadAck(t) \/ GetRetval(t) \/ ReadAddr(t)
         PROVE  Acked'
    <2>1. PICK c \in Socks : cur[t] = c
      BY <1>10, CurrentCall, Zenon DEF ReadAck, GetRetval, ReadAddr
    <2>2. \A u \in Threads \ {t} : A(u)'
      BY <1>1, <1>9, <1>10, <2>1, Zenon DEF ReadAck, GetRetval, ReadAddr
    <2>3. CASE GetRetval(t) \/ ReadAddr(t)
      BY <1>1, <1>3, <2>2, <2>3, Zenon DEF GetRetval, ReadAddr, A
    <2>4. CASE ReadAck(t)
      <3>1. down[c] = <<"z">>
        BY <1>2, <2>1, <2>4, Zenon DEF ReadAck, A
      <3>2. Tail(down[c]) = <<>>
        BY <3>1
      <3>3. down'[c] = <<>> /\ cur' = cur /\ pc'[t] # "ack"
        BY <1>1, <2>1, <2>4, <3>2, Zenon DEF ReadAck
      <3> QED
        BY <1>3, <2>1, <2>2, <3>3, Zenon DEF A
    <2> QED
      BY <1>10, <2>3, <2>4, Zenon
  <1>11. ASSUME NEW t \in Threads, SendCanary(t)
         PROVE  Acked'
    <2>1. want[t].fd \in Socks /\ result[want[t].fd] = "ok"
      <3>1. pc[t] = "canary" /\ CallOf(t)
        BY <1>11, Zenon DEF SendCanary, IInv, InCall
      <3> QED
        BY <3>1, CalledSocket, Zenon DEF CallOf
    <2>2. /\ cur' = cur /\ down' = down
          /\ pc'[t] \notin {"ack", "canary"} /\ \A u \in Threads \ {t} : pc'[u] = pc[u]
      BY <1>1, <1>11, Zenon DEF SendCanary
    <2>3. \A s \in Socks : s # want[t].fd => up'[s] = up[s]
      BY <1>1, <1>11, Zenon DEF SendCanary
    <2> QED
      BY <1>3, <1>4, <1>5, <2>1, <2>2, <2>3, ZenonT(60)
  <1>12. ASSUME UNCHANGED <<appvars, up, down>>
         PROVE  Acked'
    BY <1>12, Zenon DEF Acked, appvars
  <1>13. CASE Quiet \/ Select \/ Accept \/ \E s \in Socks : Eof(s)
    BY <1>12, <1>13, Zenon DEF Quiet, Select, Accept, Eof
  <1>14. ASSUME NEW s \in Socks, RpcRead(s)
         PROVE  Acked'
    <2>1. /\ up'[s] = <<>> /\ down'[s] = <<"z">> /\ pc' = pc /\ cur' = cur
          /\ \A r \in Socks : r # s => up'[r] = up[r] /\ down'[r] = down[r]
      BY <1>14, Zenon DEF RpcRead, appvars
    <2>2. \A u \in Threads : pc[u] = "canary" => cur[u] # s
      <3>1. owner[s] \in Threads /\ pc[owner[s]] = "ack" /\ cur[owner[s]] = s
        BY <1>14, Zenon DEF RpcRead
      <3> QED
        BY <3>1, Distinct, Zenon
    <2> SUFFICES ASSUME NEW u \in Threads
                 PROVE  A(u)'
      BY <1>3, Zenon
    <2>3. CASE cur[u] = s
      BY <2>1, <2>2, <2>3, Zenon DEF A
    <2>4. CASE cur[u] # s
      BY <1>4, <1>5, <2>1, <2>4, Zenon
    <2> QED
      BY <2>3, <2>4, Zenon
  <1>15. ASSUME NEW s \in Socks, NEW k, StreamRead(s, k)
         PROVE  /\ \A u \in Threads : pc[u] = "ack" => up'[cur[u]] = up[cur[u]]
                /\ pc' = pc /\ cur' = cur
    <2>1. /\ up[s] # <<>> /\ \A r \in Socks : r # s => up'[r] = up[r]
          /\ pc' = pc /\ cur' = cur
      BY <1>15, Zenon DEF StreamRead, Consumed, appvars
    <2>2. up[s] # <<[k |-> "rpc", n |-> s]>>
      <3>1. \A i \in 1 .. Len(up[s]) : up[s][i].k # "rpc"
        BY <1>15, Zenon DEF StreamRead
      <3> QED
        BY <3>1
    <2>3. \A u \in Threads : pc[u] = "ack" => cur[u] # s
      BY <1>2, <2>1, <2>2, Zenon DEF A
    <2> QED
      BY <1>5, <2>1, <2>3, Zenon
  <1>16. ASSUME NEW s \in Socks, NEW k, DataRead(s, k)
         PROVE  Acked'
    BY <1>3, <1>4, <1>15, <1>16, Zenon DEF DataRead
  <1>17. ASSUME NEW s \in Socks, NEW k, NEW p, NEW c \in Socks, CanaryRead(s, k, p, c)
         PROVE  Acked'
    <2>1. \A r \in Socks : r # c => down'[r] = down[r]
      BY <1>17, Zenon DEF CanaryRead
    <2>2. \A u \in Threads : pc[u] \in {"ack", "canary"} => cur[u] # c
      BY <1>17, Zenon DEF CanaryRead, Registered, Before
    <2> QED
      BY <1>3, <1>4, <1>5, <1>15, <1>17, <2>1, <2>2, ZenonT(60) DEF CanaryRead
  <1> QED
    BY <1>6, <1>7, <1>8, <1>10, <1>11, <1>13, <1>14, <1>16, <1>17, Steps, ZenonT(60) DEF Client

\* What is known so far.
Base == IInv /\ Mutex /\ Listed /\ Opened /\ Unheard /\ Acked /\ Wanted

\* Nothing has happened yet.
LEMMA BaseInit == Init => Base
  <1> SUFFICES ASSUME Init
               PROVE  Base
    BY Zenon
  <1>1. IInv
    BY InitInv, Zenon
  <1>2. Mutex /\ Opened /\ Acked /\ Wanted /\ Unheard
    <2>1. \A s \in Socks : ~(s <= nsock)
      BY ConstantsAssumption DEF Init, Socks
    <2> QED
      BY <2>1, Zenon DEF Init, Mutex, Holding, Opened, Acked, Wanted, Unheard
  <1>3. Listed
    <2>1. \A s \in Socks : ~(s <= nacc)
      BY ConstantsAssumption DEF Init, Socks
    <2>2. nacc <= nsock
      BY DEF Init
    <2> QED
      BY <2>1, <2>2, Zenon DEF Init, Listed
  <1> QED
    BY <1>1, <1>2, <1>3, Zenon DEF Base

\* Every step keeps it.
LEMMA BaseNext ==
  ASSUME Base, [Next]_vars
  PROVE  Base'
  <1>1. IInv'
    BY NextInv, Zenon DEF Base
  <1> QED
    BY <1>1, MutexNext, ListedNext, OpenedNext, UnheardNext, AckedNext, WantedNext, Zenon DEF Base

----------------------------------------------------------------------------
(***************************************************************************)
(* What the streams carry.                                                 *)
(***************************************************************************)

\* The RPC of the call of t has not been read yet; or it has, and the canary
\* is not in the stream yet.
Waiting(t) == pc[t] = "token" \/ (pc[t] = "ack" /\ up[cur[t]] # <<>>)
Answered(t) == (pc[t] = "ack" /\ up[cur[t]] = <<>>) \/ pc[t] = "canary"

\* Call c waits for its return value, and its canary is in stream s.
Pended(s, c) ==
  /\ owner[c] \in Threads
  /\ pc[owner[c]] \in {"retval", "addr"}
  /\ cur[owner[c]] = c
  /\ down[c] = <<>>
  /\ Usable(s, owner[c])

\* Data and canaries are in the streams of data sockets.
Items ==
  \A s \in Socks : \A i \in 1 .. Len(up[s]) :
    /\ up[s][i].k # "rpc" => /\ call[s].cmd = "SOCKET"
                             /\ result[s] = "ok"
                             /\ owner[s] \in Threads
    /\ up[s][i].k = "canary" => Pended(s, up[s][i].n)

\* The buffer of a Unix socket holds what was written.
Room == \A s \in Socks : Len(up[s]) <= SockBuf

\* Thread t has written x to s.
Written(t, s, x) ==
  /\ Extended(s, x)
  /\ Len(up[s]) < SockBuf
  /\ \/ x.k = "rpc" /\ SendRpc(t) /\ s = cur[t] /\ up[s] = <<>>
     \/ /\ x.k \in {"data", "pad"} /\ (x.k = "pad" => Padded) /\ WriteData(t) /\ s \in Fds(t)
        /\ x.n = sent[s] + 1 /\ sent' = [sent EXCEPT ![s] = sent[s] + 1]
     \/ x.k = "canary" /\ SendCanary(t) /\ s = want[t].fd /\ x.n = cur[t]

\* The application writes RPCs, data and canaries.
LEMMA Writes ==
  ASSUME IInv, NEW t \in Threads, Begin(t) \/ WriteData(t) \/ Client(t)
  PROVE  \/ /\ up' = up
            /\ \/ Begin(t) \/ Lock(t) \/ Join(t) \/ TokenFails(t)
               \/ ReadAck(t) \/ GetRetval(t) \/ ReadAddr(t)
         \/ \E s \in Socks, x \in Item : Written(t, s, x)
  <1>1. CASE WriteData(t)
    <2>1. PICK s \in Fds(t), k \in {"data", "pad"} :
            /\ k = "pad" => Padded
            /\ sent[s] < MaxData
            /\ Len(up[s]) < SockBuf
            /\ sent' = [sent EXCEPT ![s] = @ + 1]
            /\ up' = [up EXCEPT ![s] = Append(@, [k |-> k, n |-> sent[s] + 1])]
      BY <1>1, Zenon DEF WriteData
    <2>2. s \in Socks
      BY <2>1, Zenon DEF Fds
    <2>3. PICK x \in Item : x = [k |-> k, n |-> sent[s] + 1]
      <3>1. sent[s] \in 0 .. MaxData
        BY <2>2, Zenon DEF IInv, TypeOK
      <3>2. sent[s] + 1 \in 0 .. MaxData
        BY <2>1, <3>1, ConstantsAssumption
      <3> QED
        BY <3>2, Zenon DEF Item
    <2>4. Extended(s, x)
      BY <2>1, <2>2, <2>3, AppendItem, Zenon DEF IInv
    <2>5. sent' = [sent EXCEPT ![s] = sent[s] + 1]
      BY <2>1, Zenon
    <2>6. x.k \in {"data", "pad"} /\ (x.k = "pad" => Padded) /\ x.n = sent[s] + 1
      BY <2>1, <2>3, Zenon
    <2> QED
      BY <1>1, <2>1, <2>2, <2>4, <2>5, <2>6, Zenon DEF Written
  <1>2. CASE SendRpc(t)
    <2>1. PICK c \in Socks : cur[t] = c
      BY <1>2, CurrentCall, Zenon DEF SendRpc
    <2>2. up[c] = <<>>
      <3>1. pc[t] = "token" /\ CallOf(t)
        BY <1>2, Zenon DEF SendRpc, IInv, InCall
      <3> QED
        BY <2>1, <3>1, Zenon DEF CallOf
    <2>3. PICK x \in Item : x = [k |-> "rpc", n |-> c]
      BY <2>1, Zenon DEF Item
    <2>4. Extended(c, x)
      BY <1>2, <2>1, <2>3, AppendItem, Zenon DEF IInv, SendRpc
    <2>5. x.k = "rpc" /\ Len(up[c]) < SockBuf
      BY <2>2, <2>3, ConstantsAssumption
    <2> QED
      BY <1>2, <2>1, <2>2, <2>4, <2>5, Zenon DEF Written
  <1>3. CASE SendCanary(t)
    <2>1. PICK c \in Socks : cur[t] = c
      BY <1>3, CurrentCall, Zenon DEF SendCanary
    <2>2. want[t].fd \in Socks
      <3>1. pc[t] = "canary" /\ CallOf(t)
        BY <1>3, Zenon DEF SendCanary, IInv, InCall
      <3> QED
        BY <3>1, CalledSocket, Zenon DEF CallOf
    <2>3. PICK x \in Item : x = [k |-> "canary", n |-> c]
      BY <2>1, Zenon DEF Item
    <2>4. Extended(want[t].fd, x)
      BY <1>3, <2>1, <2>2, <2>3, AppendItem, Zenon DEF IInv, SendCanary
    <2>5. x.k = "canary" /\ x.n = c
      BY <2>3
    <2>6. Len(up[want[t].fd]) < SockBuf
      BY <1>3, Zenon DEF SendCanary
    <2> QED
      BY <1>3, <2>1, <2>2, <2>4, <2>5, <2>6, Zenon DEF Written
  <1>4. CASE Begin(t) \/ Lock(t) \/ Join(t) \/ TokenFails(t) \/ ReadAck(t) \/ GetRetval(t) \/ ReadAddr(t)
    BY <1>4, Zenon DEF Begin, Lock, Join, TokenFails, ReadAck, GetRetval, ReadAddr
  <1> QED
    BY <1>1, <1>2, <1>3, <1>4, Zenon DEF Client

\* A step of one thread is none of another.
LEMMA OthersStay ==
  ASSUME IInv, NEW t \in Threads, Begin(t) \/ WriteData(t) \/ Client(t),
         NEW u \in Threads, u # t
  PROVE  pc'[u] = pc[u] /\ cur'[u] = cur[u] /\ want'[u] = want[u]
  <1>1. /\ pc \in [Threads -> {"idle", "lock", "join", "token", "ack", "canary", "retval", "addr"}]
        /\ cur \in [Threads -> 0 .. MaxSocks]
        /\ want \in [Threads -> Call]
    BY Zenon DEF IInv, TypeOK
  <1>2. CASE Begin(t) \/ WriteData(t) \/ Lock(t) \/ Join(t) \/ TokenFails(t)
    BY <1>1, <1>2, Zenon DEF Begin, WriteData, Lock, Join, TokenFails
  <1>3. CASE SendRpc(t) \/ ReadAck(t) \/ SendCanary(t) \/ GetRetval(t) \/ ReadAddr(t)
    BY <1>1, <1>3, Zenon DEF SendRpc, ReadAck, SendCanary, GetRetval, ReadAddr
  <1> QED
    BY <1>2, <1>3, Zenon DEF Client

\* A call waits for its return value until there is one.
LEMMA PendedKept ==
  ASSUME IInv, [Next]_vars, NEW s \in Socks, NEW c \in Socks,
         Pended(s, c), c <= nsock, down'[c] = <<>>
  PROVE  Pended(s, c)'
  <1>1. PICK o \in Threads : /\ owner[c] = o /\ pc[o] \in {"retval", "addr"} /\ cur[o] = c
                             /\ down[c] = <<>> /\ Usable(s, o)
    BY Zenon DEF Pended
  <1>2. pc'[o] = pc[o] /\ cur'[o] = cur[o]
    <2>1. ASSUME NEW t \in Threads, Begin(t) \/ WriteData(t) \/ Client(t)
          PROVE  t # o
      BY <1>1, <2>1, ZenonT(60) DEF Begin, WriteData, Client, Lock, Join, TokenFails, SendRpc,
         ReadAck, SendCanary, GetRetval, ReadAddr
    <2> QED
      BY <2>1, OthersStay, Sides, Zenon DEF appvars
  <1>3. owner'[c] = o
    BY <1>1, Past, Zenon
  <1>4. Usable(s, o)'
    BY <1>1, UsableKept, Zenon
  <1> QED
    BY <1>1, <1>2, <1>3, <1>4, Zenon DEF Pended

\* An item that is in a stream before and after a step.
LEMMA ItemKept ==
  ASSUME IInv, Items, [Next]_vars, NEW s \in Socks, NEW j \in 1 .. Len(up[s]),
         NEW x, x = up[s][j],
         x.k = "canary" => down'[x.n] = <<>>
  PROVE  /\ x.k # "rpc" => /\ call'[s].cmd = "SOCKET"
                           /\ result'[s] = "ok"
                           /\ owner'[s] \in Threads
         /\ x.k = "canary" => Pended(s, x.n)'
  <1>1. x.k # "rpc" => s <= nsock
    BY KnownSocket, Zenon DEF Items
  <1>2. x.k # "rpc" => /\ call'[s].cmd = "SOCKET"
                       /\ result'[s] = "ok"
                       /\ owner'[s] \in Threads
    BY <1>1, Past, ZenonT(60) DEF Items
  <1>3. ASSUME x.k = "canary"
        PROVE  Pended(s, x.n)'
    <2>1. PICK c \in Socks : c = x.n /\ c <= nsock
      BY <1>3, ItemKinds, Zenon DEF IInv, Canaries, Registered
    <2>2. Pended(s, c)
      BY <1>3, <2>1, Zenon DEF Items
    <2>3. Pended(s, c)'
      BY <1>3, <2>1, <2>2, PendedKept, Zenon
    <2> QED
      BY <2>1, <2>3, Zenon
  <1> QED
    BY <1>2, <1>3, Zenon

\* Data is written to sockets that RPC_SOCKET has returned, and so are the
\* canaries; a caller gets its return value after its canary has been read.
LEMMA ItemsNext ==
  ASSUME Base, Items, [Next]_vars
  PROVE  Items'
  <1> DEFINE Fine(s, x) == /\ x.k # "rpc" => /\ call'[s].cmd = "SOCKET"
                                             /\ result'[s] = "ok"
                                             /\ owner'[s] \in Threads
                           /\ x.k = "canary" => Pended(s, x.n)'
  <1>1. ASSUME \A s \in Socks : \A i \in 1 .. Len(up'[s]) : \A x : x = up'[s][i] => Fine(s, x)
        PROVE  Items'
    <2> SUFFICES ASSUME NEW s \in Socks, NEW i \in 1 .. Len(up'[s])
                 PROVE  (/\ up[s][i].k # "rpc" => /\ call[s].cmd = "SOCKET"
                                                  /\ result[s] = "ok"
                                                  /\ owner[s] \in Threads
                         /\ up[s][i].k = "canary" => Pended(s, up[s][i].n))'
      BY Zenon DEF Items
    <2>1. PICK x : x = up'[s][i]
      BY Zenon
    <2>2. Fine(s, x)
      BY <1>1, <2>1, Zenon
    <2>3. x.k = "canary" => Pended(s, up[s][i].n)'
      BY <2>1, <2>2, Zenon DEF Pended, Usable
    <2> QED
      BY <2>1, <2>2, <2>3, Zenon
  <1>2. ASSUME NEW s \in Socks, NEW j \in 1 .. Len(up[s]), NEW x, x = up[s][j],
               x.k = "canary" => down'[x.n] = <<>>
        PROVE  Fine(s, x)
    BY <1>2, ItemKept, Zenon DEF Base
  <1> HIDE DEF Fine
  <1>3. ASSUME NEW s \in Socks, NEW j \in 1 .. Len(up[s]), up[s][j].k = "canary"
        PROVE  \E c \in Socks : /\ up[s][j].n = c /\ down[c] = <<>>
                                /\ owner[c] \in Threads /\ pc[owner[c]] \in {"retval", "addr"}
    <2>1. up[s][j].n \in Socks
      BY <1>3, ItemKinds, Zenon DEF Base, IInv
    <2>2. Pended(s, up[s][j].n)
      BY <1>3, Zenon DEF Items
    <2> QED
      BY <2>1, <2>2, Zenon DEF Pended
  <1>4. ASSUME down' = down, up' = up
        PROVE  Items'
    <2>1. \A s \in Socks : \A i \in 1 .. Len(up'[s]) :
            i \in 1 .. Len(up[s]) /\ up'[s][i] = up[s][i]
      BY <1>4, Zenon
    <2>2. \A s \in Socks : \A i \in 1 .. Len(up[s]) : \A x :
            x = up[s][i] /\ x.k = "canary" => down'[x.n] = <<>>
      BY <1>3, <1>4, ZenonT(60)
    <2>3. \A s \in Socks : \A i \in 1 .. Len(up[s]) : \A x : x = up[s][i] => Fine(s, x)
      BY <1>2, <2>2, Zenon
    <2> QED
      BY <1>1, <2>1, <2>3, Zenon
  <1>5. CASE Quiet \/ Select \/ Accept \/ \E s \in Socks : Eof(s)
    BY <1>4, <1>5, Zenon DEF Quiet, Select, Accept, Eof
  <1>6. ASSUME NEW t \in Threads, Begin(t) \/ WriteData(t) \/ Client(t)
        PROVE  Items'
    <2>1. ASSUME NEW s \in Socks, NEW j \in 1 .. Len(up[s])
          PROVE  \A x : x = up[s][j] => Fine(s, x)
      <3> SUFFICES ASSUME NEW x, x = up[s][j]
                   PROVE  Fine(s, x)
        BY Zenon
      <3>1. ASSUME x.k = "canary"
            PROVE  down'[x.n] = <<>>
        <4>1. PICK c \in Socks : x.n = c /\ down[c] = <<>>
          BY <1>3, <3>1, Zenon
        <4> QED
          BY <1>6, <4>1, NoReply, Zenon DEF Base
      <3> QED
        BY <1>2, <3>1, Zenon
    <2>2. CASE up' = up
      BY <1>1, <2>1, <2>2, Zenon
    <2>3. ASSUME NEW s \in Socks, NEW x \in Item, Written(t, s, x)
          PROVE  Items'
      <3>1. Fine(s, x)
        <4>1. CASE x.k = "rpc"
          BY <4>1, Zenon DEF Fine
        <4>2. CASE x.k \in {"data", "pad"} /\ WriteData(t) /\ s \in Fds(t)
          BY <4>2, Zenon DEF Fine, WriteData, Fds
        <4>3. CASE x.k = "canary" /\ SendCanary(t) /\ s = want[t].fd /\ x.n = cur[t]
          <5>1. pc[t] = "canary" /\ CallOf(t)
            BY <4>3, Zenon DEF SendCanary, Base, IInv, InCall
          <5>2. s # 0
            BY DEF Socks
          <5>3. Usable(s, t)
            BY <4>3, <5>1, <5>2, ZenonT(60) DEF Base, Wanted
          <5>4. UNCHANGED <<call, owner, result, cur, down>> /\ pc'[t] \in {"retval", "addr"}
            BY <4>3, Zenon DEF SendCanary, Base, IInv, TypeOK
          <5>5. owner[cur[t]] = t /\ down[cur[t]] = <<>>
            BY <5>1, Zenon DEF CallOf, Base, Acked
          <5> QED
            BY <4>3, <5>3, <5>4, <5>5, ZenonT(60) DEF Fine, Pended, Usable
        <4> QED
          BY <2>3, <4>1, <4>2, <4>3, ZenonT(60) DEF Written
      <3>2. \A r \in Socks : \A i \in 1 .. Len(up'[r]) :
              \/ i \in 1 .. Len(up[r]) /\ up'[r][i] = up[r][i]
              \/ r = s /\ up'[r][i] = x
        BY <2>3, Zenon DEF Written, Extended
      <3> QED
        BY <1>1, <2>1, <3>1, <3>2, ZenonT(60)
    <2> QED
      BY <1>6, <2>2, <2>3, Writes, Zenon DEF Base
  <1>7. ASSUME NEW s \in Socks, RpcRead(s)
        PROVE  Items'
    <2>1. /\ up'[s] = <<>> /\ \A r \in Socks : r # s => up'[r] = up[r] /\ down'[r] = down[r]
          /\ pc[owner[s]] = "ack"
      BY <1>7, Zenon DEF RpcRead
    <2>2. \A i \in 1 .. Len(up'[s]) : FALSE
      BY <2>1
    <2> SUFFICES ASSUME NEW r \in Socks, NEW i \in 1 .. Len(up'[r]), NEW x, x = up'[r][i]
                 PROVE  Fine(r, x)
      BY <1>1, Zenon
    <2>3. r # s /\ i \in 1 .. Len(up[r]) /\ x = up[r][i]
      BY <2>1, <2>2, Zenon
    <2>4. ASSUME x.k = "canary"
          PROVE  down'[x.n] = <<>>
      <3>1. PICK c \in Socks : x.n = c /\ down[c] = <<>> /\ pc[owner[c]] \in {"retval", "addr"}
        BY <1>3, <2>3, <2>4, ZenonT(60)
      <3> QED
        BY <2>1, <3>1, Zenon
    <2> QED
      BY <1>2, <2>3, <2>4, Zenon
  <1>8. ASSUME NEW s \in Socks, NEW k, Consumed(s, k),
               \A r \in Socks : \A j \in 1 .. Len(up[r]) :
                 (r = s => j > k) /\ up[r][j].k = "canary" => down'[up[r][j].n] = <<>>,
               k \in Nat
        PROVE  Items'
    <2> SUFFICES ASSUME NEW r \in Socks, NEW i \in 1 .. Len(up'[r]), NEW x, x = up'[r][i]
                 PROVE  Fine(r, x)
      BY <1>1, Zenon
    <2>1. CASE r # s
      <3>1. i \in 1 .. Len(up[r]) /\ x = up[r][i]
        BY <1>8, <2>1, Zenon DEF Consumed
      <3> QED
        BY <1>2, <1>8, <2>1, <3>1, ZenonT(60)
    <2>2. CASE r = s
      <3>1. /\ i + k \in 1 .. Len(up[s])
            /\ \/ up'[s][i] = up[s][i + k]
               \/ up[s][i + k].k = "canary" /\ up'[s][i].k \in {"data", "pad"}
        BY <1>8, <2>2, Zenon DEF Consumed
      <3>2. i + k > k
        BY <1>8
      <3>3. \A y : y = up[s][i + k] => Fine(s, y)
        BY <1>2, <1>8, <3>1, <3>2, ZenonT(60)
      <3>4. CASE up[s][i + k].k = "canary" /\ x.k \in {"data", "pad"}
        <4>1. "canary" # "rpc" /\ x.k # "canary"
          BY <3>4
        <4> QED
          BY <2>2, <3>3, <3>4, <4>1, ZenonT(60) DEF Fine
      <3> QED
        BY <2>2, <3>1, <3>3, <3>4, ZenonT(60)
    <2> QED
      BY <2>1, <2>2, Zenon
  <1>9. ASSUME NEW s \in Socks, NEW k \in Nat, DataRead(s, k)
        PROVE  Items'
    <2>1. Consumed(s, k) /\ down' = down
      BY <1>9, Zenon DEF DataRead, StreamRead
    <2>2. \A r \in Socks : \A j \in 1 .. Len(up[r]) :
            up[r][j].k = "canary" => down'[up[r][j].n] = <<>>
      BY <1>3, <2>1, Zenon
    <2> QED
      BY <1>8, <2>1, <2>2, Zenon
  <1>10. ASSUME NEW s \in Socks, NEW k \in Nat, NEW p \in Nat, NEW c \in Socks, CanaryRead(s, k, p, c)
         PROVE  Items'
    <2>1. /\ Consumed(s, k) /\ p \in 1 .. k /\ k \in 1 .. Len(up[s])
          /\ up[s][p].k = "canary" /\ up[s][p].n = c
          /\ \A r \in Socks : r # c => down'[r] = down[r]
      BY <1>10, Zenon DEF CanaryRead, StreamRead
    <2>2. p \in 1 .. Len(up[s]) /\ ~(p > k)
      BY <2>1
    <2>3. ASSUME NEW r \in Socks, NEW j \in 1 .. Len(up[r]), r = s => j > k, up[r][j].k = "canary"
          PROVE  down'[up[r][j].n] = <<>>
      <3>1. PICK d \in Socks : up[r][j].n = d /\ down[d] = <<>>
        BY <1>3, <2>3, ZenonT(60)
      <3>2. d = c => up[r][j] = up[s][p]
        <4>1. up[r][j] \in Item /\ up[s][p] \in Item
          BY <2>2, ItemKinds, ZenonT(60) DEF Base, IInv
        <4> QED
          BY <2>1, <2>3, <3>1, <4>1, SMTT(90) DEF Item
      <3>3. up[r][j] # up[s][p]
        <4>1. r = s => j # p
          BY <2>2, <2>3
        <4>2. Unique
          BY Zenon DEF Base, IInv
        <4> QED
          BY <2>1, <2>2, <2>3, <4>1, <4>2, SMTT(90) DEF Unique
      <3> QED
        BY <2>1, <3>1, <3>2, <3>3, Zenon
    <2>4. \A r \in Socks : \A j \in 1 .. Len(up[r]) :
            (r = s => j > k) /\ up[r][j].k = "canary" => down'[up[r][j].n] = <<>>
      <3> SUFFICES ASSUME NEW r \in Socks, NEW j \in 1 .. Len(up[r]),
                          r = s => j > k, up[r][j].k = "canary"
                   PROVE  down'[up[r][j].n] = <<>>
        BY Zenon
      <3> QED
        BY <2>3, Zenon
    <2> QED
      <3>1. Consumed(s, k)
        BY <2>1, Zenon
      <3> QED
        BY <1>8, <2>4, <3>1, SMTT(90)
  <1> QED
    BY <1>5, <1>6, <1>7, <1>9, <1>10, Steps, Zenon DEF Base

\* A write waits until there is room.
LEMMA RoomNext ==
  ASSUME IInv, IInv', Room, [Next]_vars
  PROVE  Room'
  <1>1. /\ SockBuf \in Nat
        /\ \A s \in Socks : Len(up[s]) \in Nat /\ Len(up'[s]) \in Nat
    BY ConstantsAssumption, SMTT(90) DEF IInv, TypeOK
  <1>2. ASSUME up' = up
        PROVE  Room'
    BY <1>2, Zenon DEF Room
  <1>3. ASSUME NEW t \in Threads, NEW s \in Socks, NEW x \in Item, Written(t, s, x)
        PROVE  Room'
    <2>1. /\ up'[s] = Append(up[s], x) /\ Len(up[s]) < SockBuf
          /\ \A r \in Socks : r # s => up'[r] = up[r]
      BY <1>3, Zenon DEF Written, Extended
    <2>2. up[s] \in Seq(Item)
      BY Zenon DEF IInv, TypeOK
    <2>3. Len(up'[s]) <= SockBuf
      BY <1>1, <2>1, <2>2
    <2> QED
      BY <2>1, <2>3, Zenon DEF Room
  <1>4. ASSUME NEW s \in Socks, Len(up'[s]) <= Len(up[s]), \A r \in Socks : r # s => up'[r] = up[r]
        PROVE  Room'
    BY <1>1, <1>4 DEF Room
  <1>5. ASSUME NEW s \in Socks, RpcRead(s)
        PROVE  Room'
    <2>1. up'[s] = <<>> /\ \A r \in Socks : r # s => up'[r] = up[r]
      BY <1>5, Zenon DEF RpcRead
    <2>2. Len(up'[s]) <= Len(up[s])
      BY <1>1, <2>1
    <2> QED
      BY <1>4, <2>1, <2>2, ZenonT(60)
  <1>6. ASSUME NEW s \in Socks, NEW k \in Nat, StreamRead(s, k)
        PROVE  Room'
    <2>1. Len(up'[s]) = Len(up[s]) - k /\ \A r \in Socks : r # s => up'[r] = up[r]
      BY <1>6, Zenon DEF StreamRead, Consumed
    <2>2. Len(up'[s]) <= Len(up[s])
      BY <1>1, <2>1
    <2> QED
      BY <1>4, <2>1, <2>2, Zenon
  <1>7. CASE Quiet \/ Select \/ Accept \/ \E s \in Socks : Eof(s)
    BY <1>2, <1>7, Zenon DEF Quiet, Select, Accept, Eof
  <1> QED
    BY <1>2, <1>3, <1>5, <1>6, <1>7, Steps, Writes, ZenonT(60) DEF DataRead, CanaryRead

============================================================================
