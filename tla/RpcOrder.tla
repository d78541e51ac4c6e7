----------------------------- MODULE RpcOrder ------------------------------
(***************************************************************************)
(* The order in which the service reads an RPC and what was written before *)
(* it: why the mutex of the application, the order of Phy's list and two   *)
(* reads keep the calls of a process apart, although their RPCs and their  *)
(* canaries travel on different sockets.                                   *)
(*                                                                         *)
(* Call c connects its socket after everything that is Ahead of it was     *)
(* written.  Its socket is accepted in one round of poll and read in a     *)
(* later one.  An older data socket is read in both, before c in the       *)
(* second, and two reads empty it.  Place says how far this has got.       *)
(***************************************************************************)
EXTENDS RpcSteps

\* Two reads of Phy::poll, of 131072 bytes each, empty a socket.  It is so with
\* the system's default buffer of 212992 bytes; setsockopt of intercept.c passes
\* SO_SNDBUF on, and an application may ask for a larger one.
TwoReads == SockBuf <= 2 * ReadMax

\* Item i of stream s was written before thread t began its call: a canary of
\* its process, or anything on a socket of its own.
Ahead(s, i, t) ==
  /\ up[s][i].k # "rpc"
  /\ \/ up[s][i].k = "canary" /\ ProcOf[owner[s]] = ProcOf[t]
     \/ ~Sharing /\ owner[s] = t

\* Item i of stream s will be read before the RPC of call c.
Place(s, i, c) ==
  /\ s < c
  /\ c = nacc + 1 /\ 0 \in ready => s \in ready
  /\ c <= nacc => i <= ReadMax \/ (s \in ready /\ c \notin ready)
  /\ c \in ready => s \in ready

\* What was written before a call is read before its RPC.
Order ==
  \A t \in Threads, s \in Socks : \A i \in 1 .. Len(up[s]) :
    Ahead(s, i, t) => /\ ~Answered(t)
                      /\ Waiting(t) => Place(s, i, cur[t])

\* The canaries of a process that are in streams are one.
OneCanary ==
  \A s, r \in Socks : \A i \in 1 .. Len(up[s]), j \in 1 .. Len(up[r]) :
    /\ up[s][i].k = "canary" /\ up[r][j].k = "canary"
    /\ ProcOf[owner[s]] = ProcOf[owner[r]]
    => up[s][i].n = up[r][j].n

\* Order in the next state, with the call as a constant.
LEMMA OrderIntro ==
  ASSUME \A t \in Threads, s \in Socks : \A i \in 1 .. Len(up'[s]) :
           Ahead(s, i, t)' => /\ ~Answered(t)'
                              /\ Waiting(t)' => \A c : c = cur'[t] => Place(s, i, c)'
  PROVE  Order'
  <1> SUFFICES ASSUME NEW t \in Threads, NEW s \in Socks, NEW i \in 1 .. Len(up'[s]), Ahead(s, i, t)'
               PROVE  ~Answered(t)' /\ (Waiting(t)' => Place(s, i, cur[t])')
    BY Zenon DEF Order
  <1>1. PICK c : c = cur'[t]
    BY Zenon
  <1>2. ~Answered(t)' /\ (Waiting(t)' => Place(s, i, c)')
    BY <1>1, Zenon
  <1>3. Place(s, i, c)' => Place(s, i, cur[t])'
    BY <1>1, Zenon DEF Place
  <1> QED
    BY <1>2, <1>3, Zenon

\* What is ahead after a step and was there before was ahead before.
LEMMA AheadKept ==
  ASSUME IInv, Items, [Next]_vars, NEW t \in Threads, NEW s \in Socks, NEW i,
         NEW j \in 1 .. Len(up[s]), up'[s][i] = up[s][j], Ahead(s, i, t)'
  PROVE  Ahead(s, j, t)
  <1>1. up[s][j].k # "rpc"
    BY Zenon DEF Ahead
  <1>2. s <= nsock
    BY <1>1, KnownSocket, Zenon DEF Items
  <1>3. owner'[s] = owner[s]
    BY <1>2, Past, Zenon
  <1> QED
    BY <1>3, Zenon DEF Ahead

\* poll reads a data socket with something in it in its next round.
LEMMA ItemListed ==
  ASSUME Base, Items, NEW s \in Socks, NEW i \in 1 .. Len(up[s]), up[s][i].k # "rpc"
  PROVE  s <= nsock /\ s <= nacc /\ s \in phys /\ up[s] # <<>>
  <1>1. call[s].cmd = "SOCKET" /\ result[s] = "ok"
    BY Zenon DEF Items
  <1>2. s <= nsock
    BY <1>1, KnownSocket, Zenon DEF Base
  <1>3. s <= nacc
    <2>1. ~(s > nacc)
      BY <1>1, Zenon DEF Base, Unheard
    <2>2. s \in Nat /\ nacc \in Nat
      BY ConstantsAssumption DEF Base, IInv, TypeOK, Socks
    <2> QED
      BY <2>1, <2>2
  <1>4. s \in phys
    BY <1>1, <1>2, <1>3, Zenon DEF Base, Opened, Listed
  <1>5. up[s] # <<>>
    OBVIOUS
  <1> QED
    BY <1>2, <1>3, <1>4, <1>5, Zenon

\* A step of a thread brings no call further than to its RPC.
LEMMA Phases ==
  ASSUME Base, NEW u \in Threads, Begin(u) \/ WriteData(u) \/ Client(u), NEW t \in Threads
  PROVE  /\ Answered(t)' => Answered(t)
         /\ Waiting(t)' => (Waiting(t) /\ cur'[t] = cur[t]) \/ (Join(u) /\ t = u)
         /\ Answered(t) => /\ cur'[t] = cur[t] /\ want'[t] = want[t]
                           /\ Answered(t)' \/ SendCanary(t) \/ want[t].cmd = "SOCKET"
  <1>1. IInv /\ pc \in [Threads -> {"idle", "lock", "join", "token", "ack", "canary", "retval", "addr"}]
    BY Zenon DEF Base, IInv, TypeOK
  <1>2. CASE t # u
    <2>1. pc'[t] = pc[t] /\ cur'[t] = cur[t] /\ want'[t] = want[t]
      BY <1>1, <1>2, OthersStay, Zenon
    <2>2. ASSUME pc[t] = "ack"
          PROVE  up'[cur[t]] = up[cur[t]]
      <3>1. PICK c \in Socks : cur[t] = c /\ result[c] = "none"
        BY <1>1, <2>2, CurrentCall, Zenon
      <3>2. ASSUME NEW s \in Socks, NEW x \in Item, Written(u, s, x)
            PROVE  s # c
        <4>1. CASE SendRpc(u) /\ s = cur[u]
          BY <1>1, <1>2, <2>2, <3>1, <4>1, Distinct, ZenonT(60) DEF SendRpc
        <4>2. CASE s \in Fds(u)
          BY <3>1, <4>2, Zenon DEF Fds
        <4>3. CASE SendCanary(u) /\ s = want[u].fd
          <5>1. pc[u] = "canary" /\ want[u].cmd # "SOCKET"
            BY <4>3, ZenonT(60) DEF SendCanary, Base, IInv, InCall, CallOf
          <5>2. result[s] = "ok"
            BY <1>1, <4>3, <5>1, CalledSocket, Zenon
          <5> QED
            BY <3>1, <5>2, ZenonT(60)
        <4> QED
          BY <3>2, <4>1, <4>2, <4>3, ZenonT(60) DEF Written
      <3>3. up' = up \/ \E s \in Socks, x \in Item : Written(u, s, x)
        BY <1>1, Writes, ZenonT(60)
      <3> QED
        BY <3>1, <3>2, <3>3, ZenonT(60) DEF Written, Extended
    <2> QED
      BY <2>1, <2>2, Zenon DEF Answered, Waiting
  <1>3. CASE t = u
    <2>1. CASE Begin(t) \/ WriteData(t) \/ Lock(t) \/ TokenFails(t) \/ SendCanary(t) \/ GetRetval(t) \/ ReadAddr(t)
      <3>1. pc'[t] \notin {"token", "ack", "canary"}
        BY <1>1, <2>1, ZenonT(60) DEF Begin, WriteData, Lock, TokenFails, SendCanary, GetRetval, ReadAddr
      <3>2. pc[t] \in {"ack", "canary"} => SendCanary(t) /\ cur' = cur /\ want' = want
        BY <2>1, Zenon DEF Begin, WriteData, Lock, TokenFails, SendCanary, GetRetval, ReadAddr
      <3> QED
        BY <3>1, <3>2, Zenon DEF Answered, Waiting
    <2>2. CASE Join(t)
      <3>1. pc[t] = "join" /\ pc'[t] = "token"
        BY <1>1, <2>2, Zenon DEF Join
      <3> QED
        BY <1>3, <2>2, <3>1, Zenon DEF Answered
    <2>3. CASE SendRpc(t)
      <3>1. PICK c \in Socks : cur[t] = c
        BY <1>1, <2>3, CurrentCall, Zenon DEF SendRpc
      <3>2. up[c] \in Seq(Item) /\ up'[c] = Append(up[c], [k |-> "rpc", n |-> c])
        BY <2>3, <3>1, ZenonT(60) DEF SendRpc, Base, IInv, TypeOK
      <3>3. up'[c] # <<>>
        BY <3>2
      <3> QED
        BY <1>1, <2>3, <3>1, <3>3, Zenon DEF SendRpc, Answered, Waiting
    <2>4. CASE ReadAck(t)
      <3>1. pc[t] = "ack" /\ up[cur[t]] = <<>>
        BY <2>4, Zenon DEF ReadAck, Base, Acked
      <3>2. /\ pc'[t] \notin {"token", "ack"} /\ cur' = cur /\ want' = want
            /\ want[t].cmd = "SOCKET" \/ pc'[t] = "canary"
        BY <1>1, <2>4, Zenon DEF ReadAck
      <3> QED
        BY <3>1, <3>2, Zenon DEF Answered, Waiting
    <2> QED
      BY <1>3, <2>1, <2>2, <2>3, <2>4, ZenonT(60) DEF Client
  <1> QED
    BY <1>2, <1>3, ZenonT(60)

\* A thread writes when it is in no call, or when it holds the mutex and its
\* RPC has been read; a call begins behind everything that has been written.
LEMMA OrderApp ==
  ASSUME Base, Items, Order, [Next]_vars, UNCHANGED svcvars,
         NEW u \in Threads, Begin(u) \/ WriteData(u) \/ Client(u)
  PROVE  Order'
  <1>1. IInv
    BY Zenon DEF Base
  <1> SUFFICES ASSUME NEW t \in Threads, NEW s \in Socks, NEW i \in 1 .. Len(up'[s]), Ahead(s, i, t)',
                      NEW c, c = cur'[t]
               PROVE  ~Answered(t)' /\ (Waiting(t)' => Place(s, i, c)')
    BY OrderIntro, Zenon
  <1>2. \A m : Place(s, i, m)' <=> Place(s, i, m)
    BY Zenon DEF Place, svcvars
  <1>3. CASE i \in 1 .. Len(up[s]) /\ up'[s][i] = up[s][i]
    <2>1. Ahead(s, i, t)
      BY <1>1, <1>3, AheadKept, Zenon
    <2>2. ~Answered(t) /\ (Waiting(t) => Place(s, i, cur[t]))
      BY <1>3, <2>1, ZenonT(60) DEF Order
    <2>3. ASSUME Join(u), t = u
          PROVE  Place(s, i, c)'
      <3>1. c = nsock + 1
        BY <2>3, Zenon DEF Join, Base, IInv, TypeOK
      <3>2. s <= nsock
        BY <1>3, <2>1, ItemListed, Zenon DEF Ahead
      <3>3. /\ nacc <= nsock /\ (0 \in ready => nacc < nsock)
            /\ \A r \in ready : r # 0 => r <= nacc
        <4>1. \A r \in ready : r # 0 => r \in Socks
          BY ConstantsAssumption DEF Base, IInv, TypeOK, Socks
        <4>2. \A r \in Socks : r \in ready => r <= nacc
          BY Zenon DEF Base, Listed
        <4> QED
          BY <4>1, <4>2, ZenonT(60) DEF Base, Listed, IInv, Pending
      <3>4. nsock \in Nat /\ nacc \in Nat /\ s \in Nat
        BY ConstantsAssumption DEF Base, IInv, TypeOK, Socks
      <3>5. /\ s < c /\ ~(c <= nacc)
            /\ ~(c = nacc + 1 /\ 0 \in ready)
            /\ c \notin ready
        BY <3>1, <3>2, <3>3, <3>4
      <3>6. Place(s, i, c)
        BY <3>5, Zenon DEF Place
      <3> QED
        BY <1>2, <3>6, ZenonT(60)
    <2>4. ASSUME Waiting(t)', ~(Join(u) /\ t = u)
          PROVE  Place(s, i, c)'
      <3>1. Waiting(t) /\ c = cur[t]
        BY <2>4, Phases, Zenon
      <3>2. Place(s, i, c)
        BY <2>2, <3>1, Zenon
      <3> QED
        BY <1>2, <3>2, Zenon
    <2> QED
      BY <2>2, <2>3, <2>4, Phases, ZenonT(60)
  <1>4. ASSUME NEW x \in Item, Written(u, s, x), up'[s][i] = x
        PROVE  ~Answered(t)' /\ ~Waiting(t)'
    <2>1. x.k # "rpc"
      BY <1>4, Zenon DEF Ahead
    <2>3. CASE x.k \in {"data", "pad"} /\ WriteData(u) /\ s \in Fds(u)
      <3>1. ~Sharing /\ owner'[s] = t
        BY <1>4, <2>3, Zenon DEF Ahead
      <3>2. t = u /\ pc'[t] = "idle"
        BY <2>3, <3>1, ZenonT(60) DEF Fds, WriteData
      <3> QED
        BY <3>2, Zenon DEF Answered, Waiting
    <2>4. CASE x.k = "canary" /\ SendCanary(u) /\ s = want[u].fd
      <3>1. pc[u] = "canary" /\ s # 0
        BY <2>4 DEF SendCanary, Socks
      <3>2. Usable(s, u)
        BY <2>4, <3>1, Zenon DEF Base, Wanted
      <3>3. ProcOf[t] = ProcOf[u]
        BY <2>4, <3>2, Zenon DEF Ahead, Usable, SendCanary
      <3>4. CASE t = u
        <4>1. pc'[t] \in {"retval", "addr"}
          BY <2>4, <3>4, ZenonT(60) DEF SendCanary, Base, IInv, TypeOK
        <4> QED
          BY <4>1, Zenon DEF Answered, Waiting
      <3>5. CASE t # u
        <4>1. pc'[t] = pc[t]
          BY <1>1, <3>5, OthersStay, Zenon
        <4>2. pc[t] \notin {"token", "ack", "canary"}
          BY <3>1, <3>3, <3>5, Zenon DEF Base, Mutex, Holding
        <4> QED
          BY <4>1, <4>2, Zenon DEF Answered, Waiting
      <3> QED
        BY <3>4, <3>5, ZenonT(60)
    <2> QED
      BY <1>4, <2>1, <2>3, <2>4, ZenonT(60) DEF Written
  <1>5. CASE up' = up
    BY <1>3, <1>5, Zenon
  <1>6. ASSUME NEW r \in Socks, NEW x \in Item, Written(u, r, x)
        PROVE  \/ i \in 1 .. Len(up[s]) /\ up'[s][i] = up[s][i]
               \/ r = s /\ up'[s][i] = x
    BY <1>6, Zenon DEF Written, Extended
  <1> QED
    BY <1>1, <1>3, <1>4, <1>5, <1>6, Writes, ZenonT(60)

\* poll is done with another socket.
LEMMA PlaceKept ==
  ASSUME NEW s \in Socks, NEW r \in Socks, s # r, NEW i, NEW c,
         ready' = ready \ {r}, nacc' = nacc, Place(s, i, c)
  PROVE  Place(s, i, c)'
  BY Zenon DEF Place

\* Every round of poll begins with everything there is to read.
LEMMA OrderSelect ==
  ASSUME Base, Items, Order, [Next]_vars, Select
  PROVE  Order'
  <1>1. UNCHANGED <<appvars, up, nacc>> /\ ready = {} /\ ready' = Readable
    BY Zenon DEF Select
  <1> SUFFICES ASSUME NEW t \in Threads, NEW s \in Socks, NEW i \in 1 .. Len(up[s]), Ahead(s, i, t)',
                      NEW c, c = cur[t]
               PROVE  ~Answered(t)' /\ (Waiting(t)' => Place(s, i, c)')
    BY <1>1, OrderIntro, ZenonT(60) DEF appvars
  <1>2. Ahead(s, i, t) /\ (Answered(t)' <=> Answered(t)) /\ (Waiting(t)' <=> Waiting(t))
    BY <1>1, Zenon DEF Ahead, Answered, Waiting, appvars
  <1>3. ~Answered(t) /\ (Waiting(t) => Place(s, i, c))
    BY <1>2, Zenon DEF Order
  <1>4. s \in Readable
    BY <1>2, ItemListed, Zenon DEF Ahead, Readable
  <1>5. Place(s, i, c) => Place(s, i, c)'
    BY <1>1, <1>4, Zenon DEF Place
  <1> QED
    BY <1>2, <1>3, <1>5, Zenon

\* The listening socket comes first: a call that is accepted is read in
\* another round than this one, and the older sockets are read in both.
LEMMA OrderAccept ==
  ASSUME Base, Items, Order, [Next]_vars, Accept
  PROVE  Order'
  <1>1. /\ UNCHANGED <<appvars, up>> /\ nacc' = nacc + 1 /\ 0 \in ready
        /\ ready' = ready \ {0}
    BY Zenon DEF Accept, IsNext
  <1> SUFFICES ASSUME NEW t \in Threads, NEW s \in Socks, NEW i \in 1 .. Len(up[s]), Ahead(s, i, t)',
                      NEW c, c = cur[t]
               PROVE  ~Answered(t)' /\ (Waiting(t)' => Place(s, i, c)')
    BY <1>1, OrderIntro, Zenon DEF appvars
  <1>2. Ahead(s, i, t) /\ (Answered(t)' <=> Answered(t)) /\ (Waiting(t)' <=> Waiting(t))
    BY <1>1, ZenonT(60) DEF Ahead, Answered, Waiting, appvars
  <1>3. ~Answered(t) /\ (Waiting(t) => Place(s, i, c))
    BY <1>2, Zenon DEF Order
  <1>4. ASSUME Waiting(t)
        PROVE  Place(s, i, c)'
    <2>1. Place(s, i, c)
      BY <1>3, <1>4, Zenon
    <2>2. c \in Socks
      <3>1. pc[t] \in {"token", "ack"}
        BY <1>4, Zenon DEF Waiting
      <3> QED
        BY <3>1, CurrentCall, Zenon DEF Base
    <2>3. c \in Nat /\ nacc \in Nat /\ c # 0 /\ s # 0
      <3>1. nacc \in Nat
        BY ConstantsAssumption, SMTT(90) DEF Base, IInv, TypeOK
      <3> QED
        BY <2>2, <3>1, SMTT(90) DEF Socks
    <2>4. c \in ready => c <= nacc
      BY <2>2, Zenon DEF Base, Listed
    <2>5. c = nacc + 1 => c \notin ready /\ s \in ready
      BY <1>1, <2>1, <2>3, <2>4, SMTT(90) DEF Place
    <2>6. c <= nacc' => c <= nacc \/ c = nacc + 1
      BY <1>1, <2>3
    <2> QED
      BY <1>1, <2>1, <2>3, <2>5, <2>6, ZenonT(60) DEF Place
  <1> QED
    BY <1>2, <1>3, <1>4, Zenon

\* poll walks the list from the oldest socket on: when it reads an RPC there
\* is nothing left ahead of it.
LEMMA OrderRpc ==
  ASSUME Base, Items, Order, [Next]_vars, NEW r \in Socks, RpcRead(r)
  PROVE  Order'
  <1>1. /\ up'[r] = <<>> /\ (\A s \in Socks : s # r => up'[s] = up[s])
        /\ UNCHANGED <<appvars, nacc>> /\ ready' = ready \ {r} /\ IsNext(r)
        /\ owner[r] \in Threads /\ pc[owner[r]] = "ack" /\ cur[owner[r]] = r /\ up[r] # <<>>
    <2>1. /\ up'[r] = <<>> /\ (\A s \in Socks : s # r => up'[s] = up[s])
          /\ UNCHANGED <<appvars, nacc>> /\ ready' = ready \ {r} /\ IsNext(r)
          /\ owner[r] \in Threads /\ pc[owner[r]] = "ack" /\ cur[owner[r]] = r
      BY Zenon DEF RpcRead
    <2>2. up[r] = <<[k |-> "rpc", n |-> r]>>
      BY Zenon DEF RpcRead
    <2>3. up[r] # <<>>
      BY <2>2
    <2> QED
      BY <2>1, <2>3, Zenon
  <1>2. \A i \in 1 .. Len(up'[r]) : FALSE
    BY <1>1
  <1> SUFFICES ASSUME NEW t \in Threads, NEW s \in Socks, NEW i \in 1 .. Len(up'[s]), Ahead(s, i, t)',
                      NEW c, c = cur[t]
               PROVE  ~Answered(t)' /\ (Waiting(t)' => Place(s, i, c)')
    BY <1>1, OrderIntro, Zenon DEF appvars
  <1>3. s # r /\ i \in 1 .. Len(up[s]) /\ up'[s][i] = up[s][i]
    BY <1>1, <1>2, Zenon
  <1>4. Ahead(s, i, t)
    BY <1>3, AheadKept, Zenon DEF Base
  <1>5. ~Answered(t) /\ (Waiting(t) => Place(s, i, c))
    BY <1>3, <1>4, Zenon DEF Order
  <1>6. pc'[t] = pc[t] /\ cur'[t] = cur[t]
    BY <1>1, ZenonT(60) DEF appvars
  <1>7. CASE t = owner[r]
    <2>1. Waiting(t) /\ c = r
      BY <1>1, <1>7, Zenon DEF Waiting
    <2>2. s < r /\ s \in ready /\ r <= s
      BY <1>1, <1>5, <2>1, Zenon DEF Place, IsNext
    <2>3. s \in Nat /\ r \in Nat
      BY ConstantsAssumption DEF Socks
    <2> QED
      BY <2>2, <2>3
  <1>8. CASE t # owner[r]
    <2>1. ASSUME pc[t] = "ack"
          PROVE  up'[cur[t]] = up[cur[t]]
      <3>1. cur[t] \in Socks /\ cur[t] # r
        BY <1>1, <1>8, <2>1, Distinct, Zenon DEF Base
      <3> QED
        BY <1>1, <3>1, Zenon
    <2>2. (Answered(t)' <=> Answered(t)) /\ (Waiting(t)' <=> Waiting(t))
      BY <1>6, <2>1, Zenon DEF Answered, Waiting
    <2>3. Place(s, i, c) => Place(s, i, c)'
      BY <1>1, <1>3, PlaceKept, ZenonT(60)
    <2> QED
      BY <1>5, <2>2, <2>3, Zenon
  <1> QED
    BY <1>7, <1>8, ZenonT(60)

\* Reading a data stream is no business of the calls that wait for the ACK.
LEMMA StreamPhases ==
  ASSUME Base, NEW r \in Socks, NEW k, StreamRead(r, k), NEW t \in Threads
  PROVE  (Answered(t)' <=> Answered(t)) /\ (Waiting(t)' <=> Waiting(t))
  <1>1. Consumed(r, k) /\ pc' = pc /\ cur' = cur
    BY Zenon DEF StreamRead, appvars
  <1>2. ASSUME pc[t] = "ack"
        PROVE  up'[cur[t]] = up[cur[t]]
    <2>1. PICK d \in Socks : cur[t] = d
      BY <1>2, CurrentCall, Zenon DEF Base
    <2>2. up[d] = <<>> \/ up[d] = <<[k |-> "rpc", n |-> d]>>
      BY <1>2, <2>1, Zenon DEF Base, Acked
    <2>3. d # r
      <3>1. up[r] # <<>>
        BY <1>1, Zenon DEF Consumed
      <3>2. up[r] # <<[k |-> "rpc", n |-> r]>>
        <4>1. \A j \in 1 .. Len(up[r]) : up[r][j].k # "rpc"
          BY Zenon DEF StreamRead
        <4>2. \A q : q = <<[k |-> "rpc", n |-> r]>> => 1 \in 1 .. Len(q) /\ q[1].k = "rpc"
          OBVIOUS
        <4> QED
          BY <4>1, <4>2, Zenon
      <3> QED
        BY <2>2, <3>1, <3>2, Zenon
    <2> QED
      BY <1>1, <2>1, <2>3, Zenon DEF Consumed
  <1> QED
    BY <1>1, <1>2, Zenon DEF Answered, Waiting

\* What one read leaves in a stream another one takes, before the next RPC.
LEMMA OrderStream ==
  ASSUME TwoReads, Base, Items, Room, Order, [Next]_vars,
         NEW r \in Socks, NEW k \in Nat, StreamRead(r, k)
  PROVE  Order'
  <1>1. /\ Consumed(r, k) /\ UNCHANGED <<appvars, nacc>> /\ ready' = ready \ {r} /\ IsNext(r)
        /\ k = ReadMax \/ (k = Len(up[r]) /\ k < ReadMax)
    BY Zenon DEF StreamRead
  <1> SUFFICES ASSUME NEW t \in Threads, NEW s \in Socks, NEW i \in 1 .. Len(up'[s]), Ahead(s, i, t)',
                      NEW c, c = cur[t]
               PROVE  ~Answered(t)' /\ (Waiting(t)' => Place(s, i, c)')
    BY <1>1, OrderIntro, Zenon DEF appvars
  <1>2. (Answered(t)' <=> Answered(t)) /\ (Waiting(t)' <=> Waiting(t))
    BY StreamPhases, Zenon
  <1>3. CASE s # r
    <2>1. i \in 1 .. Len(up[s]) /\ up'[s][i] = up[s][i]
      BY <1>1, <1>3, Zenon DEF Consumed
    <2>2. Ahead(s, i, t)
      BY <2>1, AheadKept, Zenon DEF Base
    <2>3. ~Answered(t) /\ (Waiting(t) => Place(s, i, c))
      BY <2>1, <2>2, Zenon DEF Order
    <2>4. Place(s, i, c) => Place(s, i, c)'
      BY <1>1, <1>3, PlaceKept, ZenonT(60)
    <2> QED
      BY <1>2, <2>3, <2>4, Zenon
  <1>4. CASE s = r
    <2>1. /\ i + k \in 1 .. Len(up[r])
          /\ \/ up'[r][i] = up[r][i + k]
             \/ up[r][i + k].k = "canary" /\ up'[r][i].k \in {"data", "pad"}
      BY <1>1, <1>4, Zenon DEF Consumed
    <2>2. Ahead(r, i + k, t)
      <3>1. CASE up'[r][i] = up[r][i + k]
        BY <1>4, <2>1, <3>1, AheadKept, Zenon DEF Base
      <3>2. CASE up[r][i + k].k = "canary" /\ up'[r][i].k \in {"data", "pad"}
        BY <1>1, <1>4, <3>2, ZenonT(60) DEF Ahead, appvars
      <3> QED
        BY <2>1, <3>1, <3>2, Zenon
    <2>3. ~Answered(t) /\ (Waiting(t) => Place(r, i + k, c))
      BY <2>1, <2>2, Zenon DEF Order
    <2>4. ASSUME Waiting(t)
          PROVE  Place(r, i, c)'
      <3>1. Place(r, i + k, c)
        BY <2>3, <2>4, ZenonT(60)
      <3>2. /\ Len(up[r]) \in Nat /\ i \in Nat /\ i >= 1
            /\ ReadMax \in Nat /\ SockBuf \in Nat /\ Len(up[r]) <= SockBuf
        BY <1>4, ConstantsAssumption, SMTT(90) DEF Base, IInv, TypeOK, Room
      <3>3. k = ReadMax /\ i <= ReadMax /\ ~(i + k <= ReadMax)
        BY <1>1, <2>1, <3>2, SMTT(90) DEF TwoReads
      <3>4. 0 \notin ready
        <4>1. 0 \in ready => r <= 0
          BY <1>1, Zenon DEF IsNext
        <4> QED
          BY <4>1 DEF Socks
      <3>5. c \in Socks
        <4>1. pc[t] \in {"token", "ack"}
          BY <2>4, Zenon DEF Waiting
        <4> QED
          BY <4>1, CurrentCall, Zenon DEF Base
      <3>6. c \notin ready
        <4>1. c \in ready => c <= nacc
          BY <3>5, Zenon DEF Base, Listed
        <4> QED
          BY <3>1, <3>3, <4>1, Zenon DEF Place
      <3> QED
        BY <1>1, <3>1, <3>3, <3>4, <3>6, ZenonT(60) DEF Place
    <2> QED
      BY <1>2, <1>4, <2>3, <2>4, Zenon
  <1> QED
    BY <1>3, <1>4, Zenon

\* The order of reads is kept by every step, if two reads empty a socket.
LEMMA OrderNext ==
  ASSUME TwoReads, Base, Items, Room, Order, [Next]_vars
  PROVE  Order'
  <1>1. CASE Quiet
    <2>1. UNCHANGED <<appvars, up, nacc, ready>>
      BY <1>1, Zenon DEF Quiet
    <2> SUFFICES ASSUME NEW t \in Threads, NEW s \in Socks, NEW i \in 1 .. Len(up[s]), Ahead(s, i, t)',
                        NEW c, c = cur[t]
                 PROVE  ~Answered(t)' /\ (Waiting(t)' => Place(s, i, c)')
      BY <2>1, OrderIntro, Zenon DEF appvars
    <2>2. Ahead(s, i, t) /\ (Answered(t)' <=> Answered(t)) /\ (Waiting(t)' <=> Waiting(t))
      BY <2>1, Zenon DEF Ahead, Answered, Waiting, appvars
    <2>3. ~Answered(t) /\ (Waiting(t) => Place(s, i, c))
      BY <2>2, Zenon DEF Order
    <2>4. Place(s, i, c) => Place(s, i, c)'
      BY <2>1, Zenon DEF Place
    <2> QED
      BY <2>2, <2>3, <2>4, Zenon
  <1>2. ASSUME NEW r \in Socks, Eof(r)
        PROVE  Order'
    <2>1. /\ up[r] = <<>> /\ UNCHANGED <<appvars, up, nacc>> /\ ready' = ready \ {r}
      BY <1>2, Zenon DEF Eof
    <2> SUFFICES ASSUME NEW t \in Threads, NEW s \in Socks, NEW i \in 1 .. Len(up[s]), Ahead(s, i, t)',
                        NEW c, c = cur[t]
                 PROVE  ~Answered(t)' /\ (Waiting(t)' => Place(s, i, c)')
      BY <2>1, OrderIntro, Zenon DEF appvars
    <2>2. Ahead(s, i, t) /\ (Answered(t)' <=> Answered(t)) /\ (Waiting(t)' <=> Waiting(t))
      BY <2>1, Zenon DEF Ahead, Answered, Waiting, appvars
    <2>3. ~Answered(t) /\ (Waiting(t) => Place(s, i, c))
      BY <2>2, Zenon DEF Order
    <2>4. s # r
      BY <2>1, <2>2, ItemListed, Zenon DEF Ahead
    <2>5. Place(s, i, c) => Place(s, i, c)'
      BY <2>1, <2>4, PlaceKept, ZenonT(60)
    <2> QED
      BY <2>2, <2>3, <2>5, ZenonT(60)
  <1>3. ASSUME NEW t \in Threads, Begin(t) \/ WriteData(t) \/ Client(t), UNCHANGED svcvars
        PROVE  Order'
    BY <1>3, OrderApp, Zenon
  <1>4. ASSUME NEW s \in Socks, NEW k \in Nat, DataRead(s, k) \/ \E p \in Nat, c \in Socks : CanaryRead(s, k, p, c)
        PROVE  Order'
    BY <1>4, OrderStream, Zenon DEF DataRead, CanaryRead
  <1>5. IInv
    BY Zenon DEF Base
  <1> QED
    BY <1>1, <1>2, <1>3, <1>4, <1>5, Steps, OrderSelect, OrderAccept, OrderRpc, ZenonT(60)

\* A canary that is read before and after a step is the same one.
LEMMA CanarySource ==
  ASSUME IInv, [Next]_vars, NEW s \in Socks, NEW i \in 1 .. Len(up'[s]), up'[s][i].k = "canary"
  PROVE  \/ \E j \in 1 .. Len(up[s]) : up'[s][i] = up[s][j]
         \/ \E t \in Threads : /\ SendCanary(t) /\ s = want[t].fd
                               /\ up'[s][i].n = cur[t]
  <1>1. CASE up' = up
    BY <1>1, Zenon
  <1>2. ASSUME NEW t \in Threads, NEW r \in Socks, NEW x \in Item, Written(t, r, x)
        PROVE  \/ \E j \in 1 .. Len(up[s]) : up'[s][i] = up[s][j]
               \/ SendCanary(t) /\ s = want[t].fd /\ up'[s][i].n = cur[t]
    <2>1. \/ i \in 1 .. Len(up[s]) /\ up'[s][i] = up[s][i]
          \/ r = s /\ up'[s][i] = x
      BY <1>2, Zenon DEF Written, Extended
    <2>2. x.k = "canary" => SendCanary(t) /\ r = want[t].fd /\ x.n = cur[t]
      BY <1>2, Zenon DEF Written
    <2> QED
      BY <2>1, <2>2, Zenon
  <1>3. ASSUME NEW r \in Socks, RpcRead(r)
        PROVE  \E j \in 1 .. Len(up[s]) : up'[s][i] = up[s][j]
    <2>1. up'[r] = <<>> /\ \A q \in Socks : q # r => up'[q] = up[q]
      BY <1>3, Zenon DEF RpcRead
    <2>2. s # r
      BY <2>1
    <2> QED
      BY <2>1, <2>2, Zenon
  <1>4. ASSUME NEW r \in Socks, NEW k, StreamRead(r, k)
        PROVE  \E j \in 1 .. Len(up[s]) : up'[s][i] = up[s][j]
    <2>1. CASE s = r
      BY <1>4, <2>1, Zenon DEF StreamRead, Consumed
    <2>2. CASE s # r
      BY <1>4, <2>2, Zenon DEF StreamRead, Consumed
    <2> QED
      BY <2>1, <2>2, Zenon
  <1>5. CASE Quiet \/ Select \/ Accept \/ \E r \in Socks : Eof(r)
    BY <1>1, <1>5, Zenon DEF Quiet, Select, Accept, Eof
  <1> QED
    BY <1>1, <1>2, <1>3, <1>4, <1>5, Steps, Writes, ZenonT(60) DEF DataRead, CanaryRead

\* A second canary is not written before the first one has been read.
LEMMA OneCanaryNext ==
  ASSUME Base, Items, Order, OneCanary, [Next]_vars
  PROVE  OneCanary'
  <1>1. IInv
    BY Zenon DEF Base
  <1> SUFFICES ASSUME NEW s \in Socks, NEW r \in Socks,
                      NEW i \in 1 .. Len(up'[s]), NEW j \in 1 .. Len(up'[r]),
                      up'[s][i].k = "canary", up'[r][j].k = "canary",
                      ProcOf[owner'[s]] = ProcOf[owner'[r]]
               PROVE  up'[s][i].n = up'[r][j].n
    BY ZenonT(60) DEF OneCanary
  <1>2. ASSUME NEW t \in Threads, SendCanary(t)
        PROVE  /\ Answered(t) /\ owner' = owner /\ pc'[t] \in {"retval", "addr"}
               /\ ProcOf[owner[want[t].fd]] = ProcOf[t]
    <2>1. pc[t] = "canary" /\ want[t].fd # 0
      BY <1>2, Zenon DEF SendCanary, Base, IInv, InCall, CallOf
    <2>2. Usable(want[t].fd, t)
      BY <2>1, Zenon DEF Base, Wanted
    <2>3. pc'[t] \in {"retval", "addr"}
      BY <1>2, ZenonT(60) DEF SendCanary, Base, IInv, TypeOK
    <2> QED
      BY <1>2, <2>1, <2>2, <2>3, Zenon DEF SendCanary, Answered, Usable
  <1>3. ASSUME NEW t \in Threads, SendCanary(t), NEW q \in Socks, NEW l \in 1 .. Len(up[q]),
               up[q][l].k = "canary", ProcOf[owner[q]] = ProcOf[t]
        PROVE  FALSE
    <2>1. Ahead(q, l, t)
      BY <1>3, Zenon DEF Ahead
    <2> QED
      BY <1>2, <1>3, <2>1, Zenon DEF Order
  <1>4. ASSUME NEW t \in Threads, SendCanary(t), NEW u \in Threads, SendCanary(u)
        PROVE  t = u
    <2>1. pc[u] = "canary"
      BY <1>4, Zenon DEF SendCanary
    <2>2. u # t => pc'[u] = pc[u]
      BY <1>1, <1>4, OthersStay, Zenon DEF Client
    <2> QED
      BY <1>2, <1>4, <2>1, <2>2, Zenon
  <1>5. ASSUME NEW l \in 1 .. Len(up[s]), up'[s][i] = up[s][l],
               NEW m \in 1 .. Len(up[r]), up'[r][j] = up[r][m]
        PROVE  up'[s][i].n = up'[r][j].n
    <2>1. s <= nsock /\ r <= nsock
      <3>1. up[s][l].k = "canary" /\ up[r][m].k = "canary" /\ "canary" # "rpc"
        BY <1>5, Zenon
      <3> QED
        BY <3>1, ItemListed, Zenon
    <2>2. owner'[s] = owner[s] /\ owner'[r] = owner[r]
      BY <1>1, <2>1, Past, Zenon
    <2>3. up[s][l].k = "canary" /\ up[r][m].k = "canary" /\ ProcOf[owner[s]] = ProcOf[owner[r]]
      BY <1>5, <2>2, Zenon
    <2>4. up[s][l].n = up[r][m].n
      BY <2>3, SMTT(90) DEF OneCanary
    <2> QED
      BY <1>5, <2>4, Zenon
  <1>6. ASSUME NEW t \in Threads, SendCanary(t), s = want[t].fd \/ r = want[t].fd,
               \/ \E l \in 1 .. Len(up[s]) : up'[s][i] = up[s][l]
               \/ \E m \in 1 .. Len(up[r]) : up'[r][j] = up[r][m]
        PROVE  FALSE
    <2>1. ProcOf[owner[s]] = ProcOf[t] /\ ProcOf[owner[r]] = ProcOf[t]
      BY <1>2, <1>6, ZenonT(60)
    <2> QED
      BY <1>3, <1>6, <2>1, Zenon
  <1>7. \/ \E l \in 1 .. Len(up[s]) : up'[s][i] = up[s][l]
        \/ \E t \in Threads : SendCanary(t) /\ s = want[t].fd /\ up'[s][i].n = cur[t]
    BY <1>1, CanarySource, Zenon
  <1>8. \/ \E m \in 1 .. Len(up[r]) : up'[r][j] = up[r][m]
        \/ \E t \in Threads : SendCanary(t) /\ r = want[t].fd /\ up'[r][j].n = cur[t]
    BY <1>1, CanarySource, Zenon
  <1> QED
    BY <1>4, <1>5, <1>6, <1>7, <1>8, ZenonT(60)

----------------------------------------------------------------------------
(***************************************************************************)
(* One process: the stack slot holds the RPC of its call.                  *)
(***************************************************************************)

\* One process uses the service.
SingleProcess == \A t, u \in Threads : ProcOf[t] = ProcOf[u]

\* The slot holds the RPC of the canary that is on its way, or of the call
\* that is about to write it, unless it has been overwritten.
Slot ==
  /\ \A s \in Socks : \A i \in 1 .. Len(up[s]) :
       up[s][i].k = "canary" => tmpbuf \in {0, up[s][i].n}
  /\ \A t \in Threads : Answered(t) /\ want[t].cmd # "SOCKET" => tmpbuf \in {0, cur[t]}
  /\ RightCommand

\* The next RPC is copied to the slot when the job before it is done.
LEMMA SlotNext ==
  ASSUME SingleProcess, Base, Items', Order', Slot, [Next]_vars
  PROVE  Slot'
  <1>1. IInv
    BY Zenon DEF Base
  <1>2. ASSUME \A s \in Socks : \A i \in 1 .. Len(up'[s]) :
                 up'[s][i].k = "canary" => tmpbuf' \in {0, up'[s][i].n},
               \A t \in Threads : Answered(t)' /\ want'[t].cmd # "SOCKET" => tmpbuf' \in {0, cur'[t]},
               \A c \in Socks : done'[c] \in {done[c], call[c].cmd},
               call' = call \/ done' = done
        PROVE  Slot'
    <2>1. ASSUME NEW c \in Socks
          PROVE  done'[c] \in {"none", call'[c].cmd}
      <3>1. CASE call'[c] = call[c]
        BY <1>2, <3>1, Zenon DEF Slot, RightCommand
      <3>2. CASE call'[c] # call[c]
        <4>1. ~(c <= nsock) /\ done'[c] = done[c]
          BY <1>1, <1>2, <3>2, Past, ZenonT(60)
        <4>2. c > nacc
          <5>1. nacc <= nsock
            BY Zenon DEF Base, Listed
          <5>2. nacc \in Nat /\ nsock \in Nat /\ c \in Nat
            BY <1>1, ConstantsAssumption, SMTT(90) DEF IInv, TypeOK, Socks
          <5> QED
            BY <4>1, <5>1, <5>2
        <4> QED
          BY <4>1, <4>2, Zenon DEF Base, Unheard
      <3> QED
        BY <3>1, <3>2, Zenon
    <2> QED
      BY <1>2, <2>1, Zenon DEF Slot, RightCommand
  \* a canary that was there
  <1>3. ASSUME NEW s \in Socks, NEW i \in 1 .. Len(up'[s]), up'[s][i].k = "canary",
               NEW j \in 1 .. Len(up[s]), up'[s][i] = up[s][j]
        PROVE  tmpbuf \in {0, up'[s][i].n}
    BY <1>3, Zenon DEF Slot
  \* no command is executed
  <1>4. ASSUME done' = done
        PROVE  \A c \in Socks : done'[c] \in {done[c], call[c].cmd}
    BY <1>4, Zenon
  <1>5. ASSUME NEW u \in Threads, Begin(u) \/ WriteData(u) \/ Client(u), UNCHANGED svcvars
        PROVE  Slot'
    <2>1. tmpbuf' = tmpbuf /\ done' = done
      BY <1>5, Zenon DEF svcvars
    <2>2. ASSUME NEW s \in Socks, NEW i \in 1 .. Len(up'[s]), up'[s][i].k = "canary"
          PROVE  tmpbuf' \in {0, up'[s][i].n}
      <3>1. ASSUME NEW t \in Threads, SendCanary(t), up'[s][i].n = cur[t]
            PROVE  tmpbuf \in {0, up'[s][i].n}
        <4>1. pc[t] = "canary" /\ want[t].cmd # "SOCKET"
          BY <3>1, Zenon DEF SendCanary, Base, IInv, InCall, CallOf
        <4> QED
          BY <3>1, <4>1, Zenon DEF Slot, Answered
      <3> QED
        BY <1>1, <1>3, <2>1, <2>2, <3>1, CanarySource, ZenonT(60)
    <2>3. ASSUME NEW t \in Threads, Answered(t)', want'[t].cmd # "SOCKET"
          PROVE  tmpbuf' \in {0, cur'[t]}
      BY <1>5, <2>1, <2>3, Phases, ZenonT(60) DEF Slot
    <2> QED
      BY <1>2, <1>4, <2>1, <2>2, <2>3, ZenonT(60)
  \* the service reads no RPC
  <1>6. ASSUME UNCHANGED appvars, tmpbuf' \in {tmpbuf, 0},
               \A t \in Threads : Answered(t)' => Answered(t),
               \A c \in Socks : done'[c] \in {done[c], call[c].cmd}
        PROVE  Slot'
    <2>1. \A t \in Threads : ~SendCanary(t)
      <3>1. ASSUME NEW t \in Threads, SendCanary(t)
            PROVE  pc'[t] # pc[t]
        BY <3>1, Zenon DEF SendCanary, Base, IInv, TypeOK
      <3> QED
        BY <1>6, <3>1, Zenon DEF appvars
    <2>2. \A s \in Socks : \A i \in 1 .. Len(up'[s]) :
            up'[s][i].k = "canary" => tmpbuf' \in {0, up'[s][i].n}
      BY <1>1, <1>3, <1>6, <2>1, CanarySource, ZenonT(60)
    <2>3. \A t \in Threads : Answered(t)' /\ want'[t].cmd # "SOCKET" => tmpbuf' \in {0, cur'[t]}
      BY <1>6, Zenon DEF Slot, appvars
    <2> QED
      BY <1>2, <1>6, <2>2, <2>3, ZenonT(60) DEF appvars
  <1>7. CASE Quiet \/ Select \/ Accept \/ \E s \in Socks : Eof(s)
    <2>1. UNCHANGED <<appvars, up, done>> /\ tmpbuf' \in {tmpbuf, 0}
      BY <1>7, Zenon DEF Quiet, Select, Accept, Eof
    <2>2. \A t \in Threads : Answered(t)' => Answered(t)
      BY <2>1, Zenon DEF Answered, appvars
    <2> QED
      BY <1>4, <1>6, <2>1, <2>2, ZenonT(60)
  <1>8. ASSUME NEW s \in Socks, NEW k, DataRead(s, k)
        PROVE  Slot'
    <2>1. StreamRead(s, k) /\ UNCHANGED <<appvars, done>> /\ tmpbuf' = tmpbuf
      BY <1>8, Zenon DEF DataRead, StreamRead
    <2> QED
      BY <1>4, <1>6, <2>1, StreamPhases, ZenonT(60)
  <1>9. ASSUME NEW s \in Socks, NEW k \in Nat, NEW p \in Nat, NEW c \in Socks, CanaryRead(s, k, p, c)
        PROVE  Slot'
    <2>1. /\ StreamRead(s, k) /\ UNCHANGED appvars /\ tmpbuf' = tmpbuf
          /\ done' = done \/ (tmpbuf # 0 /\ done' = [done EXCEPT ![c] = call[tmpbuf].cmd])
          /\ p \in 1 .. k /\ k \in 1 .. Len(up[s]) /\ up[s][p].k = "canary" /\ up[s][p].n = c
      BY <1>9, Zenon DEF CanaryRead, StreamRead
    <2>2. p \in 1 .. Len(up[s])
      BY <2>1
    <2>3. tmpbuf \in {0, c}
      BY <2>1, <2>2, Zenon DEF Slot
    <2>4. \A d \in Socks : done'[d] \in {done[d], call[d].cmd}
      <3>1. done \in [Socks -> AllCmds \cup {"none"}]
        BY <1>1, Zenon DEF IInv, TypeOK
      <3>2. done' = done \/ done' = [done EXCEPT ![c] = call[c].cmd]
        BY <2>1, <2>3, Zenon
      <3> QED
        BY <3>1, <3>2, Zenon
    <2> QED
      BY <1>6, <2>1, <2>4, StreamPhases, Zenon
  <1>10. ASSUME NEW r \in Socks, RpcRead(r)
         PROVE  Slot'
    <2>1. /\ UNCHANGED <<appvars, done>> /\ owner[r] \in Threads /\ pc[owner[r]] = "ack" /\ cur[owner[r]] = r
          /\ up'[r] = <<>> /\ \A q \in Socks : q # r => up'[q] = up[q]
      BY <1>10, Zenon DEF RpcRead
    <2>2. \A t \in Threads \ {owner[r]} : ~Answered(t)'
      <3>1. \A t \in Threads : pc[t] \in {"ack", "canary"} => t = owner[r]
        BY <2>1, ZenonT(60) DEF SingleProcess, Base, Mutex, Holding
      <3> QED
        BY <2>1, <3>1, Zenon DEF Answered, appvars
    <2>3. CASE call[r].cmd = "SOCKET"
      <3>1. tmpbuf' = tmpbuf
        BY <1>10, <2>3, Zenon DEF RpcRead
      <3>2. want[owner[r]].cmd = "SOCKET"
        <4>1. PICK o \in Threads : o = owner[r] /\ pc[o] = "ack" /\ cur[o] = r
          BY <2>1, Zenon
        <4>2. call[r] = want[o]
          <5>1. CallOf(o)
            BY <1>1, Zenon DEF IInv, InCall
          <5> QED
            BY <4>1, <5>1, Zenon DEF CallOf
        <4> QED
          BY <2>3, <4>1, <4>2, Zenon
      <3>3. \A s \in Socks : \A i \in 1 .. Len(up'[s]) :
              up'[s][i].k = "canary" => tmpbuf' \in {0, up'[s][i].n}
        <4>1. \A i \in 1 .. Len(up'[r]) : FALSE
          BY <2>1
        <4> QED
          BY <2>1, <3>1, <4>1, Zenon DEF Slot
      <3> QED
        BY <1>2, <1>4, <2>1, <2>2, <3>2, <3>3, Zenon DEF appvars
    <2>4. CASE call[r].cmd # "SOCKET"
      <3>1. tmpbuf' = r
        BY <1>10, <2>4, Zenon DEF RpcRead
      <3>2. Answered(owner[r])' /\ cur'[owner[r]] = r
        BY <2>1, Zenon DEF Answered, appvars
      <3>3. ASSUME NEW s \in Socks, NEW i \in 1 .. Len(up'[s]), up'[s][i].k = "canary"
            PROVE  FALSE
        <4>1. owner'[s] \in Threads
          BY <3>3, Zenon DEF Items
        <4>2. Ahead(s, i, owner[r])'
          BY <2>1, <3>3, <4>1, Zenon DEF Ahead, SingleProcess, appvars
        <4> QED
          BY <2>1, <3>2, <4>2, Zenon DEF Order, appvars
      <3> QED
        BY <1>2, <1>4, <2>1, <2>2, <3>1, <3>2, <3>3, ZenonT(60) DEF appvars
    <2> QED
      BY <2>3, <2>4, Zenon
  <1> QED
    BY <1>1, <1>5, <1>7, <1>8, <1>9, <1>10, Steps, ZenonT(60)

----------------------------------------------------------------------------
(***************************************************************************)
(* One open job.                                                           *)
(***************************************************************************)

\* A call whose RPC has not been read has no job.
Unasked == \A t \in Threads : Waiting(t) => jobmap[cur[t]] = 0

\* The job is registered when its RPC is read, and nothing else registers one.
LEMMA UnaskedNext ==
  ASSUME Base, Unasked, [Next]_vars
  PROVE  Unasked'
  <1>1. IInv /\ jobmap \in [Socks -> 0 .. MaxSocks]
    BY Zenon DEF Base, IInv, TypeOK
  <1> SUFFICES ASSUME NEW t \in Threads, Waiting(t)'
               PROVE  jobmap'[cur'[t]] = 0
    BY Zenon DEF Unasked
  <1>2. ASSUME Waiting(t), cur'[t] = cur[t], jobmap' = jobmap
        PROVE  jobmap'[cur'[t]] = 0
    BY <1>2, Zenon DEF Unasked
  <1>3. CASE Quiet \/ Select \/ Accept \/ \E s \in Socks : Eof(s)
    <2>1. UNCHANGED <<appvars, up, jobmap>>
      BY <1>3, Zenon DEF Quiet, Select, Accept, Eof
    <2> QED
      BY <1>2, <2>1, Zenon DEF Waiting, appvars
  <1>4. ASSUME NEW u \in Threads, Begin(u) \/ WriteData(u) \/ Client(u), UNCHANGED svcvars
        PROVE  jobmap'[cur'[t]] = 0
    <2>1. jobmap' = jobmap
      BY <1>4, Zenon DEF svcvars
    <2>2. CASE Join(u) /\ t = u
      <3>1. cur'[t] = nsock + 1 /\ nsock < MaxSocks
        BY <1>1, <2>2, ZenonT(60) DEF Join, IInv, TypeOK
      <3>2. nsock + 1 \in Socks /\ nsock + 1 > nacc
        <4>1. nacc <= nsock
          BY Zenon DEF Base, Listed
        <4>2. nacc \in Nat /\ nsock \in Nat
          BY <1>1, ConstantsAssumption, SMTT(90) DEF IInv, TypeOK
        <4> QED
          BY <3>1, <4>1, <4>2, ConstantsAssumption DEF Socks
      <3> QED
        BY <2>1, <3>1, <3>2, ZenonT(60) DEF Base, Unheard
    <2> QED
      BY <1>2, <1>4, <2>1, <2>2, Phases, ZenonT(60)
  <1>5. ASSUME NEW s \in Socks, NEW k \in Nat, StreamRead(s, k),
               \A c \in Socks : jobmap'[c] \in {0, jobmap[c]}
        PROVE  jobmap'[cur'[t]] = 0
    <2>1. Waiting(t) /\ cur'[t] = cur[t]
      BY <1>5, StreamPhases, Zenon DEF StreamRead, appvars
    <2>2. cur[t] \in Socks
      BY <1>1, <2>1, CurrentCall, ZenonT(60) DEF Waiting
    <2> QED
      BY <1>5, <2>1, <2>2, Zenon DEF Unasked
  <1>6. ASSUME NEW s \in Socks, NEW k \in Nat, DataRead(s, k)
        PROVE  jobmap'[cur'[t]] = 0
    BY <1>5, <1>6, Zenon DEF DataRead
  <1>7. ASSUME NEW s \in Socks, NEW k \in Nat, NEW p \in Nat, NEW c \in Socks, CanaryRead(s, k, p, c)
        PROVE  jobmap'[cur'[t]] = 0
    <2>1. StreamRead(s, k) /\ (jobmap' = jobmap \/ jobmap' = [jobmap EXCEPT ![c] = 0])
      BY <1>7, Zenon DEF CanaryRead
    <2> QED
      BY <1>1, <1>5, <2>1, Zenon
  <1>8. ASSUME NEW r \in Socks, RpcRead(r)
        PROVE  jobmap'[cur'[t]] = 0
    <2>1. /\ UNCHANGED appvars /\ owner[r] \in Threads /\ pc[owner[r]] = "ack" /\ cur[owner[r]] = r
          /\ up'[r] = <<>> /\ \A q \in Socks : q # r => up'[q] = up[q] /\ jobmap'[q] = jobmap[q]
      BY <1>1, <1>8, Zenon DEF RpcRead
    <2>2. pc[t] \in {"token", "ack"} /\ cur'[t] = cur[t]
      BY <2>1, Zenon DEF Waiting, appvars
    <2>3. cur[t] # r
      <3>1. CASE t = owner[r]
        BY <2>1, <3>1, ZenonT(60) DEF Waiting, appvars
      <3>2. CASE t # owner[r]
        BY <1>1, <2>1, <2>2, <3>2, Distinct, ZenonT(60)
      <3> QED
        BY <3>1, <3>2, Zenon
    <2>4. cur[t] \in Socks
      BY <1>1, <2>2, CurrentCall, ZenonT(60)
    <2>5. Waiting(t)
      BY <2>1, <2>3, <2>4, ZenonT(60) DEF Waiting, appvars
    <2> QED
      BY <2>1, <2>2, <2>3, <2>4, <2>5, ZenonT(60) DEF Unasked
  <1> QED
    BY <1>1, <1>3, <1>4, <1>6, <1>7, <1>8, Steps, ZenonT(60)

\* Two open jobs of a process are the same.
LEMMA OneJob ==
  ASSUME Base, Items, Order, OneCanary, Unasked, NEW c \in Socks, NEW d \in Socks,
         OpenJob(c), owner[c] \in Threads, OpenJob(d), owner[d] \in Threads,
         ProcOf[owner[c]] = ProcOf[owner[d]]
  PROVE  c = d
  <1>1. \A e \in Socks : OpenJob(e) =>
          (\E t \in Threads : Answered(t) /\ cur[t] = e) \/ InStream(e)
    BY Zenon DEF OpenJob, Unasked, Answered, Waiting
  <1>2. ASSUME NEW e \in Socks, NEW t \in Threads, Answered(t), cur[t] = e
        PROVE  owner[e] = t /\ lock[ProcOf[t]] = t
    <2>1. pc[t] \in {"ack", "canary"} /\ CallOf(t)
      BY <1>2, Zenon DEF Answered, Base, IInv, InCall
    <2> QED
      BY <1>2, <2>1, Zenon DEF CallOf, Base, Mutex, Holding
  <1>3. ASSUME NEW e \in Socks, InStream(e)
        PROVE  \E s \in Socks : \E i \in 1 .. Len(up[s]) :
                 /\ up[s][i].k = "canary" /\ up[s][i].n = e
                 /\ ProcOf[owner[s]] = ProcOf[owner[e]]
    <2>1. PICK s \in Socks : \E i \in 1 .. Len(up[s]) : up[s][i].k = "canary" /\ up[s][i].n = e
      BY <1>3, Zenon DEF InStream
    <2>2. PICK i \in 1 .. Len(up[s]) : up[s][i].k = "canary" /\ up[s][i].n = e
      BY <2>1, Zenon
    <2>3. Pended(s, e)
      BY <2>2, Zenon DEF Items
    <2> QED
      BY <2>2, <2>3, Zenon DEF Pended, Usable
  <1>4. ASSUME NEW e \in Socks, NEW f \in Socks, NEW t \in Threads, Answered(t), cur[t] = e, InStream(f),
               ProcOf[owner[e]] = ProcOf[owner[f]]
        PROVE  FALSE
    <2>1. PICK s \in Socks : \E i \in 1 .. Len(up[s]) :
                 /\ up[s][i].k = "canary" /\ up[s][i].n = f
                 /\ ProcOf[owner[s]] = ProcOf[owner[f]]
      BY <1>3, <1>4, Zenon
    <2>2. PICK i \in 1 .. Len(up[s]) : /\ up[s][i].k = "canary" /\ ProcOf[owner[s]] = ProcOf[owner[f]]
      BY <2>1, Zenon
    <2>3. owner[e] = t
      BY <1>2, <1>4, ZenonT(60)
    <2>4. Ahead(s, i, t)
      BY <1>4, <2>2, <2>3, ZenonT(60) DEF Ahead
    <2> QED
      BY <1>4, <2>2, <2>4, ZenonT(60) DEF Order
  <1>5. CASE InStream(c) /\ InStream(d)
    <2>1. PICK s \in Socks : \E i \in 1 .. Len(up[s]) :
                 /\ up[s][i].k = "canary" /\ up[s][i].n = c
                 /\ ProcOf[owner[s]] = ProcOf[owner[c]]
      BY <1>3, <1>5, Zenon
    <2>2. PICK i \in 1 .. Len(up[s]) : /\ up[s][i].k = "canary" /\ up[s][i].n = c
                                       /\ ProcOf[owner[s]] = ProcOf[owner[c]]
      BY <2>1, Zenon
    <2>3. PICK r \in Socks : \E j \in 1 .. Len(up[r]) :
                 /\ up[r][j].k = "canary" /\ up[r][j].n = d
                 /\ ProcOf[owner[r]] = ProcOf[owner[d]]
      BY <1>3, <1>5, Zenon
    <2>4. PICK j \in 1 .. Len(up[r]) : /\ up[r][j].k = "canary" /\ up[r][j].n = d
                                       /\ ProcOf[owner[r]] = ProcOf[owner[d]]
      BY <2>3, Zenon
    <2> QED
      BY <2>2, <2>4, SMTT(90) DEF OneCanary
  <1>6. ASSUME NEW t \in Threads, Answered(t), cur[t] = c, NEW u \in Threads, Answered(u), cur[u] = d
        PROVE  c = d
    <2>1. owner[c] = t /\ lock[ProcOf[t]] = t
      BY <1>2, <1>6, ZenonT(60)
    <2>2. owner[d] = u /\ lock[ProcOf[u]] = u
      BY <1>2, <1>6, ZenonT(60)
    <2> QED
      BY <1>6, <2>1, <2>2, ZenonT(60)
  <1> QED
    BY <1>1, <1>4, <1>5, <1>6, ZenonT(60)

----------------------------------------------------------------------------
(***************************************************************************)
(* Threads that do not share their sockets: the data streams are intact.   *)
(***************************************************************************)

\* What is in stream s follows what is in txbuf, or is a canary alone.
Stream(s) ==
  \/ /\ \A i \in 1 .. Len(up[s]) : up[s][i].k = "data" /\ up[s][i].n = Len(tx[s]) + i
     /\ sent[s] = Len(tx[s]) + Len(up[s])
  \/ /\ Len(up[s]) = 1 /\ up[s][1].k = "canary"
     /\ sent[s] = Len(tx[s])
Streams ==
  /\ \A s \in conns : Stream(s)
  /\ \A s \in Socks : s \notin conns => tx[s] = <<>>
  /\ \A s \in Socks : result[s] # "ok" => sent[s] = 0
  /\ \A t \in Threads : Waiting(t) => cur[t] \notin conns
  /\ StreamIntact

\* A thread that does not share its socket writes data when it is in no call,
\* and a canary when everything before it has been read.
LEMMA StreamWritten ==
  ASSUME ~Sharing, ~Padded, Base, Items, Order, Streams, tx' = tx,
         NEW u \in Threads, NEW s \in Socks, NEW x \in Item, Written(u, s, x), s \in conns
  PROVE  Stream(s)'
  <1>1. /\ up[s] \in Seq(Item) /\ tx[s] \in Seq(0 .. MaxData) /\ sent \in [Socks -> 0 .. MaxData]
        /\ up'[s] = Append(up[s], x) /\ sent[s] \in 0 .. MaxData
    BY Zenon DEF Base, IInv, TypeOK, Written, Extended
  <1>2. Stream(s)
    BY Zenon DEF Streams
  <1>3. CASE SendRpc(u) /\ s = cur[u]
    BY <1>3, Zenon DEF SendRpc, Waiting, Streams
  <1>4. CASE /\ x.k \in {"data", "pad"} /\ WriteData(u) /\ s \in Fds(u)
             /\ x.n = sent[s] + 1 /\ sent' = [sent EXCEPT ![s] = sent[s] + 1]
    <2>1. owner[s] = u /\ pc[u] = "idle"
      BY <1>4, Zenon DEF Fds, WriteData
    <2>2. \A i \in 1 .. Len(up[s]) : up[s][i].k # "canary"
      <3>1. ASSUME NEW i \in 1 .. Len(up[s]), up[s][i].k = "canary"
            PROVE  FALSE
        <4>1. Pended(s, up[s][i].n)
          BY <3>1, Zenon DEF Items
        <4> QED
          BY <2>1, <4>1, Zenon DEF Pended, Usable
      <3> QED
        BY <3>1, Zenon
    <2>3. /\ \A i \in 1 .. Len(up[s]) : up[s][i].k = "data" /\ up[s][i].n = Len(tx[s]) + i
          /\ sent[s] = Len(tx[s]) + Len(up[s])
      <3>1. ~(Len(up[s]) = 1 /\ up[s][1].k = "canary")
        <4>1. Len(up[s]) = 1 => 1 \in 1 .. Len(up[s])
          BY <1>1
        <4> QED
          BY <2>2, <4>1, ZenonT(60)
      <3> QED
        BY <1>2, <3>1, Zenon DEF Stream
    <2>4. sent'[s] = sent[s] + 1
      BY <1>1, <1>4, ZenonT(60)
    <2>5. Len(up'[s]) = Len(up[s]) + 1 /\ Len(tx[s]) \in Nat /\ Len(up[s]) \in Nat
      BY <1>1
    <2> DEFINE a == Len(tx[s])
               b == Len(up[s])
    <2>6. sent'[s] = Len(tx[s]) + Len(up'[s])
      <3>1. a \in Nat /\ b \in Nat => (a + b) + 1 = a + (b + 1)
        <4> HIDE DEF a, b
        <4> QED
          OBVIOUS
      <3> QED
        BY <2>3, <2>4, <2>5, <3>1, ZenonT(60)
    <2>7. ASSUME NEW i \in 1 .. Len(up'[s])
          PROVE  up'[s][i].k = "data" /\ up'[s][i].n = Len(tx[s]) + i
      <3>1. CASE i \in 1 .. Len(up[s])
        <4>1. up'[s][i] = up[s][i]
          BY <1>1, <3>1
        <4> QED
          BY <2>3, <3>1, <4>1, ZenonT(60)
      <3>2. CASE i \notin 1 .. Len(up[s])
        <4>1. i = Len(up[s]) + 1 /\ up'[s][i] = x
          BY <1>1, <2>5, <3>2, SMTT(90)
        <4>2. sent[s] + 1 = Len(tx[s]) + i
          BY <2>4, <2>5, <2>6, <4>1, ZenonT(60)
        <4>3. x.k = "data"
          BY <1>4, Zenon DEF Written
        <4> QED
          BY <1>4, <4>1, <4>2, <4>3, ZenonT(60)
      <3> QED
        BY <3>1, <3>2, Zenon
    <2> QED
      BY <2>6, <2>7, ZenonT(60) DEF Stream
  <1>5. CASE x.k = "canary" /\ SendCanary(u) /\ s = want[u].fd
    <2>1. pc[u] = "canary" /\ s # 0
      BY <1>5 DEF SendCanary, Socks
    <2>2. Usable(s, u)
      BY <1>5, <2>1, Zenon DEF Base, Wanted
    <2>3. \A i \in 1 .. Len(up[s]) : FALSE
      <3>1. ASSUME NEW i \in 1 .. Len(up[s])
            PROVE  FALSE
        <4>1. up[s][i].k # "rpc"
          BY <2>2, KnownSocket, Zenon DEF Usable, Base
        <4>2. Ahead(s, i, u)
          BY <2>2, <4>1, ZenonT(60) DEF Ahead, Usable
        <4> QED
          BY <2>1, <4>2, Zenon DEF Order, Answered
      <3> QED
        BY <3>1, ZenonT(60)
    <2>4. Len(up[s]) = 0
      BY <1>1, <2>3
    <2>5. Len(up'[s]) = 1 /\ up'[s][1] = x
      BY <1>1, <2>4
    <2>6. sent[s] = Len(tx[s])
      <3>1. sent[s] = Len(tx[s]) + Len(up[s])
        <4>1. Len(up[s]) # 1
          BY <2>4
        <4> QED
          BY <1>2, <4>1, ZenonT(60) DEF Stream
      <3> QED
        BY <1>1, <2>4, <3>1
    <2>7. sent' = sent
      BY <1>5, Zenon DEF SendCanary
    <2> QED
      BY <1>5, <2>5, <2>6, <2>7, ZenonT(60) DEF Stream
  <1> QED
    BY <1>3, <1>4, <1>5, ZenonT(60) DEF Written

\* The steps of the application keep Streams.
LEMMA StreamsApp ==
  ASSUME ~Sharing, ~Padded, Base, Items, Order, Streams, [Next]_vars, UNCHANGED svcvars,
         NEW u \in Threads, Begin(u) \/ WriteData(u) \/ Client(u)
  PROVE  Streams'
  <1>1. IInv /\ tx' = tx /\ conns' = conns /\ sent \in [Socks -> 0 .. MaxData]
    BY ZenonT(60) DEF Base, svcvars, IInv, TypeOK
  <1>2. nsock \in Nat /\ Socks \subseteq Nat /\ conns \subseteq Socks
    BY ConstantsAssumption, SMTT(90) DEF Base, IInv, TypeOK, Socks
  <1>3. ASSUME up' = up,
               \/ Begin(u) \/ Lock(u) \/ Join(u) \/ TokenFails(u)
               \/ ReadAck(u) \/ GetRetval(u) \/ ReadAddr(u)
        PROVE  sent' = sent /\ \A s \in conns : Stream(s)'
    <2>1. sent' = sent
      BY <1>3, ZenonT(60) DEF Begin, Lock, Join, TokenFails, ReadAck, GetRetval, ReadAddr
    <2> QED
      BY <1>1, <1>3, <2>1, ZenonT(60) DEF Stream, Streams
  <1>4. ASSUME NEW r \in Socks, NEW x \in Item, Written(u, r, x)
        PROVE  /\ \A s \in conns : Stream(s)'
               /\ \A s \in Socks : sent[s] = 0 /\ result[s] # "ok" => sent'[s] = 0
    <2>1. \A s \in Socks : s # r => up'[s] = up[s]
      BY <1>4, Zenon DEF Written, Extended
    <2>2. \/ sent' = sent
          \/ sent' = [sent EXCEPT ![r] = sent[r] + 1] /\ r \in Fds(u)
      BY <1>4, Zenon DEF Written, SendRpc, SendCanary
    <2>3. \A s \in Socks : s # r => sent'[s] = sent[s]
      BY <1>1, <2>2, Zenon
    <2>4. ASSUME NEW s \in conns
          PROVE  Stream(s)'
      <3>1. CASE s = r
        BY <1>1, <1>4, <3>1, StreamWritten, ZenonT(60)
      <3>2. CASE s # r
        <4>1. up'[s] = up[s] /\ sent'[s] = sent[s] /\ tx'[s] = tx[s] /\ Stream(s)
          BY <1>1, <1>2, <2>1, <2>3, <3>2, ZenonT(60) DEF Streams
        <4> QED
          BY <4>1, Zenon DEF Stream
      <3> QED
        BY <3>1, <3>2, Zenon
    <2>5. \A s \in Socks : sent[s] = 0 /\ result[s] # "ok" => sent'[s] = 0
      <3>1. sent' # sent => result[r] = "ok"
        BY <2>2, Zenon DEF Fds
      <3> QED
        BY <2>3, <3>1, Zenon
    <2> QED
      BY <2>4, <2>5, Zenon
  <1>5. /\ \A s \in conns' : Stream(s)'
        /\ \A s \in Socks : sent[s] = 0 /\ result[s] # "ok" => sent'[s] = 0
    <2>1. CASE \E r \in Socks, x \in Item : Written(u, r, x)
      BY <1>1, <1>4, <2>1, ZenonT(60)
    <2>2. CASE /\ up' = up
               /\ \/ Begin(u) \/ Lock(u) \/ Join(u) \/ TokenFails(u)
                  \/ ReadAck(u) \/ GetRetval(u) \/ ReadAddr(u)
      BY <1>1, <1>3, <2>2, ZenonT(60)
    <2> QED
      BY <1>1, <2>1, <2>2, Writes, ZenonT(60)
  <1>6. ASSUME NEW s \in Socks, result'[s] # "ok"
        PROVE  sent'[s] = 0
    <2>1. result[s] # "ok"
      <3>1. ASSUME result[s] = "ok"
            PROVE  FALSE
        <4>1. result[s] # "none"
          BY <3>1
        <4> QED
          BY <1>1, <1>6, <3>1, <4>1, Past, ZenonT(60)
      <3> QED
        BY <3>1, Zenon
    <2> QED
      BY <1>5, <2>1, Zenon DEF Streams
  <1>7. ASSUME NEW t \in Threads, Waiting(t)'
        PROVE  cur'[t] \notin conns'
    <2>1. CASE Waiting(t) /\ cur'[t] = cur[t]
      BY <1>1, <2>1, Zenon DEF Streams
    <2>2. CASE Join(u) /\ t = u
      <3>1. cur'[t] = nsock + 1
        BY <1>1, <2>2, ZenonT(60) DEF Join, IInv, TypeOK
      <3>2. nsock + 1 \notin conns
        BY <1>1, <1>2, SMTT(90) DEF IInv, Conns
      <3> QED
        BY <1>1, <3>1, <3>2, ZenonT(60)
    <2> QED
      BY <1>7, <2>1, <2>2, Phases, ZenonT(60)
  <1>8. (\A s \in Socks : s \notin conns' => tx'[s] = <<>>) /\ StreamIntact'
    BY <1>1, Zenon DEF Streams, StreamIntact
  <1> QED
    BY <1>5, <1>6, <1>7, <1>8, ZenonT(60) DEF Streams

\* q is a followed by b.
Joined(q, a, b) ==
  /\ Len(q) = Len(a) + Len(b)
  /\ \A i \in 1 .. Len(a) : q[i] = a[i]
  /\ \A i \in 1 .. Len(q) : i > Len(a) => q[i] = b[i - Len(a)]

\* What a concatenation is.
LEMMA Concatenation ==
  ASSUME NEW a \in Seq(Nat), NEW b \in Seq(Nat)
  PROVE  Joined(a \o b, a, b)
  BY DEF Joined

\* A read of data appends the next blocks to txbuf.
LEMMA StreamData ==
  ASSUME Base, Streams, NEW s \in conns, s \in Socks, NEW k \in Nat, DataRead(s, k)
  PROVE  Stream(s)' /\ \A i \in 1 .. Len(tx'[s]) : tx'[s][i] = i
  <1>1. k \in 1 .. Len(up[s]) /\ Consumed(s, k) /\ sent' = sent
    BY Zenon DEF DataRead, StreamRead, appvars
  <1>2. up[s] \in Seq(Item) /\ tx \in [Socks -> Seq(0 .. MaxData)] /\ tx[s] \in Seq(0 .. MaxData)
    BY ZenonT(60) DEF Base, IInv, TypeOK
  <1>3. Len(up[s]) \in Nat /\ Len(tx[s]) \in Nat
    BY <1>2
  <1>4. /\ \A i \in 1 .. Len(up[s]) : up[s][i].k = "data" /\ up[s][i].n = Len(tx[s]) + i
        /\ sent[s] = Len(tx[s]) + Len(up[s])
    <2>1. ~(Len(up[s]) = 1 /\ up[s][1].k = "canary")
      BY Zenon DEF DataRead
    <2>2. Stream(s)
      BY Zenon DEF Streams
    <2> QED
      BY <2>1, <2>2, Zenon DEF Stream
  <1> DEFINE new == [i \in 1 .. k |-> up[s][i].n]
  <1>5. new \in Seq(Nat) /\ Len(new) = k /\ \A i \in 1 .. k : new[i] = Len(tx[s]) + i
    <2>1. ASSUME NEW i \in 1 .. k
          PROVE  up[s][i].n = Len(tx[s]) + i /\ Len(tx[s]) + i \in Nat
      <3>1. i \in 1 .. Len(up[s]) /\ Len(tx[s]) + i \in Nat
        BY <1>1, <1>3
      <3> QED
        BY <1>4, <3>1, ZenonT(60)
    <2>2. new \in [1 .. k -> Nat]
      BY <2>1, Zenon
    <2>3. \A i \in 1 .. k : new[i] = Len(tx[s]) + i
      BY <2>1, Zenon
    <2> HIDE DEF new
    <2> QED
      BY <2>2, <2>3
  <1>6. tx'[s] = tx[s] \o new
    <2>1. tx' = [tx EXCEPT ![s] = @ \o [i \in 1 .. k |-> up[s][i].n]]
      BY <1>4, ZenonT(60) DEF DataRead
    <2> QED
      BY <1>2, <2>1, ZenonT(60)
  <1>7. tx[s] \in Seq(Nat)
    <2>1. tx[s] \in [1 .. Len(tx[s]) -> 0 .. MaxData]
      <3>1. \A S : \A q \in Seq(S) : q \in [1 .. Len(q) -> S]
        OBVIOUS
      <3> QED
        BY <1>2, <3>1, ZenonT(60)
    <2>2. \A i \in 0 .. MaxData : i \in Nat
      OBVIOUS
    <2>3. tx[s] \in [1 .. Len(tx[s]) -> Nat]
      BY <2>1, <2>2, Zenon
    <2> QED
      BY <1>3, <2>3
  <1> HIDE DEF new
  <1>8. /\ Len(tx'[s]) = Len(tx[s]) + k
        /\ \A i \in 1 .. Len(tx[s]) : tx'[s][i] = tx[s][i]
        /\ \A i \in 1 .. Len(tx'[s]) : i > Len(tx[s]) => tx'[s][i] = new[i - Len(tx[s])]
    <2>1. new \in Seq(Nat) /\ Len(new) = k
      BY <1>5, Zenon
    <2>2. Joined(tx[s] \o new, tx[s], new)
      BY <1>7, <2>1, Concatenation, ZenonT(60)
    <2> QED
      BY <1>6, <2>1, <2>2, ZenonT(60) DEF Joined
  <1>9. ASSUME NEW i \in 1 .. Len(tx'[s])
        PROVE  tx'[s][i] = i
    <2>1. CASE i \in 1 .. Len(tx[s])
      BY <1>8, <2>1, Zenon DEF Streams, StreamIntact
    <2>2. CASE i \notin 1 .. Len(tx[s])
      <3>1. i > Len(tx[s]) /\ i - Len(tx[s]) \in 1 .. k /\ Len(tx[s]) + (i - Len(tx[s])) = i
        BY <1>3, <1>8, <2>2
      <3> QED
        BY <1>5, <1>8, <3>1, ZenonT(60)
    <2> QED
      BY <2>1, <2>2, Zenon
  <1>10. Len(up'[s]) = Len(up[s]) - k /\ \A i \in 1 .. Len(up'[s]) : up'[s][i] = up[s][i + k]
    <2>1. \A i \in 1 .. Len(up[s]) : up[s][i].k # "canary"
      BY <1>4
    <2> QED
      BY <1>1, <2>1, Zenon DEF Consumed
  <1>11. ASSUME NEW i \in 1 .. Len(up'[s])
         PROVE  up'[s][i].k = "data" /\ up'[s][i].n = Len(tx'[s]) + i
    <2>1. i + k \in 1 .. Len(up[s])
      BY <1>1, <1>3, <1>10, SMTT(90)
    <2>2. \A a \in Nat : a + (i + k) = (a + k) + i
      OBVIOUS
    <2>3. Len(tx[s]) + (i + k) = Len(tx'[s]) + i
      BY <1>3, <1>8, <2>2, ZenonT(60)
    <2> QED
      BY <1>4, <1>10, <2>1, <2>3, ZenonT(60)
  <1>12. sent'[s] = Len(tx'[s]) + Len(up'[s])
    <2>1. Len(tx[s]) + Len(up[s]) = Len(tx'[s]) + Len(up'[s])
      <3>1. \A a, b \in Nat : a + b = (a + k) + (b - k)
        OBVIOUS
      <3> QED
        BY <1>3, <1>8, <1>10, <3>1, ZenonT(60)
    <2> QED
      BY <1>1, <1>4, <2>1, ZenonT(60)
  <1> QED
    BY <1>9, <1>11, <1>12, ZenonT(60) DEF Stream

\* A socket is connected before anything is written to it.
Connects ==
  /\ \A t \in Threads : pc[t] # "idle" /\ want[t].cmd = "CONNECT" => sent[want[t].fd] = 0
  /\ \A s \in Socks : \A i \in 1 .. Len(up[s]) :
       up[s][i].k = "canary" /\ call[up[s][i].n].cmd = "CONNECT" => sent[s] = 0

\* The thread that calls connect does not write to the socket until it returns.
LEMMA ConnectsNext ==
  ASSUME ~Sharing, ~Early, Base, Items, Connects, [Next]_vars
  PROVE  Connects'
  <1>1. IInv /\ sent \in [Socks -> 0 .. MaxData] /\ want \in [Threads -> Call]
    BY Zenon DEF Base, IInv, TypeOK
  \* a canary that was there
  <1>2. ASSUME NEW s \in Socks, NEW j \in 1 .. Len(up[s]), up[s][j].k = "canary",
               call'[up[s][j].n].cmd = "CONNECT"
        PROVE  sent[s] = 0
    <2>1. PICK c : c = up[s][j].n
      BY Zenon
    <2>2. Registered(c)
      BY <1>1, <1>2, <2>1, ZenonT(60) DEF IInv, Canaries
    <2>3. c \in Socks /\ c <= nsock
      <3>1. up[s] \in Seq(Item)
        BY <1>1, Zenon DEF IInv, TypeOK
      <3>2. up[s][j] \in Item
        BY <3>1
      <3>3. c \in Socks
        BY <1>2, <2>1, <3>2, SMTT(90) DEF Item
      <3> QED
        BY <2>2, <3>3, Zenon DEF Registered
    <2>4. call'[c] = call[c]
      BY <1>1, <2>3, Past, Zenon
    <2> QED
      BY <1>2, <2>1, <2>4, Zenon DEF Connects
  <1>3. CASE UNCHANGED appvars
    <2>1. \A t \in Threads : ~SendCanary(t)
      <3>1. ASSUME NEW t \in Threads, SendCanary(t)
            PROVE  pc'[t] # pc[t]
        BY <3>1, Zenon DEF SendCanary, Base, IInv, TypeOK
      <3> QED
        BY <1>3, <3>1, Zenon DEF appvars
    <2>2. ASSUME NEW s \in Socks, NEW i \in 1 .. Len(up'[s]), up'[s][i].k = "canary",
                 call'[up'[s][i].n].cmd = "CONNECT"
          PROVE  sent'[s] = 0
      <3>1. PICK j \in 1 .. Len(up[s]) : up'[s][i] = up[s][j]
        BY <1>1, <2>1, <2>2, CanarySource, ZenonT(60)
      <3> QED
        BY <1>2, <1>3, <2>2, <3>1, ZenonT(60) DEF appvars
    <2> QED
      BY <1>3, <2>2, ZenonT(60) DEF Connects, appvars
  <1>4. ASSUME NEW u \in Threads, Begin(u) \/ WriteData(u) \/ Client(u)
        PROVE  Connects'
    \* nobody else writes to the socket of a call
    <2>1. ASSUME NEW s \in Socks, NEW t \in Threads, owner[s] = t, pc[t] # "idle"
          PROVE  sent'[s] = sent[s]
      <3>1. CASE WriteData(u)
        <4>1. PICK r \in Fds(u) : sent' = [sent EXCEPT ![r] = sent[r] + 1]
          BY <3>1, Zenon DEF WriteData
        <4>2. r # s
          BY <2>1, <3>1, <4>1, Zenon DEF Fds, WriteData
        <4> QED
          BY <1>1, <4>1, <4>2, Zenon DEF Fds
      <3>2. CASE ~WriteData(u)
        <4>1. sent' = sent
          BY <1>4, <3>2, ZenonT(60) DEF Client, Begin, Lock, Join, TokenFails, SendRpc, ReadAck,
                                        SendCanary, GetRetval, ReadAddr
        <4> QED
          BY <4>1, Zenon
      <3> QED
        BY <3>1, <3>2, Zenon
    <2>2. ASSUME NEW t \in Threads, pc[t] # "idle", want[t].cmd = "CONNECT"
          PROVE  /\ want[t].fd \in Socks /\ sent[want[t].fd] = 0
                 /\ sent'[want[t].fd] = 0
      <3>1. want[t].fd \in Socks /\ want[t].fd # 0
        <4>1. want[t].cmd # "SOCKET"
          BY <2>2
        <4>2. want[t].fd \in Socks
          BY <1>1, <2>2, <4>1, CalledSocket, Zenon
        <4> QED
          BY <4>2 DEF Socks
      <3>2. owner[want[t].fd] = t
        BY <2>2, <3>1, Zenon DEF Base, Wanted, Usable
      <3>3. sent[want[t].fd] = 0
        BY <2>2, Zenon DEF Connects
      <3> QED
        BY <2>1, <2>2, <3>1, <3>2, <3>3, Zenon
    <2>3. ASSUME NEW t \in Threads, pc'[t] # "idle", want'[t].cmd = "CONNECT"
          PROVE  sent'[want'[t].fd] = 0
      <3>1. CASE Begin(u) /\ t = u
        <4>1. PICK cmd \in Cmds, fd \in Fds(u) \cup {0}, arg \in Ports \cup {NoPort} :
                /\ cmd = "CONNECT" => sent[fd] = 0
                /\ want' = [want EXCEPT ![u] = [cmd |-> cmd, fd |-> fd, arg |-> arg]]
          BY <3>1, Zenon DEF Begin
        <4>2. want'[t] = [cmd |-> cmd, fd |-> fd, arg |-> arg] /\ sent' = sent
          BY <1>1, <3>1, <4>1, Zenon DEF Begin
        <4>3. want'[t].cmd = cmd /\ want'[t].fd = fd
          BY <4>2
        <4> QED
          BY <2>3, <4>1, <4>2, <4>3, Zenon
      <3>2. CASE ~(Begin(u) /\ t = u)
        <4>1. pc[t] # "idle" /\ want'[t] = want[t]
          <5>1. CASE t # u
            BY <1>1, <1>4, <2>3, <5>1, OthersStay, Zenon
          <5>2. CASE t = u
            <6>1. WriteData(u) => pc'[u] = "idle"
              BY Zenon DEF WriteData
            <6>2. Client(u)
              BY <1>4, <2>3, <3>2, <5>2, <6>1, Zenon
            <6> QED
              BY <5>2, <6>2, ZenonT(60) DEF Client, Lock, Join, TokenFails, SendRpc, ReadAck,
                                            SendCanary, GetRetval, ReadAddr
          <5> QED
            BY <5>1, <5>2, Zenon
        <4> QED
          BY <2>2, <2>3, <4>1, Zenon
      <3> QED
        BY <3>1, <3>2, Zenon
    <2>4. ASSUME NEW s \in Socks, NEW i \in 1 .. Len(up'[s]), up'[s][i].k = "canary",
                 call'[up'[s][i].n].cmd = "CONNECT"
          PROVE  sent'[s] = 0
      <3>1. ASSUME NEW j \in 1 .. Len(up[s]), up'[s][i] = up[s][j]
            PROVE  sent'[s] = 0
        <4>1. sent[s] = 0 /\ Pended(s, up[s][j].n)
          BY <1>2, <2>4, <3>1, ZenonT(60) DEF Items
        <4>2. PICK t \in Threads : owner[s] = t /\ pc[t] \in {"retval", "addr"}
          BY <4>1, Zenon DEF Pended, Usable
        <4> QED
          BY <2>1, <4>1, <4>2, ZenonT(60)
      <3>2. ASSUME NEW t \in Threads, SendCanary(t), s = want[t].fd, up'[s][i].n = cur[t]
            PROVE  sent'[s] = 0
        <4>1. pc[t] = "canary" /\ call' = call
          BY <3>2, Zenon DEF SendCanary
        <4>2. call[cur[t]] = want[t]
          BY <1>1, <4>1, CurrentCall, Zenon
        <4> QED
          BY <2>2, <2>4, <3>2, <4>1, <4>2, ZenonT(60)
      <3> QED
        BY <1>1, <2>4, <3>1, <3>2, CanarySource, ZenonT(60)
    <2> QED
      BY <2>3, <2>4, ZenonT(60) DEF Connects
  <1>5. CASE Quiet \/ Select \/ Accept \/ \E s \in Socks : Eof(s) \/ RpcRead(s)
    BY <1>3, <1>5, Zenon DEF Quiet, Select, Accept, Eof, RpcRead
  <1>6. ASSUME NEW s \in Socks, NEW k \in Nat,
               DataRead(s, k) \/ \E p \in Nat, c \in Socks : CanaryRead(s, k, p, c)
        PROVE  Connects'
    BY <1>3, <1>6, Zenon DEF DataRead, CanaryRead, StreamRead
  <1> QED
    BY <1>1, <1>4, <1>5, <1>6, Steps, ZenonT(60)

\* A read with a canary takes it and nothing else, and if the call is connect,
\* pico_handleConnect copies a Connection whose txbuf is empty.
LEMMA StreamCanary ==
  ASSUME Base, Slot, Connects, Streams, NEW s \in conns, s \in Socks,
         NEW k \in Nat, NEW p \in Nat, NEW c \in Socks, CanaryRead(s, k, p, c)
  PROVE  tx' = tx /\ Stream(s)'
  <1>1. /\ k \in 1 .. Len(up[s]) /\ Consumed(s, k) /\ sent' = sent
        /\ p \in 1 .. k /\ up[s][p].k = "canary" /\ up[s][p].n = c
        /\ Len(up[s]) = 1 /\ (tmpbuf = 0 \/ call[tmpbuf].cmd # "CONNECT" \/ tx[s] = <<>>) => tx' = tx
    BY ZenonT(60) DEF CanaryRead, StreamRead, appvars
  <1>2. Len(up[s]) \in Nat /\ Len(tx[s]) \in Nat
    BY DEF Base, IInv, TypeOK
  <1>3. Len(up[s]) = 1 /\ sent[s] = Len(tx[s])
    <2>1. p \in 1 .. Len(up[s])
      BY <1>1, <1>2
    <2>2. ~(\A i \in 1 .. Len(up[s]) : up[s][i].k = "data")
      <3>1. up[s][p].k # "data"
        BY <1>1, SMTT(90)
      <3> QED
        BY <2>1, <3>1, ZenonT(60)
    <2> QED
      BY <2>2, ZenonT(60) DEF Stream, Streams
  <1>4. k = 1 /\ p \in 1 .. Len(up[s])
    BY <1>1, <1>3, SMTT(90)
  <1>5. tx' = tx
    <2>1. tmpbuf \in {0, c}
      BY <1>1, <1>4, Zenon DEF Slot
    <2>2. call[c].cmd = "CONNECT" => tx[s] = <<>>
      <3>1. call[c].cmd = "CONNECT" => sent[s] = 0
        BY <1>1, <1>4, Zenon DEF Connects
      <3>2. tx[s] \in Seq(0 .. MaxData)
        BY Zenon DEF Base, IInv, TypeOK
      <3>3. Len(tx[s]) = 0 => tx[s] = <<>>
        BY <3>2
      <3> QED
        BY <1>3, <3>1, <3>3, Zenon
    <2> QED
      BY <1>1, <1>3, <2>1, <2>2, Zenon
  <1>6. Len(up'[s]) = 0
    <2>1. Len(up'[s]) = Len(up[s]) - k
      BY <1>1, Zenon DEF Consumed
    <2> QED
      BY <1>3, <1>4, <2>1, SMTT(90)
  <1>7. Len(tx[s]) = Len(tx[s]) + Len(up'[s]) /\ \A i \in 1 .. Len(up'[s]) : FALSE
    BY <1>2, <1>6
  <1> QED
    BY <1>1, <1>3, <1>5, <1>7, ZenonT(60) DEF Stream

\* The blocks of every data socket reach txbuf in order.
LEMMA StreamsNext ==
  ASSUME ~Sharing, ~Padded, Base, Items, Order, Slot, Connects, Streams, [Next]_vars
  PROVE  Streams'
  <1>1. IInv /\ conns \subseteq Socks
    BY ZenonT(60) DEF Base, IInv, TypeOK
  <1>2. CASE Quiet \/ Select \/ Accept \/ \E s \in Socks : Eof(s)
    <2>1. UNCHANGED <<appvars, up, tx, conns>>
      BY <1>2, Zenon DEF Quiet, Select, Accept, Eof
    <2>2. \A s \in conns' : Stream(s)'
      BY <2>1, Zenon DEF Stream, Streams, appvars
    <2>3. \A t \in Threads : Waiting(t)' => cur'[t] \notin conns'
      BY <2>1, Zenon DEF Waiting, Streams, appvars
    <2> QED
      BY <2>1, <2>2, <2>3, ZenonT(60) DEF Streams, StreamIntact, appvars
  <1>3. ASSUME NEW s \in Socks, NEW k \in Nat, StreamRead(s, k),
               \A r \in Socks : r # s => tx'[r] = tx[r],
               s \notin conns => tx' = tx,
               s \in conns => Stream(s)' /\ \A i \in 1 .. Len(tx'[s]) : tx'[s][i] = i
        PROVE  Streams'
    <2>1. /\ UNCHANGED <<appvars, conns>>
          /\ \A r \in Socks : r # s => up'[r] = up[r]
      BY <1>3, Zenon DEF StreamRead, Consumed
    <2>2. ASSUME NEW r \in conns'
          PROVE  Stream(r)'
      <3>1. CASE r = s
        BY <1>3, <2>1, <3>1, ZenonT(60)
      <3>2. CASE r # s
        <4>1. up'[r] = up[r] /\ tx'[r] = tx[r] /\ sent'[r] = sent[r] /\ Stream(r)
          BY <1>1, <1>3, <2>1, <3>2, ZenonT(60) DEF Streams, appvars
        <4> QED
          BY <4>1, Zenon DEF Stream
      <3> QED
        BY <3>1, <3>2, Zenon
    <2>3. ASSUME NEW r \in Socks
          PROVE  /\ r \notin conns' => tx'[r] = <<>>
                 /\ \A i \in 1 .. Len(tx'[r]) : tx'[r][i] = i
      <3>1. CASE r = s /\ s \in conns
        BY <1>3, <2>1, <3>1, ZenonT(60)
      <3>2. CASE ~(r = s /\ s \in conns)
        <4>1. tx'[r] = tx[r]
          BY <1>3, <3>2, ZenonT(60)
        <4> QED
          BY <2>1, <4>1, ZenonT(60) DEF Streams, StreamIntact
      <3> QED
        BY <3>1, <3>2, Zenon
    <2>4. \A t \in Threads : Waiting(t)' => cur'[t] \notin conns'
      BY <1>3, <2>1, StreamPhases, ZenonT(60) DEF Streams, appvars
    <2>5. \A r \in Socks : result'[r] # "ok" => sent'[r] = 0
      BY <2>1, Zenon DEF Streams, appvars
    <2> QED
      BY <2>2, <2>3, <2>4, <2>5, ZenonT(60) DEF Streams, StreamIntact
  <1>4. ASSUME NEW s \in Socks, NEW k \in Nat, DataRead(s, k)
        PROVE  Streams'
    <2>1. StreamRead(s, k)
      BY <1>4, Zenon DEF DataRead
    <2>2. s \notin conns => tx' = tx
      BY <2>1, Zenon DEF StreamRead
    <2>3. \A r \in Socks : r # s => tx'[r] = tx[r]
      BY <2>1, Zenon DEF StreamRead
    <2>4. s \in conns => Stream(s)' /\ \A i \in 1 .. Len(tx'[s]) : tx'[s][i] = i
      BY <1>4, StreamData, Zenon
    <2> QED
      BY <1>3, <2>1, <2>2, <2>3, <2>4, ZenonT(60)
  <1>5. ASSUME NEW s \in Socks, NEW k \in Nat, NEW p \in Nat, NEW d \in Socks, CanaryRead(s, k, p, d)
        PROVE  Streams'
    <2>1. StreamRead(s, k) /\ (s \notin conns => tx' = tx) /\ \A r \in Socks : r # s => tx'[r] = tx[r]
      BY <1>5, Zenon DEF CanaryRead, StreamRead
    <2>2. s \in conns => tx' = tx /\ Stream(s)'
      BY <1>5, StreamCanary, Zenon
    <2>3. s \in conns => Stream(s)' /\ \A i \in 1 .. Len(tx'[s]) : tx'[s][i] = i
      BY <2>2, Zenon DEF Streams, StreamIntact
    <2> QED
      BY <1>3, <2>1, <2>3, ZenonT(60)
  <1>6. ASSUME NEW r \in Socks, RpcRead(r)
        PROVE  Streams'
    <2>1. /\ UNCHANGED <<appvars, tx>> /\ owner[r] \in Threads /\ pc[owner[r]] = "ack" /\ cur[owner[r]] = r
          /\ up'[r] = <<>> /\ up[r] = <<[k |-> "rpc", n |-> r]>>
          /\ \A q \in Socks : q # r => up'[q] = up[q]
          /\ conns' \in {conns, conns \cup {r}}
      BY <1>6, Zenon DEF RpcRead
    <2>2. r \notin conns
      <3>1. \A q : q = <<[k |-> "rpc", n |-> r]>> => q # <<>>
        OBVIOUS
      <3> QED
        BY <2>1, <3>1, Zenon DEF Waiting, Streams
    <2>3. ASSUME NEW s \in conns'
          PROVE  Stream(s)'
      <3>1. CASE s = r
        <4>1. result[r] # "ok"
          <5>1. \A q : q = <<[k |-> "rpc", n |-> r]>> => 1 \in 1 .. Len(q) /\ q[1].k = "rpc"
            OBVIOUS
          <5> QED
            BY <1>1, <2>1, <5>1, KnownSocket, ZenonT(60)
        <4>2. sent'[r] = 0 /\ tx'[r] = <<>>
          BY <2>1, <2>2, <4>1, ZenonT(60) DEF Streams, appvars
        <4>3. \A q : q = <<>> => Len(q) = 0 /\ 0 = Len(q) + Len(q) /\ \A i \in 1 .. Len(q) : FALSE
          OBVIOUS
        <4> QED
          BY <2>1, <3>1, <4>2, <4>3, ZenonT(60) DEF Stream
      <3>2. CASE s # r
        <4>1. s \in conns /\ s \in Socks
          BY <1>1, <2>1, <2>3, <3>2, SMTT(90)
        <4>2. up'[s] = up[s] /\ tx'[s] = tx[s] /\ sent'[s] = sent[s] /\ Stream(s)
          BY <2>1, <3>2, <4>1, ZenonT(60) DEF Streams, appvars
        <4> QED
          BY <4>2, ZenonT(60) DEF Stream
      <3> QED
        BY <3>1, <3>2, ZenonT(60)
    <2>4. ASSUME NEW t \in Threads, Waiting(t)'
          PROVE  cur'[t] \notin conns'
      <3>1. pc[t] \in {"token", "ack"} /\ cur'[t] = cur[t]
        BY <2>1, <2>4, Zenon DEF Waiting, appvars
      <3>2. cur[t] # r
        <4>1. CASE t = owner[r]
          BY <2>1, <2>4, <4>1, ZenonT(60) DEF Waiting, appvars
        <4>2. CASE t # owner[r]
          BY <1>1, <2>1, <3>1, <4>2, Distinct, ZenonT(60)
        <4> QED
          BY <4>1, <4>2, Zenon
      <3>3. cur[t] \in Socks
        BY <1>1, <3>1, CurrentCall, ZenonT(60)
      <3>4. Waiting(t)
        BY <2>1, <2>4, <3>2, <3>3, ZenonT(60) DEF Waiting, appvars
      <3> QED
        BY <2>1, <3>1, <3>2, <3>4, ZenonT(60) DEF Streams
    <2>5. /\ \A s \in Socks : s \notin conns' => tx'[s] = <<>>
          /\ \A s \in Socks : result'[s] # "ok" => sent'[s] = 0
          /\ StreamIntact'
      BY <2>1, Zenon DEF Streams, StreamIntact, appvars
    <2> QED
      BY <2>3, <2>4, <2>5, ZenonT(60) DEF Streams
  <1> QED
    BY <1>1, <1>2, <1>4, <1>5, <1>6, StreamsApp, Steps, ZenonT(60)

============================================================================
