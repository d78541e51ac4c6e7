----------------------------- MODULE RpcProofs -----------------------------
(***************************************************************************)
(* The theorems about the RPC channel: a canary finds its job, a process   *)
(* has one open job in the service, its command is the one that is         *)
(* executed, and its data streams are taken over as they were written.     *)
(***************************************************************************)
EXTENDS RpcOrder

\* IInv holds in every reachable state of the RPC channel.
THEOREM Invariance == Spec => []IInv
  <1>1. IInv /\ [Next]_vars => IInv'
    BY NextInv, Zenon
  <1> QED
    BY InitInv, <1>1, PTL DEF Spec

\* The variables of the API and of the tap service keep their types; nacc and
\* the descriptors of rpc_join stay within the sockets that were connected.
THEOREM TypeCorrect == Spec => []TypeOK
  <1>1. IInv => TypeOK
    BY ZenonT(60) DEF IInv
  <1> QED
    BY Invariance, <1>1, PTL

\* For any number of processes, threads and calls, whatever they share and
\* whichever fault occurs: when phyOnUnixData reads a canary its job is in
\* the jobmap, with the socket the caller waits on.
THEOREM JobIsFound == Spec => []JobFound
  <1>1. IInv => JobFound
    <2> SUFFICES ASSUME IInv, NEW s \in Socks, NEW i \in 1 .. Len(up[s]),
                        up[s][i].k = "canary"
                 PROVE  jobmap[up[s][i].n] = up[s][i].n
      BY ZenonT(60) DEF JobFound
    <2>1. Registered(up[s][i].n)
      BY ZenonT(60) DEF IInv, Canaries
    <2> QED
      BY <2>1, Zenon DEF Registered
  <1> QED
    BY Invariance, <1>1, PTL

\* sendReturnValue never writes to the socket of a Connection: all a data
\* socket ever carries back in this module is the ACK of its RPC_SOCKET.
THEOREM StreamsCarryNoReply == Spec => []NoReplyInStream
  <1>1. IInv => NoReplyInStream
    BY Zenon DEF IInv, Conns, NoReplyInStream
  <1> QED
    BY Invariance, <1>1, PTL

\* What holds, if two reads empty a socket, whatever the faults, the
\* processes and the sharing.
OInv == Base /\ Items /\ Room /\ Order /\ OneCanary

\* In the beginning the streams are empty.
LEMMA OrderInit ==
  ASSUME Init
  PROVE  OInv /\ Slot /\ Unasked /\ Connects /\ Streams
  <1>1. Base
    BY BaseInit, ZenonT(60)
  <1>2. \A s \in Socks : up[s] = <<>> /\ tx[s] = <<>>
    BY Zenon DEF Init
  <1>3. \A q : q = <<>> => Len(q) = 0 /\ \A i \in 1 .. Len(q) : FALSE
    OBVIOUS
  <1>4. \A s \in Socks : Len(up[s]) = 0 /\ (\A i \in 1 .. Len(up[s]) : FALSE)
                                       /\ (\A i \in 1 .. Len(tx[s]) : FALSE)
    BY <1>2, <1>3, ZenonT(60)
  <1>5. Items
    BY <1>4, ZenonT(60) DEF Items
  <1>6. Room
    <2>1. 0 <= SockBuf
      BY ConstantsAssumption
    <2> QED
      BY <1>4, <2>1, ZenonT(60) DEF Room
  <1>7. Order
    BY <1>4, Zenon DEF Order
  <1>8. OneCanary
    BY <1>4, ZenonT(60) DEF OneCanary
  <1>9. \A t \in Threads : ~Answered(t) /\ ~Waiting(t)
    <2>1. \A t \in Threads : pc[t] = "idle"
      BY Zenon DEF Init
    <2> QED
      BY <2>1, ZenonT(60) DEF Answered, Waiting
  <1>10. Slot
    <2>1. RightCommand
      BY ZenonT(60) DEF Init, RightCommand
    <2> QED
      BY <1>4, <1>9, <2>1, ZenonT(60) DEF Slot
  <1>11. Unasked /\ Connects
    <2>1. \A t \in Threads : pc[t] = "idle"
      BY Zenon DEF Init
    <2> QED
      BY <1>4, <1>9, <2>1, ZenonT(60) DEF Unasked, Connects
  <1>12. Streams
    <2>1. conns = {} /\ \A s \in Socks : sent[s] = 0
      BY Zenon DEF Init
    <2>2. StreamIntact
      BY <1>4, ZenonT(60) DEF StreamIntact
    <2> QED
      BY <1>2, <1>9, <2>1, <2>2, ZenonT(60) DEF Streams
  <1> QED
    BY <1>1, <1>5, <1>6, <1>7, <1>8, <1>10, <1>11, <1>12, ZenonT(60) DEF OInv

\* Every step keeps the order.
LEMMA OInvNext ==
  ASSUME TwoReads, OInv, [Next]_vars
  PROVE  OInv'
  <1>1. Base /\ Items /\ Room /\ Order /\ OneCanary /\ IInv
    BY Zenon DEF OInv, Base
  <1>2. Base' /\ IInv'
    BY <1>1, BaseNext, ZenonT(60) DEF Base
  <1>3. Items' /\ Room' /\ Order' /\ OneCanary'
    BY <1>1, <1>2, ItemsNext, RoomNext, OrderNext, OneCanaryNext, ZenonT(60)
  <1> QED
    BY <1>2, <1>3, ZenonT(60) DEF OInv

\* If two reads of Phy::poll empty the buffer of a Unix socket: for any
\* number of processes, threads and calls, whatever they share and whichever
\* fault occurs, rpc_mutex is held by one thread of a process, what a thread
\* wrote before a call is read before the RPC of that call, and the streams
\* hold one canary of a process at most.
THEOREM ReadInOrder ==
  ASSUME TwoReads
  PROVE  Spec => []OInv
  <1>1. Init => OInv
    BY OrderInit, ZenonT(60)
  <1>2. OInv /\ [Next]_vars => OInv'
    BY OInvNext, Zenon
  <1> QED
    BY <1>1, <1>2, PTL DEF Spec

\* If one process uses the service, the slot on the stack of phyOnUnixData
\* holds the RPC of the canary that is on its way.
THEOREM SlotIsKept ==
  ASSUME SingleProcess, TwoReads
  PROVE  Spec => []Slot
  <1>1. Init => Slot
    BY OrderInit, ZenonT(60)
  <1>2. OInv /\ OInv' /\ Slot /\ [Next]_vars => Slot'
    BY SlotNext, ZenonT(60) DEF OInv
  <1> QED
    BY <1>1, <1>2, ReadInOrder, PTL DEF Spec

\* If one process uses the service and two reads empty a socket,
\* phyOnUnixData executes the command that the RPC of a canary asked for,
\* although jobmap refers to a slot on its stack: the next RPC is copied
\* there when this command has been executed. Threads may share sockets,
\* data may hold padding, and every fault may occur.
THEOREM CommandIsRight ==
  ASSUME SingleProcess, TwoReads
  PROVE  Spec => []RightCommand
  <1>1. Slot => RightCommand
    BY Zenon DEF Slot
  <1> QED
    BY <1>1, SlotIsKept, PTL

\* If two reads empty a socket, the service never holds two jobs of a process
\* that can still be executed, although getsockname and getpeername release
\* rpc_mutex before their job is done. Threads may share sockets, a canary may
\* be cut by the end of a read or lost behind padding in the data, and every
\* fault may occur.
THEOREM JobsAreSingle ==
  ASSUME TwoReads
  PROVE  Spec => []OneOpenJob
  <1>1. Init => Unasked
    BY OrderInit, ZenonT(60)
  <1>2. OInv /\ Unasked /\ [Next]_vars => Unasked'
    BY UnaskedNext, ZenonT(60) DEF OInv
  <1>3. OInv /\ Unasked => OneOpenJob
    BY OneJob, ZenonT(60) DEF OInv, OneOpenJob
  <1> QED
    BY <1>1, <1>2, <1>3, ReadInOrder, PTL DEF Spec

\* If one process uses the service, no two of its threads use one socket, two
\* reads empty it, the data hold no padding and a socket is connected before
\* it is written to, then txbuf holds a prefix of what the application wrote,
\* whatever the faults.
THEOREM StreamsAreIntact ==
  ASSUME SingleProcess, ~Sharing, ~Padded, ~Early, TwoReads
  PROVE  Spec => []StreamIntact
  <1>1. Init => Connects /\ Streams
    BY OrderInit, Zenon
  <1>2. OInv /\ Connects /\ [Next]_vars => Connects'
    BY ConnectsNext, ZenonT(60) DEF OInv
  <1>3. OInv /\ Slot /\ Connects /\ Streams /\ [Next]_vars => Streams'
    BY StreamsNext, ZenonT(60) DEF OInv
  <1>4. Streams => StreamIntact
    BY Zenon DEF Streams
  <1> QED
    BY <1>1, <1>2, <1>3, <1>4, ReadInOrder, SlotIsKept, PTL DEF Spec

============================================================================
