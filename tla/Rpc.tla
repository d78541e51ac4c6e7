-------------------------------- MODULE Rpc --------------------------------
(***************************************************************************)
(* The RPC channel between the socket API of an application (rpc.c,        *)
(* sockets.c) and the tap service (tap.cpp, Phy.hpp, picotcp.cpp).         *)
(*                                                                         *)
(* A call opens an ephemeral Unix socket, writes one RPC on it, waits for  *)
(* the ACK byte 'z', writes the RPC's random token (the canary) into the   *)
(* data stream the call is about, and reads the return value from the      *)
(* ephemeral socket.  The service keeps the RPC in its jobmap until the    *)
(* canary arrives on the data socket, and executes it then.                *)
(*                                                                         *)
(* Sockets are numbered in the order in which they connect.  The service   *)
(* accepts them in that order and Phy keeps them in a list in that order.  *)
(* The call that connected socket n is call n, and n also stands for its   *)
(* canary (64 random bits, assumed distinct and not 0).  RPC_SOCKET makes  *)
(* the socket it was sent on the new data socket.                          *)
(*                                                                         *)
(* Data sockets stay open in this module.                                  *)
(***************************************************************************)
EXTENDS Integers, Sequences, FiniteSets

CONSTANTS
  Threads,    \* application threads
  ProcOf,     \* the process of each thread
  Cmds,       \* the RPCs the application may issue
  Ports,      \* the ports it may bind
  Sharing,    \* TRUE: threads of a process use each other's sockets
  Padded,     \* TRUE: the data may contain the bytes that pad a canary
  Early,      \* TRUE: a socket may be connected after data was written to it
  MaxSocks,   \* bound: sockets connected to the service, one per call
  MaxData,    \* bound: blocks of data written to one socket
  SockBuf,    \* blocks that fit in the buffer of a Unix socket
  ReadMax,    \* blocks that fit in the buffer of Phy::poll
  Faults,     \* the failures that may happen
  Clobber,    \* TRUE: other calls reuse the stack under phyOnUnixData
  None        \* no thread

AllCmds == {"SOCKET", "CONNECT", "BIND", "LISTEN", "GETSOCKNAME", "GETPEERNAME"}
AllFaults == {"urandom", "pico_socket_open"}

ASSUME ConstantsAssumption ==
  /\ None \notin Threads
  /\ ProcOf \in [Threads -> Nat]
  /\ Cmds \subseteq AllCmds
  /\ Ports \subseteq Nat \ {0}
  /\ Sharing \in BOOLEAN
  /\ Padded \in BOOLEAN
  /\ Early \in BOOLEAN
  /\ MaxSocks \in Nat
  /\ MaxData \in Nat
  /\ SockBuf \in Nat \ {0}
  /\ ReadMax \in Nat \ {0}
  /\ Faults \subseteq AllFaults
  /\ Clobber \in BOOLEAN

Socks == 1 .. MaxSocks
Procs == {ProcOf[t] : t \in Threads}

(***************************************************************************)
(* What travels towards the service: an RPC, a canary (a token and its     *)
(* padding), or a block of application data, which may hold the bytes of   *)
(* the padding too ("pad").  n is the call, or the number of the block; it *)
(* is 0 for a piece of a canary that a read() has cut in two.              *)
(***************************************************************************)
Item == [k : {"rpc", "canary"}, n : Socks] \cup [k : {"data", "pad"}, n : 0 .. MaxData]
Piece(k) == [k |-> k, n |-> 0]
\* What travels back: the ACK byte, or a return value.
Reply == {"z", "ok", "err"}

NoPort == 0

Call == [cmd : AllCmds, fd : 0 .. MaxSocks, arg : Ports \cup {NoPort}]
NoCall == [cmd |-> "SOCKET", fd |-> 0, arg |-> NoPort]

VARIABLES
  \* application side
  lock,    \* the mutex of each process
  pc,      \* where each thread is in rpc_send_command
  want,    \* the call a thread is making
  cur,     \* its rpc_sock
  call,    \* history: what call n asked for
  owner,   \* history: the thread that made call n
  result,  \* what call n returned
  sent,    \* blocks of data written to a socket
  copen,   \* the application's end of the socket is open
  \* the Unix sockets
  nsock,   \* sockets connected so far
  up,      \* application to service
  down,    \* service to application
  \* tap service
  nacc,    \* sockets accepted so far
  phys,    \* Phy's list of sockets
  ready,   \* sockets that select() reported and poll has still to serve
  jobmap,  \* RPC socket of a registered job, 0 if there is none
  tmpbuf,  \* the call whose RPC is in the stack slot jobmap points to, or 0
  conns,   \* sockets that have a Connection
  pico,    \* state of a Connection's pico_socket, and its ports in the port table
  tap,     \* the tap: "off" before the first addIp, "up" or "bare" with or
           \* without an address since then, "dead" when the service has crashed
  tx,      \* history: data blocks appended to txbuf, 0 if not as written
  done     \* history: the command executed for canary n

appvars == <<lock, pc, want, cur, call, owner, result, sent, copen, nsock>>
svcvars == <<nacc, phys, ready, jobmap, tmpbuf, conns, pico, tap, tx, done>>
vars == <<appvars, up, down, svcvars>>

Init ==
  /\ lock = [p \in Procs |-> None]
  /\ pc = [t \in Threads |-> "idle"]
  /\ want = [t \in Threads |-> NoCall]
  /\ cur = [t \in Threads |-> 0]
  /\ call = [s \in Socks |-> NoCall]
  /\ owner = [s \in Socks |-> None]
  /\ result = [s \in Socks |-> "none"]
  /\ sent = [s \in Socks |-> 0]
  /\ copen = [s \in Socks |-> FALSE]
  /\ nsock = 0
  /\ up = [s \in Socks |-> <<>>]
  /\ down = [s \in Socks |-> <<>>]
  /\ nacc = 0
  /\ phys = {}
  /\ ready = {}
  /\ jobmap = [s \in Socks |-> 0]
  /\ tmpbuf = 0
  /\ conns = {}
  /\ pico = [s \in Socks |-> [st |-> "none", ports |-> {}]]
  /\ tap = "off"
  /\ tx = [s \in Socks |-> <<>>]
  /\ done = [s \in Socks |-> "none"]

----------------------------------------------------------------------------
(***************************************************************************)
(* The application: sockets.c and rpc_send_command.                        *)
(***************************************************************************)

\* The data sockets a thread may name in a call.
Fds(t) ==
  {s \in Socks : /\ call[s].cmd = "SOCKET"
                 /\ result[s] = "ok"
                 /\ \/ owner[s] = t
                    \/ Sharing /\ owner[s] \in Threads
                               /\ ProcOf[owner[s]] = ProcOf[t]}

\* zts_socket, zts_connect, zts_bind, ...: the payload is put together.
Begin(t) ==
  /\ pc[t] = "idle"
  /\ nsock + Cardinality({u \in Threads : pc[u] \in {"lock", "join"}}) < MaxSocks
  /\ \E cmd \in Cmds, fd \in Fds(t) \cup {0}, arg \in Ports \cup {NoPort} :
       /\ (cmd = "SOCKET") <=> (fd = 0)
       /\ (cmd = "BIND") <=> (arg # NoPort)
       /\ cmd = "CONNECT" /\ ~Early => sent[fd] = 0
       /\ want' = [want EXCEPT ![t] = [cmd |-> cmd, fd |-> fd, arg |-> arg]]
  /\ pc' = [pc EXCEPT ![t] = "lock"]
  /\ UNCHANGED <<lock, cur, call, owner, result, sent, copen, nsock, up, down, svcvars>>

\* write() on a data socket: it goes straight into the Unix socket, and waits
\* while there is no room.
WriteData(t) ==
  /\ pc[t] = "idle"
  /\ \E s \in Fds(t), k \in {"data", "pad"} :
       /\ k = "pad" => Padded
       /\ sent[s] < MaxData
       /\ Len(up[s]) < SockBuf
       /\ sent' = [sent EXCEPT ![s] = @ + 1]
       /\ up' = [up EXCEPT ![s] = Append(@, [k |-> k, n |-> sent[s] + 1])]
  /\ UNCHANGED <<lock, pc, want, cur, call, owner, result, copen, nsock, down, svcvars>>

Lock(t) ==
  /\ pc[t] = "lock"
  /\ lock[ProcOf[t]] = None
  /\ lock' = [lock EXCEPT ![ProcOf[t]] = t]
  /\ pc' = [pc EXCEPT ![t] = "join"]
  /\ UNCHANGED <<want, cur, call, owner, result, sent, copen, nsock, up, down, svcvars>>

\* rpc_join: connect the ephemeral socket.
Join(t) ==
  /\ pc[t] = "join"
  /\ nsock < MaxSocks
  /\ nsock' = nsock + 1
  /\ cur' = [cur EXCEPT ![t] = nsock + 1]
  /\ call' = [call EXCEPT ![nsock + 1] = want[t]]
  /\ owner' = [owner EXCEPT ![nsock + 1] = t]
  /\ copen' = [copen EXCEPT ![nsock + 1] = TRUE]
  /\ pc' = [pc EXCEPT ![t] = "token"]
  /\ UNCHANGED <<lock, want, result, sent, up, down, svcvars>>

\* /dev/urandom cannot be read: the call returns with the mutex held.
TokenFails(t) ==
  /\ pc[t] = "token"
  /\ "urandom" \in Faults
  /\ result' = [result EXCEPT ![cur[t]] = "err"]
  /\ pc' = [pc EXCEPT ![t] = "idle"]
  /\ UNCHANGED <<lock, want, cur, call, owner, sent, copen, nsock, up, down, svcvars>>

\* The token is drawn and the RPC is written.
SendRpc(t) ==
  /\ pc[t] = "token"
  /\ up' = [up EXCEPT ![cur[t]] = Append(@, [k |-> "rpc", n |-> cur[t]])]
  /\ pc' = [pc EXCEPT ![t] = "ack"]
  /\ UNCHANGED <<lock, want, cur, call, owner, result, sent, copen, nsock, down, svcvars>>

\* The ACK byte arrives; after RPC_SOCKET the call is over and rpc_sock is
\* the new socket.
ReadAck(t) ==
  /\ pc[t] = "ack"
  /\ down[cur[t]] # <<>>
  /\ down' = [down EXCEPT ![cur[t]] = Tail(@)]
  /\ IF want[t].cmd = "SOCKET"
       THEN /\ result' = [result EXCEPT ![cur[t]] = "ok"]
            /\ lock' = [lock EXCEPT ![ProcOf[t]] = None]
            /\ pc' = [pc EXCEPT ![t] = "idle"]
       ELSE /\ pc' = [pc EXCEPT ![t] = "canary"]
            /\ UNCHANGED <<result, lock>>
  /\ UNCHANGED <<want, cur, call, owner, sent, copen, nsock, up, svcvars>>

\* The token goes into the data stream when there is room.  getsockname and getpeername give
\* up the mutex here, the others keep it until the return value is there.
SendCanary(t) ==
  /\ pc[t] = "canary"
  /\ Len(up[want[t].fd]) < SockBuf
  /\ up' = [up EXCEPT ![want[t].fd] = Append(@, [k |-> "canary", n |-> cur[t]])]
  /\ IF want[t].cmd \in {"GETSOCKNAME", "GETPEERNAME"}
       THEN /\ lock' = [lock EXCEPT ![ProcOf[t]] = None]
            /\ pc' = [pc EXCEPT ![t] = "addr"]
       ELSE /\ pc' = [pc EXCEPT ![t] = "retval"]
            /\ UNCHANGED lock
  /\ UNCHANGED <<want, cur, call, owner, result, sent, copen, nsock, down, svcvars>>

\* get_retval, close(rpc_sock), unlock.
GetRetval(t) ==
  /\ pc[t] = "retval"
  /\ down[cur[t]] # <<>>
  /\ result' = [result EXCEPT ![cur[t]] = Head(down[cur[t]])]
  /\ down' = [down EXCEPT ![cur[t]] = Tail(@)]
  /\ copen' = [copen EXCEPT ![cur[t]] = FALSE]
  /\ lock' = [lock EXCEPT ![ProcOf[t]] = None]
  /\ pc' = [pc EXCEPT ![t] = "idle"]
  /\ UNCHANGED <<want, cur, call, owner, sent, nsock, up, svcvars>>

\* zts_getsockname and zts_getpeername: whatever arrives is the address.
ReadAddr(t) ==
  /\ pc[t] = "addr"
  /\ down[cur[t]] # <<>>
  /\ result' = [result EXCEPT ![cur[t]] = "ok"]
  /\ down' = [down EXCEPT ![cur[t]] = Tail(@)]
  /\ copen' = [copen EXCEPT ![cur[t]] = FALSE]
  /\ pc' = [pc EXCEPT ![t] = "idle"]
  /\ UNCHANGED <<lock, want, cur, call, owner, sent, nsock, up, svcvars>>

----------------------------------------------------------------------------
(***************************************************************************)
(* The stack: what pico_socket_bind, _listen and _connect do to a socket.  *)
(***************************************************************************)

\* The port must not be in use; nothing else is refused.  A socket that is
\* bound again stays in the table under its first port too.
PicoBind(s, p) ==
  IF \E q \in Socks : p \in pico[q].ports
    THEN pico
    ELSE [pico EXCEPT ![s] = [st    |-> IF @.st = "open" THEN "bound" ELSE @.st,
                              ports |-> @.ports \cup {p}]]

\* The socket must be bound.
PicoListen(s) ==
  IF pico[s].st = "open" THEN pico ELSE [pico EXCEPT ![s].st = "listen"]

\* Sends a SYN if there is a route, which depends on the addresses and on the
\* peer.  A port the stack chooses itself is none of Ports.
PicoConnect(s) == {pico, [pico EXCEPT ![s].st = "syn"]}

----------------------------------------------------------------------------
(***************************************************************************)
(* The tap service: Phy::poll and its handlers, in one thread.             *)
(***************************************************************************)

\* The service thread assigns an address to the tap, or takes the last one
\* away: addIp, removeIp.  The first addIp sets picotap; nothing unsets it.
AddIp ==
  /\ tap \in {"off", "bare"}
  /\ tap' = "up"
  /\ UNCHANGED <<appvars, up, down, nacc, phys, ready, jobmap, tmpbuf, conns, pico, tx, done>>

RemoveIp ==
  /\ tap = "up"
  /\ tap' = "bare"
  /\ UNCHANGED <<appvars, up, down, nacc, phys, ready, jobmap, tmpbuf, conns, pico, tx, done>>

\* select() reports the readable sockets.  0 is the listening socket.
Listening == IF nacc < nsock THEN {0} ELSE {}
MutantNoEof == {s \in phys : up[s] # <<>>} \cup Listening
MutantSpuriousAccept == {s \in phys : up[s] # <<>> \/ ~copen[s]} \cup {0}
Readable == {s \in phys : up[s] # <<>> \/ ~copen[s]} \cup Listening

Select ==
  /\ ready = {}
  /\ Readable # {}
  /\ ready' = Readable
  /\ UNCHANGED <<appvars, up, down, nacc, phys, jobmap, tmpbuf, conns, pico, tap, tx, done>>

\* poll walks its list from the oldest socket to the newest.
MutantNewestFirst(s) == s \in ready /\ \A r \in ready : s >= r
IsNext(s) == s \in ready /\ \A r \in ready : s <= r

\* One connection is accepted per round and put at the end of the list.
Accept ==
  /\ IsNext(0)
  /\ nacc' = nacc + 1
  /\ phys' = phys \cup {nacc + 1}
  /\ ready' = ready \ {0}
  /\ UNCHANGED <<appvars, up, down, jobmap, tmpbuf, conns, pico, tap, tx, done>>

\* read() returns 0: the socket leaves the list.  phyOnUnixClose does nothing.
Eof(s) ==
  /\ IsNext(s)
  /\ up[s] = <<>>
  /\ phys' = phys \ {s}
  /\ ready' = ready \ {s}
  /\ UNCHANGED <<appvars, up, down, nacc, jobmap, tmpbuf, conns, pico, tap, tx, done>>

\* What one read() takes from the socket, and what it leaves.  Where the
\* buffer of Phy is full in the middle of a canary, one piece is read and one
\* stays; the second piece holds the padding if the cut is in the token or
\* behind it.
Chunk(s) == SubSeq(up[s], 1, IF Len(up[s]) < ReadMax THEN Len(up[s]) ELSE ReadMax)
Rest(s) == SubSeq(up[s], Len(Chunk(s)) + 1, Len(up[s]))
Cuts(s) ==
  {[got |-> Append(Chunk(s), Piece("data")), left |-> [Rest(s) EXCEPT ![1] = Piece(k)]] :
     k \in {j \in {"data", "pad"} : Rest(s) # <<>> /\ Rest(s)[1].k = "canary"}}
Reads(s) == {[got |-> Chunk(s), left |-> Rest(s)]} \cup Cuts(s)
IsRpc(b) == Len(b) = 1 /\ b[1].k = "rpc"

\* phyOnUnixData, RPC_SOCKET before the first addIp: pico_handleSocket uses
\* picotap, which is NULL, and the service is gone.
Crash(s) ==
  /\ IsNext(s)
  /\ up[s] # <<>>
  /\ IsRpc(Chunk(s))
  /\ call[Chunk(s)[1].n].cmd = "SOCKET"
  /\ tap = "off"
  /\ tap' = "dead"
  /\ UNCHANGED <<appvars, up, down, nacc, phys, ready, jobmap, tmpbuf, conns, pico, tx, done>>

\* phyOnUnixData, an RPC, which is always read whole: RPC_SOCKET is executed
\* at once, any other RPC is copied to the stack and registered.  Both are
\* acknowledged.
OnRpc(s) ==
  /\ IsNext(s)
  /\ up[s] # <<>>
  /\ IsRpc(Chunk(s))
  /\ call[Chunk(s)[1].n].cmd = "SOCKET" => tap # "off"
  /\ LET c == Chunk(s)[1].n IN
       IF call[c].cmd = "SOCKET"
         THEN /\ \/ /\ conns' = conns \cup {s}
                    /\ pico' = [pico EXCEPT ![s] = [st |-> "open", ports |-> {}]]
                 \/ /\ "pico_socket_open" \in Faults
                    /\ UNCHANGED <<conns, pico>>
              /\ UNCHANGED <<jobmap, tmpbuf>>
         ELSE /\ tmpbuf' = c
              /\ jobmap' = [jobmap EXCEPT ![c] = s]
              /\ UNCHANGED <<conns, pico>>
  /\ up' = [up EXCEPT ![s] = Rest(s)]
  /\ down' = [down EXCEPT ![s] = Append(@, "z")]
  /\ ready' = ready \ {s}
  /\ UNCHANGED <<appvars, nacc, phys, tap, tx, done>>

\* The padding is not in what was read, or it is first found in item i.
NoPadding(b) == \A i \in 1 .. Len(b) : b[i].k \notin {"canary", "pad"}
FirstPadding(b, i) ==
  b[i].k \in {"canary", "pad"} /\ \A j \in 1 .. i - 1 : b[j].k \notin {"canary", "pad"}

\* What is appended to txbuf.  Without padding all is copied, and a canary
\* alone adds nothing.  When data and a canary are there the lengths and the
\* offsets are wrong, in each of the three arrangements: what is added is not
\* what was written.
Appended(b) ==
  IF NoPadding(b) THEN [i \in 1 .. Len(b) |-> b[i].n]
  ELSE IF Len(b) = 1 THEN <<>>
  ELSE <<0>>

\* The return value handleBind, handleListen and handleConnect write.  The
\* driver compares the stack's result, which is -1, with positive error
\* codes, so that only a missing address is reported.
MutantNoReply(cmd) == IF cmd = "BIND" THEN <<"ok">> ELSE <<>>
Returned(cmd) ==
  CASE cmd = "BIND" -> IF tap = "up" THEN <<"ok">> ELSE <<"err">>
    [] cmd \in {"LISTEN", "CONNECT"} -> <<"ok">>
    \* write(fd, NULL, n), or write(fd, <overwritten pointer>, n): EFAULT
    [] OTHER -> <<>>

\* What the stack may have done after it.
Executed(s, r) ==
  CASE r.cmd = "BIND" /\ tap = "up" -> {PicoBind(s, r.arg)}
    [] r.cmd = "LISTEN" -> {PicoListen(s)}
    [] r.cmd = "CONNECT" -> PicoConnect(s)
    [] OTHER -> {pico}

\* What txbuf may have held in the end, q being what was appended to it.
\* handleConnect copies a sockaddr_storage to the place of the pointer
\* peer_addr and so over the start of txbuf: the first block that is still
\* there is lost.  None has left it before the socket is connected.
Overwritten(s, q) ==
  LET first == IF pico[s].st = "syn" THEN 1 .. Len(q) + 1 ELSE {1}
  IN  {[i \in 1 .. Len(q) |-> IF i = k THEN 0 ELSE q[i]] : k \in first}
Kept(s, q) ==
  IF tmpbuf # 0 /\ call[tmpbuf].cmd = "CONNECT" THEN Overwritten(s, q) ELSE {q}

\* closeConnection(rpcSock): nothing unless a Connection has that socket.
CloseConnection(rs) ==
  /\ conns' = conns \ {rs}
  /\ phys' = IF rs \in conns THEN phys \ {rs} ELSE phys

\* The socket the return value of canary c's job goes to.
MutantReplyOnStream(s, c) == s
ReplySock(s, c) == jobmap[c]

\* The job is removed once it is done.
MutantClearJobs(c) == [n \in Socks |-> 0]
Erased(c) == [jobmap EXCEPT ![c] = 0]

\* The job of canary c is executed on data socket s.  The RPC is read from
\* the stack slot, which holds the one that was copied there last.
RunJob(s, c) ==
  LET r == call[tmpbuf] IN
  IF tmpbuf = 0
    THEN UNCHANGED <<down, jobmap, conns, phys, pico, done>>
    ELSE /\ pico' \in Executed(s, r)
         /\ down' = [down EXCEPT ![ReplySock(s, c)] = @ \o Returned(r.cmd)]
         /\ IF r.cmd = "CONNECT" THEN UNCHANGED <<conns, phys>>
                                 ELSE CloseConnection(jobmap[c])
         /\ jobmap' = Erased(c)
         /\ done' = [done EXCEPT ![c] = r.cmd]

\* phyOnUnixData, the stream: data goes to txbuf.
OnData(s) ==
  /\ IsNext(s)
  /\ up[s] # <<>>
  /\ \E r \in Reads(s) :
       /\ ~IsRpc(r.got)
       /\ NoPadding(r.got)
       /\ tx' = IF s \in conns THEN [tx EXCEPT ![s] = @ \o Appended(r.got)] ELSE tx
       /\ up' = [up EXCEPT ![s] = r.left]
  /\ ready' = ready \ {s}
  /\ UNCHANGED <<appvars, down, nacc, phys, jobmap, tmpbuf, conns, pico, tap, done>>

\* phyOnUnixData, the stream: the token in front of the padding is looked up.
\* Without a job or without a Connection everything that was read is dropped.
OnCanary(s) ==
  /\ IsNext(s)
  /\ up[s] # <<>>
  /\ \E r \in Reads(s) : \E i \in 1 .. Len(r.got) :
       /\ FirstPadding(r.got, i)
       /\ r.got[i].k = "canary"
       /\ IF jobmap[r.got[i].n] = 0 \/ s \notin conns
            THEN UNCHANGED <<tx, down, jobmap, conns, phys, pico, done>>
            ELSE /\ \E q \in Kept(s, tx[s] \o Appended(r.got)) : tx' = [tx EXCEPT ![s] = q]
                 /\ RunJob(s, r.got[i].n)
       /\ up' = [up EXCEPT ![s] = r.left]
  /\ ready' = ready \ {s}
  /\ UNCHANGED <<appvars, nacc, tmpbuf, tap>>

\* phyOnUnixData, the stream: the padding is not that of a whole canary.  The
\* bytes in front of it are no token of a job, and everything that was read
\* is dropped; or there are not eight of them, or they are 0, and txsz grows
\* by bytes that were not copied.  A second piece of a canary is such a case.
OnPadding(s) ==
  /\ IsNext(s)
  /\ up[s] # <<>>
  /\ \E r \in Reads(s) : \E i \in 1 .. Len(r.got) :
       /\ FirstPadding(r.got, i)
       /\ r.got[i].k = "pad"
       /\ \/ /\ r.got[i].n # 0 \/ s \notin conns
             /\ tx' = tx
          \/ /\ s \in conns
             /\ tx' = [tx EXCEPT ![s] = Append(@, 0)]
       /\ up' = [up EXCEPT ![s] = r.left]
  /\ ready' = ready \ {s}
  /\ UNCHANGED <<appvars, down, nacc, phys, jobmap, tmpbuf, conns, pico, tap, done>>

\* Another handler called from poll overwrites the stack slot.
ReuseStack ==
  /\ Clobber
  /\ tmpbuf # 0
  /\ tmpbuf' = 0
  /\ UNCHANGED <<appvars, up, down, nacc, phys, ready, jobmap, conns, pico, tap, tx, done>>

----------------------------------------------------------------------------
Client(t) ==
  \/ Lock(t) \/ Join(t) \/ TokenFails(t) \/ SendRpc(t) \/ ReadAck(t)
  \/ SendCanary(t) \/ GetRetval(t) \/ ReadAddr(t)

Serve(s) == Eof(s) \/ Crash(s) \/ OnRpc(s) \/ OnData(s) \/ OnCanary(s) \/ OnPadding(s)

\* What the application does once the service has crashed is left out.
Alive == tap # "dead"

Next ==
  /\ Alive
  /\ \/ \E t \in Threads : Begin(t) \/ WriteData(t) \/ Client(t)
     \/ AddIp \/ RemoveIp \/ Select \/ Accept \/ ReuseStack
     \/ \E s \in Socks : Serve(s)

(***************************************************************************)
(* The application need not call and the address need not come.  A thread  *)
(* inside a call goes on, and the tap thread polls for ever.               *)
(***************************************************************************)
Fairness ==
  /\ \A t \in Threads : WF_vars(Alive /\ Client(t))
  /\ WF_vars(Alive /\ Select) /\ WF_vars(Alive /\ Accept)
  /\ \A s \in Socks : WF_vars(Alive /\ Serve(s))

Spec == Init /\ [][Next]_vars
FairSpec == Spec /\ Fairness

----------------------------------------------------------------------------
(***************************************************************************)
(* Properties.                                                             *)
(***************************************************************************)

\* Every variable has its type.
TypeOK ==
  /\ lock \in [Procs -> Threads \cup {None}]
  /\ pc \in [Threads -> {"idle", "lock", "join", "token", "ack", "canary", "retval", "addr"}]
  /\ want \in [Threads -> Call]
  /\ cur \in [Threads -> 0 .. MaxSocks]
  /\ call \in [Socks -> Call]
  /\ owner \in [Socks -> Threads \cup {None}]
  /\ result \in [Socks -> Reply \cup {"none"}]
  /\ sent \in [Socks -> 0 .. MaxData]
  /\ copen \in [Socks -> BOOLEAN]
  /\ nsock \in 0 .. MaxSocks
  /\ up \in [Socks -> Seq(Item)]
  /\ down \in [Socks -> Seq(Reply)]
  /\ nacc \in 0 .. MaxSocks
  /\ phys \subseteq Socks
  /\ ready \subseteq 0 .. MaxSocks
  /\ jobmap \in [Socks -> 0 .. MaxSocks]
  /\ tmpbuf \in 0 .. MaxSocks
  /\ conns \subseteq Socks
  /\ pico \in [Socks -> [st : {"none", "open", "bound", "listen", "syn"},
                         ports : SUBSET (Ports \cup {NoPort})]]
  /\ tap \in {"off", "up", "bare", "dead"}
  /\ tx \in [Socks -> Seq(0 .. MaxData)]
  /\ done \in [Socks -> AllCmds \cup {"none"}]

\* A canary never overtakes its RPC: whenever one is in a data stream, the
\* job it names is in the jobmap, with the socket the call waits on.  The
\* lookup in phyOnUnixData then never drops a call (tap.cpp:416).
JobFound ==
  \A s \in Socks : \A i \in 1 .. Len(up[s]) :
    up[s][i].k = "canary" => jobmap[up[s][i].n] = up[s][i].n

\* Call c has a job that can still be executed: its canary is still to be
\* written, or it is in a stream.
InStream(c) ==
  \E s \in Socks : \E i \in 1 .. Len(up[s]) : up[s][i].k = "canary" /\ up[s][i].n = c
OpenJob(c) ==
  /\ jobmap[c] # 0
  /\ \/ \E t \in Threads : pc[t] \in {"ack", "canary"} /\ cur[t] = c
     \/ InStream(c)

\* At most one job of a process is open, although getsockname and getpeername
\* release the mutex of rpc_send_command before theirs is done: poll reads
\* the older data socket before it reads a newer RPC.  A job whose canary was
\* cut or shadowed by other padding stays in the jobmap, but it is not open.
OneOpenJob ==
  \A c, d \in Socks :
    /\ OpenJob(c) /\ owner[c] \in Threads
    /\ OpenJob(d) /\ owner[d] \in Threads
    /\ ProcOf[owner[c]] = ProcOf[owner[d]]
    => c = d

\* The command executed for a canary is the one its RPC asked for, although
\* jobmap refers to a stack slot that the next RPC overwrites (tap.cpp:393).
RightCommand == \A c \in Socks : done[c] \in {"none", call[c].cmd}

\* No return value is ever written into a data stream, where the
\* application would take it for data.
NoReplyInStream == \A s \in conns : down[s] \in {<<>>, <<"z">>}

\* What phyOnUnixData appends to txbuf is a prefix of what the application
\* wrote to the socket, in order and with nothing missing.
StreamIntact == \A s \in Socks : \A i \in 1 .. Len(tx[s]) : tx[s][i] = i

\* Every call returns: no thread stays in rpc_send_command for ever, unless
\* RPC_SOCKET crashes the service because the tap never had an address.
CallReturns == \A t \in Threads : pc[t] = "lock" ~> pc[t] = "idle" \/ ~Alive

\* The service lets go of every RPC socket its caller has closed.
SocketReclaimed == \A s \in Socks : s \in phys /\ ~copen[s] ~> s \notin phys

============================================================================
