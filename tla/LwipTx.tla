------------------------------- MODULE LwipTx -------------------------------
(***************************************************************************)
(* How the lwIP driver sends: from the application's Unix socket through   *)
(* txbuf to the protocol control block of lwIP, with its flow control.     *)
(*                                                                         *)
(* Two threads take part and hold no common mutex.  The tap thread runs    *)
(* lwip_loop: it reads the socket, in Phy::poll when the socket is in      *)
(* _readfds and in the periodic connection check even when it is not, and  *)
(* calls lwip_handleWrite for what it read and, as a makeshift poll, from  *)
(* the TCP timer.  The ZeroTier service thread runs lwip_rx and, inside    *)
(* it, nc_sent for every acknowledgement.  Each step below is one test of  *)
(* or one change to what they share: snd_buf, txsz, probation, _readfds.   *)
(*                                                                         *)
(* The connection is established and the application keeps its end open.   *)
(***************************************************************************)
EXTENDS Bytes

CONSTANTS
  SndCap,    \* TCP_SND_BUF: snd_buf of an idle control block
  TxCap,     \* DEFAULT_TCP_TX_BUF_SZ
  SockCap,   \* what the Unix socket holds
  CheckMax,  \* BUF_SZ: the most that the connection check reads
  MaxTx      \* bound: bytes the application writes

ASSUME LwipTxAssumption ==
  /\ SndCap \in Nat \ {0}
  /\ TxCap \in Nat /\ SndCap < TxCap
  /\ SockCap \in Nat \ {0}
  /\ CheckMax \in Nat \ {0}
  /\ MaxTx \in Nat

VARIABLES
  written,    \* bytes written by the application
  sock,       \* bytes in the Unix socket
  txbuf,      \* the first txsz bytes of txbuf
  out,        \* bytes that lwIP holds until they are acknowledged
  peer,       \* bytes acknowledged by the peer
  readable,   \* the socket is in _readfds
  probation,  \* Connection.probation
  loop,       \* where the tap thread is
  sndbuf,     \* its local copy of snd_buf
  core,       \* where the service thread is
  overrun     \* something was written past the end of txbuf

vars == <<written, sock, txbuf, out, peer, readable, probation, loop, sndbuf,
          core, overrun>>

Init ==
  /\ written = 0
  /\ sock = <<>> /\ txbuf = <<>> /\ out = <<>> /\ peer = <<>>
  /\ readable = TRUE
  /\ probation = FALSE
  /\ loop = "idle"
  /\ sndbuf = 0
  /\ core = "idle"
  /\ overrun = FALSE

AppWrite(k) ==
  /\ written + k <= MaxTx
  /\ Len(sock) + k <= SockCap
  /\ written' = written + k
  /\ sock' = sock \o Numbers(written, written + k)
  /\ UNCHANGED <<txbuf, out, peer, readable, probation, loop, sndbuf, core,
                 overrun>>

-----------------------------------------------------------------------------
(* The tap thread                                                          *)

\* phyOnUnixData with n bytes of the socket, as far as its call of
\* lwip_handleWrite.
UnixData(n) ==
  /\ ~overrun /\ loop = "idle"
  /\ sock # <<>>
  /\ sock' = Drop(sock, n)
  /\ txbuf' = txbuf \o Take(sock, n)
  /\ overrun' = (Len(txbuf) + n > TxCap)
  /\ loop' = "write"
  /\ UNCHANGED <<written, out, peer, readable, probation, sndbuf, core>>

Poll == readable /\ UnixData(Len(sock))

MutantCheckOnlyReadable == readable /\ UnixData(Lesser(Len(sock), CheckMax))
ConnectionCheck == UnixData(Lesser(Len(sock), CheckMax))

\* The makeshift poll of the TCP timer.
Timer ==
  /\ ~overrun /\ loop = "idle"
  /\ txbuf # <<>>
  /\ loop' = "write"
  /\ UNCHANGED <<written, sock, txbuf, out, peer, readable, probation, sndbuf,
                 core, overrun>>

\* lwip_handleWrite looks at snd_buf once and returns on an empty txbuf.
ReadSndbuf ==
  /\ ~overrun /\ loop = "write"
  /\ sndbuf' = SndCap - Len(out)
  /\ loop' = IF sndbuf' > 0 THEN "tcpWrite" ELSE IF probation THEN "idle" ELSE "off"
  /\ UNCHANGED <<written, sock, txbuf, out, peer, readable, probation, core,
                 overrun>>

\* The control block was full: no more reading until nc_sent.
StopReading ==
  /\ loop = "off"
  /\ readable' = FALSE
  /\ loop' = "probation"
  /\ UNCHANGED <<written, sock, txbuf, out, peer, probation, sndbuf, core,
                 overrun>>

StartProbation ==
  /\ loop = "probation"
  /\ probation' = TRUE
  /\ loop' = "idle"
  /\ UNCHANGED <<written, sock, txbuf, out, peer, readable, sndbuf, core,
                 overrun>>

\* tcp_write takes the bytes, or fails because lwIP is short of segments
\* while others are under way.
MutantRoomForAll == Len(txbuf)
Room == Lesser(Len(txbuf), sndbuf)
TcpWrite ==
  /\ loop = "tcpWrite"
  /\ \/ /\ out' = out \o Take(txbuf, Room)
        /\ loop' = "shift"
     \/ /\ out # <<>>
        /\ loop' = "idle"
        /\ UNCHANGED out
  /\ UNCHANGED <<written, sock, txbuf, peer, readable, probation, sndbuf, core,
                 overrun>>

\* The bytes leave txbuf only after lwIP has sent them.
MutantShiftOne ==
  /\ loop = "shift"
  /\ txbuf' = Drop(txbuf, 1)
  /\ loop' = "idle"
  /\ UNCHANGED <<written, sock, out, peer, readable, probation, sndbuf, core,
                 overrun>>
Shift ==
  /\ loop = "shift"
  /\ txbuf' = Drop(txbuf, Room)
  /\ loop' = "idle"
  /\ UNCHANGED <<written, sock, out, peer, readable, probation, sndbuf, core,
                 overrun>>

-----------------------------------------------------------------------------
(* The service thread                                                      *)

\* An acknowledgement arrives in lwip_rx.
Ack(k) ==
  /\ core = "idle"
  /\ peer' = peer \o Take(out, k)
  /\ out' = Drop(out, k)
  /\ core' = "sent"
  /\ UNCHANGED <<written, sock, txbuf, readable, probation, loop, sndbuf,
                 overrun>>

\* nc_sent: is this the end of probation?
TestProbation ==
  /\ core = "sent"
  /\ core' = IF probation /\ txbuf = <<>> THEN "end" ELSE "test"
  /\ UNCHANGED <<written, sock, txbuf, out, peer, readable, probation, loop,
                 sndbuf, overrun>>

EndProbation ==
  /\ core = "end"
  /\ probation' = FALSE
  /\ core' = "test"
  /\ UNCHANGED <<written, sock, txbuf, out, peer, readable, loop, sndbuf,
                 overrun>>

\* nc_sent: does reading go on?
TestRoom ==
  /\ core = "test"
  /\ core' = IF ~probation /\ Len(txbuf) < TxCap THEN "resume" ELSE "idle"
  /\ UNCHANGED <<written, sock, txbuf, out, peer, readable, probation, loop,
                 sndbuf, overrun>>

MutantNeverResume ==
  /\ core = "resume"
  /\ core' = "idle"
  /\ UNCHANGED <<written, sock, txbuf, out, peer, readable, probation, loop,
                 sndbuf, overrun>>
Resume ==
  /\ core = "resume"
  /\ readable' = TRUE
  /\ core' = "idle"
  /\ UNCHANGED <<written, sock, txbuf, out, peer, probation, loop, sndbuf,
                 overrun>>

-----------------------------------------------------------------------------

HandleWrite == ReadSndbuf \/ StopReading \/ StartProbation \/ TcpWrite \/ Shift
Sent == TestProbation \/ EndProbation \/ TestRoom \/ Resume
Acknowledged == \E k \in 1 .. Len(out) : Ack(k)

Next ==
  \/ \E k \in 1 .. SockCap : AppWrite(k)
  \/ Poll \/ ConnectionCheck \/ Timer
  \/ HandleWrite
  \/ Acknowledged \/ Sent

Spec == Init /\ [][Next]_vars

\* lwip_loop takes its turns for ever: each turn that is due comes, between
\* two calls of lwip_handleWrite, hence strong fairness.  The peer
\* acknowledges what it is sent.
Fairness ==
  /\ SF_vars(Poll) /\ SF_vars(ConnectionCheck) /\ SF_vars(Timer)
  /\ WF_vars(HandleWrite)
  /\ WF_vars(Acknowledged) /\ WF_vars(Sent)

FairSpec == Spec /\ Fairness

-----------------------------------------------------------------------------
(* Properties                                                              *)

\* The variables have their types, lwip_handleWrite never gives lwIP more
\* than snd_buf, and txbuf is exceeded only where overrun says so.
TypeOK ==
  /\ written \in 0 .. MaxTx
  /\ sock \in Seq(Nat) /\ Len(sock) <= SockCap
  /\ txbuf \in Seq(Nat) /\ (Len(txbuf) <= TxCap \/ overrun)
  /\ out \in Seq(Nat) /\ Len(out) <= SndCap
  /\ peer \in Seq(Nat)
  /\ readable \in BOOLEAN /\ probation \in BOOLEAN /\ overrun \in BOOLEAN
  /\ loop \in {"idle", "write", "off", "probation", "tcpWrite", "shift"}
  /\ sndbuf \in 0 .. SndCap
  /\ core \in {"idle", "sent", "end", "test", "resume"}

TxPipe == INSTANCE Pipe WITH put <- Numbers(0, written), got <- peer

\* Through both ways of reading the socket and both callers of
\* lwip_handleWrite, lwIP gets the application's bytes as a stream.
TxIsPipe == TxPipe!Spec

\* A socket that is neither read nor on probation still has bytes under way,
\* and nc_sent takes up reading again when they are acknowledged: no order of
\* the accesses of lwip_handleWrite and nc_sent leaves it off for good.
UnreadHasCause ==
  \/ readable \/ probation
  \/ loop = "probation" \/ core # "idle"
  \/ txbuf # <<>> \/ out # <<>>

\* Every byte that the application writes reaches the peer: a connection
\* does not stay on probation for ever, although nc_sent can miss the moment
\* at which txbuf is empty.
TxArrives == \A n \in 1 .. MaxTx : written >= n ~> (Len(peer) >= n \/ overrun)

=============================================================================
