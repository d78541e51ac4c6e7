------------------------------ MODULE PicoConn ------------------------------
(***************************************************************************)
(* One TCP connection of the picoTCP driver, from the application's socket *)
(* to the network stack and back:                                          *)
(*                                                                         *)
(*   application -> Unix socket -> txbuf -> stack -> peer                  *)
(*   application <- Unix socket <- rxbuf <- stack <- peer                  *)
(*                                                                         *)
(* The thread of pico_loop runs Phy::poll and pico_stack_tick in turn.     *)
(* Phy::poll takes one snapshot of what is ready and then calls the        *)
(* writable handler before the readable one; the callbacks of the stack    *)
(* run inside the tick.  The application and the peer run at any time.     *)
(*                                                                         *)
(* The application's socket is either the one that zts_socket opened,      *)
(* which Phy made non-blocking, or one end of the blocking socket pair     *)
(* that the driver creates for an accepted connection.  Of the latter the  *)
(* service keeps both ends open, so that conn->sock never sees that the    *)
(* application has closed.                                                 *)
(*                                                                         *)
(* Bytes are numbered in each direction; byte 0 is not the peer's.         *)
(***************************************************************************)
EXTENDS Bytes

CONSTANTS
  MTU,       \* SDK_MTU: the most that one call of the stack moves
  RxCap,     \* DEFAULT_TCP_RX_BUF_SZ
  TxCap,     \* DEFAULT_TCP_TX_BUF_SZ
  SockCap,   \* what a Unix socket holds in one direction
  OutCap,    \* what the stack holds of unacknowledged bytes
  Memcpy,    \* directions in which memcpy of the C library may copy
  MaxSeg,    \* bound: bytes that become readable in one event
  MaxRx,     \* bound: bytes the peer sends
  MaxTx      \* bound: bytes the application writes

ASSUME PicoConnAssumption ==
  /\ MTU \in Nat \ {0}
  /\ RxCap \in Nat \ {0}
  /\ TxCap \in Nat \ {0}
  /\ SockCap \in Nat \ {0}
  /\ OutCap \in Nat /\ OutCap >= MTU
  /\ Memcpy \subseteq {"forward", "backward"} /\ Memcpy # {}
  /\ MaxSeg \in Nat
  /\ MaxRx \in Nat
  /\ MaxTx \in Nat

VARIABLES
  kind,     \* "connected" by the application, or "accepted" from a peer
  tcp,      \* the stack's socket: "synSent", "est" or "closeWait"
  pc,       \* where the loop is: "poll", "handle" or "tick"
  ready,    \* what is left of the snapshot that select took
  svc,      \* "run", "blocked" in send, or the way in which the loop stopped
  conn,     \* the Connection is in _Connections
  phy,      \* conn->sock is in Phy's list of sockets
  notify,   \* the socket is in _writefds
  appOpen,  \* the application's end is open
  rx,       \* [peer, buf, sock, app]: bytes sent by the peer, rxbuf, bytes in
            \* the Unix socket, bytes read by the application
  tx,       \* [app, sock, buf, out, peer]: the other direction
  sending,  \* bytes of rxbuf that the blocked send has passed on
  torn      \* history: a copy of overlapping memory went wrong

vars == <<kind, tcp, pc, ready, svc, conn, phy, notify, appOpen, rx, tx,
          sending, torn>>

Init ==
  /\ kind \in {"connected", "accepted"}
  /\ tcp = IF kind = "connected" THEN "synSent" ELSE "est"
  /\ pc = "poll"
  /\ ready = {}
  /\ svc = "run"
  /\ conn = TRUE
  /\ phy = TRUE
  /\ notify = FALSE
  /\ appOpen = TRUE
  /\ rx = [peer |-> 0, buf |-> <<>>, sock |-> <<>>, app |-> <<>>]
  /\ tx = [app |-> 0, sock |-> <<>>, buf |-> <<>>, out |-> <<>>,
           peer |-> <<>>]
  /\ sending = 0
  /\ torn = FALSE

-----------------------------------------------------------------------------
(* Phy::poll                                                               *)

\* The other end of conn->sock is closed: never for an accepted connection,
\* of which pico_cb_socket_activity leaves fds[1] open.
HungUp == kind = "connected" /\ ~appOpen

\* select: the end of the application's side makes the socket both readable
\* and writable.
MutantNoWriteSet ==
  /\ svc = "run" /\ pc = "poll"
  /\ ready' = {e \in {"r"} : phy /\ (tx.sock # <<>> \/ HungUp)}
  /\ pc' = IF ready' = {} THEN "tick" ELSE "handle"
  /\ UNCHANGED <<kind, tcp, svc, conn, phy, notify, appOpen, rx, tx, sending,
                 torn>>
Poll ==
  /\ svc = "run" /\ pc = "poll"
  /\ ready' = {e \in {"r", "w"} :
                 /\ phy
                 /\ e = "r" => tx.sock # <<>> \/ HungUp
                 /\ e = "w" => notify /\ (Len(rx.sock) < SockCap \/ HungUp)}
  /\ pc' = IF ready' = {} THEN "tick" ELSE "handle"
  /\ UNCHANGED <<kind, tcp, svc, conn, phy, notify, appOpen, rx, tx, sending,
                 torn>>

\* The loop is done with event e.
Handled(e) ==
  /\ ready' = ready \ {e}
  /\ pc' = IF ready' = {} THEN "tick" ELSE "handle"

\* memcpy of what is left in rxbuf, once n bytes have been sent, to its
\* start.  When the two overlap, copying from the end first overwrites what
\* is still to be copied.
Overlap(n) == n < Len(rx.buf) - n
Smeared(n) ==
  LET len == Len(rx.buf)
  IN  [i \in 1 .. len - n |-> rx.buf[i + n * ((len - i) \div n)]]

\* The end of pico_handleRead, once streamSend has returned n > 0: sock is
\* then in the Unix socket.
MutantNoRenotify(n, sock) ==
  /\ rx' = [rx EXCEPT !.buf = Drop(rx.buf, n), !.sock = sock]
  /\ notify' = FALSE
  /\ UNCHANGED torn
MutantResend(n, sock) ==
  /\ rx' = [rx EXCEPT !.buf = Drop(rx.buf, n - 1), !.sock = sock]
  /\ notify' = (Len(rx.buf) > n - 1)
  /\ UNCHANGED torn
FinishRead(n, sock) ==
  /\ \/ /\ Overlap(n) => "forward" \in Memcpy
        /\ rx' = [rx EXCEPT !.buf = Drop(rx.buf, n), !.sock = sock]
        /\ UNCHANGED torn
     \/ /\ Overlap(n) /\ "backward" \in Memcpy
        /\ rx' = [rx EXCEPT !.buf = Smeared(n), !.sock = sock]
        /\ torn' = TRUE
  /\ notify' = (Len(rx.buf) > n)

\* phyOnUnixWritable and pico_handleRead.  When the application has closed
\* its end, streamSend closes the socket and calls phyOnUnixClose, which
\* waits for the mutex that pico_handleRead holds.
Writable ==
  /\ svc = "run" /\ pc = "handle" /\ "w" \in ready
  /\ UNCHANGED <<kind, tcp, conn, phy, appOpen, tx>>
  /\ LET n == Lesser(Len(rx.buf), SockCap - Len(rx.sock))
         sock == rx.sock \o Take(rx.buf, n)
     IN  \/ /\ rx.buf = <<>>
            /\ Handled("w")
            /\ UNCHANGED <<svc, notify, rx, sending, torn>>
         \/ /\ rx.buf # <<>> /\ HungUp
            /\ svc' = "deadlock"
            /\ UNCHANGED <<pc, ready, notify, rx, sending, torn>>
         \/ /\ rx.buf # <<>> /\ ~HungUp
            /\ kind = "connected" \/ n = Len(rx.buf)
            /\ FinishRead(n, sock)
            /\ Handled("w")
            /\ UNCHANGED <<svc, sending>>
         \/ /\ rx.buf # <<>> /\ ~HungUp
            /\ kind = "accepted" /\ n < Len(rx.buf)
            /\ svc' = "blocked"
            /\ sending' = n
            /\ rx' = [rx EXCEPT !.sock = sock]
            /\ UNCHANGED <<pc, ready, notify, torn>>

\* The blocking send goes on as the application reads.  It does not return
\* when the application closes: the service holds the other end as well.
Unblock ==
  /\ svc = "blocked"
  /\ UNCHANGED <<kind, tcp, conn, phy, appOpen, tx>>
  /\ LET n == Lesser(Len(rx.buf) - sending, SockCap - Len(rx.sock))
         sock == rx.sock \o Take(Drop(rx.buf, sending), n)
     IN  \/ /\ n > 0 /\ sending + n < Len(rx.buf)
            /\ sending' = sending + n
            /\ rx' = [rx EXCEPT !.sock = sock]
            /\ UNCHANGED <<svc, pc, ready, notify, torn>>
         \/ /\ sending + n = Len(rx.buf)
            /\ FinishRead(Len(rx.buf), sock)
            /\ Handled("w")
            /\ svc' = "run"
            /\ sending' = 0

\* pico_socket_write: the stack takes a chunk whole or not at all.
Chunk(buf) == Lesser(Len(buf), MTU)
Written(t) ==
  IF Len(t.out) + Chunk(t.buf) <= OutCap
    THEN [t EXCEPT !.out = t.out \o Take(t.buf, Chunk(t.buf)),
                   !.buf = Drop(t.buf, Chunk(t.buf))]
    ELSE t

\* phyOnUnixData appends what it read to txbuf, without looking at the room,
\* and calls pico_handleWrite.
MutantOverwrite ==
  LET t == [tx EXCEPT !.sock = <<>>, !.buf = tx.sock]
  IN  /\ tx' = Written(t)
      /\ UNCHANGED svc
MutantOneTooMany ==
  LET t == [tx EXCEPT !.sock = <<>>, !.buf = tx.buf \o tx.sock]
  IN  \/ Len(t.buf) <= TxCap + 1 /\ tx' = Written(t) /\ UNCHANGED svc
      \/ Len(t.buf) > TxCap + 1 /\ svc' = "overrun" /\ UNCHANGED tx
UnixData ==
  LET t == [tx EXCEPT !.sock = <<>>, !.buf = tx.buf \o tx.sock]
  IN  \/ /\ Len(t.buf) <= TxCap
         /\ tx' = Written(t)
         /\ UNCHANGED svc
      \/ /\ Len(t.buf) > TxCap
         /\ svc' = "overrun"
         /\ UNCHANGED tx

\* The second half of a turn of Phy::poll.  At the end of the stream Phy
\* closes the socket; phyOnUnixClose leaves the Connection where it is.
Readable ==
  /\ svc = "run" /\ pc = "handle" /\ ready = {"r"}
  /\ Handled("r")
  /\ UNCHANGED <<kind, tcp, conn, appOpen, rx, sending, torn>>
  /\ \/ /\ tx.sock # <<>>
        /\ UnixData
        /\ UNCHANGED <<phy, notify>>
     \/ /\ tx.sock = <<>> /\ HungUp
        /\ phy' = FALSE
        /\ notify' = FALSE
        /\ UNCHANGED <<svc, tx>>

-----------------------------------------------------------------------------
(* pico_stack_tick and the callback of the socket                          *)

InTick == svc = "run" /\ pc = "tick"

\* conn->sock is used after Phy has freed it.
Dangling == IF phy THEN {"run"} ELSE {"run", "crash"}

\* EV_RD and pico_cb_tcp_read: k bytes are read, MTU at a time.  The loop
\* only leaves when a read returns nothing, and a read is not limited by the
\* room that is left.
FillAfter(j, k) == Len(rx.buf) + Lesser(j * MTU, k)
MutantFullEarly(k) == {j \in 1 .. k : FillAfter(j, k) >= RxCap - MTU}
FullAfter(k) == {j \in 1 .. k : FillAfter(j, k) >= RxCap}
TcpRead(k) ==
  /\ InTick /\ tcp = "est"
  /\ rx.peer + k <= MaxRx
  /\ UNCHANGED <<kind, tcp, pc, ready, conn, phy, appOpen, tx, sending, torn>>
  /\ \/ /\ FullAfter(k) = {}
        /\ rx' = [rx EXCEPT !.peer = rx.peer + k,
                            !.buf = rx.buf \o Numbers(rx.peer, rx.peer + k)]
        /\ notify' = phy
        /\ svc' \in Dangling
     \/ \E j \in FullAfter(k) :
        /\ \A i \in FullAfter(k) : j <= i
        /\ rx' = [rx EXCEPT !.peer = rx.peer + k]
        /\ notify' = phy
        /\ svc' = IF FillAfter(j, k) = RxCap THEN "spin" ELSE "overrun"

\* EV_CONN for a connection that the application opened.  Nothing is there
\* to accept, and the driver still makes a socket pair and sends one end of
\* it, with one byte, through the application's socket.  EV_WR follows.
Established ==
  /\ InTick /\ tcp = "synSent"
  /\ tcp' = "est"
  /\ rx' = IF phy /\ appOpen THEN [rx EXCEPT !.sock = Append(rx.sock, 0)] ELSE rx
  /\ tx' = Written(tx)
  /\ svc' \in Dangling
  /\ UNCHANGED <<kind, pc, ready, conn, phy, notify, appOpen, sending, torn>>

\* The peer acknowledges k bytes: EV_WR and pico_cb_tcp_write, which uses
\* the Connection even if there is none.
MutantNoDrain(k) ==
  /\ InTick /\ tcp # "synSent"
  /\ tx' = [tx EXCEPT !.peer = tx.peer \o Take(tx.out, k), !.out = Drop(tx.out, k)]
  /\ svc' = IF conn THEN "run" ELSE "crash"
  /\ UNCHANGED <<kind, tcp, pc, ready, conn, phy, notify, appOpen, rx, sending,
                 torn>>
TcpWrite(k) ==
  /\ InTick /\ tcp # "synSent"
  /\ LET t == [tx EXCEPT !.peer = tx.peer \o Take(tx.out, k),
                         !.out = Drop(tx.out, k)]
     IN  tx' = IF conn THEN Written(t) ELSE t
  /\ svc' = IF conn THEN "run" ELSE "crash"
  /\ UNCHANGED <<kind, tcp, pc, ready, conn, phy, notify, appOpen, rx, sending,
                 torn>>

\* The peer's FIN, once everything before it has been read: EV_CLOSE, which
\* closes the stack's socket and deletes the Connection with its buffers.
EvClose ==
  /\ InTick /\ tcp = "est"
  /\ tcp' = "closeWait"
  /\ conn' = FALSE
  /\ phy' = FALSE
  /\ notify' = FALSE
  /\ rx' = [rx EXCEPT !.buf = <<>>]
  /\ tx' = [tx EXCEPT !.buf = <<>>]
  /\ svc' \in Dangling
  /\ UNCHANGED <<kind, pc, ready, appOpen, sending, torn>>

TickDone ==
  /\ InTick
  /\ pc' = "poll"
  /\ UNCHANGED <<kind, tcp, ready, svc, conn, phy, notify, appOpen, rx, tx,
                 sending, torn>>

-----------------------------------------------------------------------------
(* The application                                                         *)

AppRead(k) ==
  /\ appOpen
  /\ rx' = [rx EXCEPT !.app = rx.app \o Take(rx.sock, k), !.sock = Drop(rx.sock, k)]
  /\ UNCHANGED <<kind, tcp, pc, ready, svc, conn, phy, notify, appOpen, tx,
                 sending, torn>>

AppWrite(k) ==
  /\ appOpen /\ phy
  /\ tx.app + k <= MaxTx
  /\ Len(tx.sock) + k <= SockCap
  /\ tx' = [tx EXCEPT !.app = tx.app + k,
                      !.sock = tx.sock \o Numbers(tx.app, tx.app + k)]
  /\ UNCHANGED <<kind, tcp, pc, ready, svc, conn, phy, notify, appOpen, rx,
                 sending, torn>>

\* The end of a socket pair that the service still holds keeps its bytes.
AppClose ==
  /\ appOpen
  /\ appOpen' = FALSE
  /\ rx' = IF kind = "connected" THEN [rx EXCEPT !.sock = <<>>] ELSE rx
  /\ UNCHANGED <<kind, tcp, pc, ready, svc, conn, phy, notify, tx, sending, torn>>

-----------------------------------------------------------------------------

Acknowledged == \E k \in 1 .. Len(tx.out) : TcpWrite(k)
Reads == \E k \in 1 .. Len(rx.sock) : AppRead(k)

Next ==
  \/ Poll \/ Writable \/ Unblock \/ Readable \/ TickDone
  \/ \E k \in 1 .. MaxSeg : TcpRead(k)
  \/ Established \/ Acknowledged \/ EvClose
  \/ Reads
  \/ \E k \in 1 .. SockCap : AppWrite(k)
  \/ AppClose

Spec == Init /\ [][Next]_vars

\* The loop never waits except in select, which has a timeout, and in a
\* blocking send.  The application keeps reading.  The peer answers: what it
\* acknowledges infinitely often can be processed only inside a tick, hence
\* strong fairness.  Nobody has to send, write or close.
Fairness ==
  /\ WF_vars(Poll) /\ WF_vars(Writable) /\ WF_vars(Unblock)
  /\ WF_vars(Readable) /\ WF_vars(TickDone)
  /\ WF_vars(Reads)
  /\ SF_vars(Established) /\ SF_vars(Acknowledged)

FairSpec == Spec /\ Fairness

-----------------------------------------------------------------------------
(* Properties                                                              *)

\* The loop runs or waits in send.
Alive == svc \in {"run", "blocked"}

\* It waits in a send that will never return: nobody reads any more.
Stuck == svc = "blocked" /\ ~appOpen /\ Len(rx.sock) = SockCap

\* The variables have their types, and the buffers of the Connection, of
\* the Unix socket and of the stack stay within their sizes: phyOnUnixData
\* and pico_cb_tcp_read stop the model, not the bounds, when one is full.
TypeOK ==
  /\ kind \in {"connected", "accepted"}
  /\ tcp \in {"synSent", "est", "closeWait"}
  /\ pc \in {"poll", "handle", "tick"}
  /\ ready \subseteq {"r", "w"}
  /\ svc \in {"run", "blocked", "spin", "overrun", "deadlock", "crash"}
  /\ conn \in BOOLEAN /\ phy \in BOOLEAN /\ notify \in BOOLEAN
  /\ appOpen \in BOOLEAN /\ torn \in BOOLEAN
  /\ rx \in [peer : Nat, buf : Seq(Nat), sock : Seq(Nat), app : Seq(Nat)]
  /\ tx \in [app : Nat, sock : Seq(Nat), buf : Seq(Nat), out : Seq(Nat),
             peer : Seq(Nat)]
  /\ Len(rx.buf) < RxCap /\ Len(rx.sock) <= SockCap
  /\ Len(tx.buf) <= TxCap /\ Len(tx.sock) <= SockCap /\ Len(tx.out) <= OutCap
  /\ sending \in 0 .. Len(rx.buf)

\* What the application ought to have read when everything has arrived: the
\* bytes of the peer, after the byte that came with the socket pair.
Greeting == IF kind = "connected" /\ tcp # "synSent" THEN <<0>> ELSE <<>>

\* pico_cb_tcp_read, pico_handleRead and streamSend lose, repeat and reorder
\* nothing: while the connection is up, what the application has read, what
\* is in its socket and what is still in rxbuf is the peer's stream, until
\* memcpy tears an overlapping copy.
RxIntact ==
  (Alive /\ conn /\ phy /\ appOpen /\ ~torn) =>
    rx.app \o rx.sock \o Drop(rx.buf, sending) = Greeting \o Numbers(0, rx.peer)

TxPipe == INSTANCE Pipe WITH put <- Numbers(0, tx.app), got <- tx.peer

\* phyOnUnixData, pico_handleWrite and pico_cb_tcp_write hand the stack the
\* application's bytes as a stream socket should.
TxIsPipe == TxPipe!Spec

\* No wakeup is lost: while rxbuf holds something that the loop can still
\* pass on, the socket is in _writefds.
RxNotified == (Alive /\ conn /\ phy /\ rx.buf # <<>>) => notify

\* The loop stops only for these reasons.  It locks itself out when the
\* application closed a socket it had opened with bytes of the peer under
\* way.  It uses memory that is gone when one side has closed.  It runs in
\* circles or out of a buffer when that one was full.  And it sleeps in send,
\* for good if the application closed, when it handed an accepted connection
\* more bytes than the application had read and the socket holds.
StopsExplained ==
  /\ svc = "deadlock" => HungUp /\ rx.buf # <<>>
  /\ svc = "crash" => ~conn \/ HungUp
  /\ svc \in {"spin", "overrun"} =>
       \/ rx.peer + Len(Greeting) - Len(rx.app) - Len(rx.sock) >= RxCap
       \/ tx.app - Len(tx.peer) - Len(tx.out) > TxCap
  /\ svc = "blocked" => kind = "accepted"
  /\ Stuck => rx.peer - Len(rx.app) > SockCap

\* One side has closed, or the loop has stopped.
Over == ~Alive \/ ~appOpen \/ tcp = "closeWait"

\* Through pico_cb_tcp_read and pico_handleRead everything that the peer
\* sends arrives at an application that keeps reading, unless it is over.
RxArrives ==
  \A n \in 1 .. MaxRx :
    rx.peer >= n ~> (Len(rx.app) >= n + Len(Greeting) \/ Over)

\* Through phyOnUnixData, pico_handleWrite and pico_cb_tcp_write everything
\* that the application writes arrives at the peer, unless it is over.
TxArrives ==
  \A n \in 1 .. MaxTx : tx.app >= n ~> (Len(tx.peer) >= n \/ Over)

-----------------------------------------------------------------------------
(* What the documentation says and the code does not do                    *)

\* docs/technical.md: after some time pico_handleRead copies the data from
\* rxbuf to the application's socket.  What the peer sent before it closed
\* is then in that socket, or has been read from it.
HandleReadEmpties ==
  (Alive /\ tcp = "closeWait" /\ appOpen /\ ~torn) =>
    rx.app \o rx.sock = Greeting \o Numbers(0, rx.peer)

=============================================================================
