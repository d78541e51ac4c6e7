# A verification of the ZeroTier SDK

TLA+ models of the ZeroTier SDK's own code (`src/src`), model-checked with TLC
and, where the argument does not depend on bounds, proved with TLAPS.

## 1. The system

The SDK lets an application use sockets on a ZeroTier network without a kernel
interface.  Its parts, from the application down:

| part | source | state it keeps | operations |
|---|---|---|---|
| intercept library | `intercept.c` | original libc functions | one wrapper per socket call |
| socket API | `sockets.c` | path of the RPC socket | `zts_socket`, `zts_connect`, `zts_bind`, `zts_listen`, `zts_accept`, `zts_getsockname`, ... |
| RPC client | `rpc.c`, `rpc.h` | one mutex per process | `rpc_join`, `rpc_send_command`, `get_retval`, descriptor passing |
| tap service | `tap.cpp`, `tap.hpp` | `_Connections`, `jobmap`, `_ips`, `txbuf`/`rxbuf` of each Connection | `phyOnUnixData` and the handlers, `addIp`, `put`, `closeConnection`, `scanMulticastGroups` |
| event loop | `zto/osdep/Phy.hpp` | list of sockets, descriptor sets | `poll`, `close`, `streamSend`, notify flags |
| picoTCP driver | `stack_drivers/picotcp` | frame buffer, `picotap`, `picodev` | `pico_rx`, `pico_eth_poll`, the callbacks, `pico_handle*` |
| lwIP driver | `stack_drivers/lwip` | pcbs | `nc_*` callbacks, `lwip_handle*` |
| SOCKS5 proxy | `proxy.cpp` | proxied connections | handshake, copy, close |
| service | `service.cpp` | the ZeroTier node | join, leave, start, restart |

Three threads meet in the service.  The *tap thread* runs `pico_loop` and
`Phy::poll` and calls every handler.  The *ZeroTier service thread* delivers
frames (`put`, `pico_rx`) and assigns addresses (`addIp`).  The *application's*
threads, in the same or in other processes, talk to the tap thread over Unix
sockets.

A call of the API works like this.  `rpc_send_command` takes the process mutex,
connects an ephemeral Unix socket, writes one 512-byte RPC with a random token
(the *canary*) and waits for the byte `z`.  It then writes the canary, followed
by a padding pattern, into the *data socket* the call is about.  The service
keeps the RPC in `jobmap` under the canary; when it finds the canary in the
data stream it executes the RPC and writes the return value to the ephemeral
socket.  In this way the RPC takes effect at its place in the stream.
`RPC_SOCKET` is executed at once, and its ephemeral socket becomes the data
socket.

What is hard to get right: two sockets per call whose messages are not ordered
with respect to each other; data and control in one stream; a job that is
registered in one callback and run in another; one map for all processes; a
mutex that some calls release early; error paths; and a frame buffer shared by
two threads; flow control between threads without a common mutex; closing from
either side with data under way.  The hazards are listed with their lines in `PROJECT.json`.

## 2. Modules

| module | models |
|---|---|
| `Rpc` | client and service sides of the RPC channel |
| `RpcInv` | its inductive invariant, and that every step preserves it |
| `RpcSteps` | what a step does; the mutex, the sockets and what the streams carry |
| `RpcOrder` | what is read before what, and what follows from it for jobs and streams |
| `RpcProofs` | the theorems |
| `MCRpc` | instances for TLC: two threads of one process, or two processes |
| `FrameBuf` | `pico_rx` and `pico_eth_poll` on the shared array |
| `FrameQueue` | what the frame buffer promises: a bounded queue that is emptied when a frame does not fit |
| `FrameBufProofs` | layout, bounds and refinement, proved |
| `MCFrameBuf` | instances for TLC |
| `PicoConn` | one TCP connection of the picoTCP driver, both directions, both ways of closing |
| `PicoConnProofs`, `MCPicoConn` | its proofs and its instance |
| `LwipTx` | how the lwIP driver sends: two threads and the flow control between them |
| `LwipTxProofs`, `MCLwipTx` | its proofs and its instance |
| `Multicast` | from a network configuration to the node's multicast subscriptions |
| `MulticastProofs`, `MCMulticast` | its proofs and its instance |
| `Pipe` | what a stream promises in one direction; `PicoConn` and `LwipTx` implement it |
| `Bytes` | buffers as sequences of numbered bytes |

### Rpc

Sockets are numbered in the order in which they connect.  The number of a
socket is also the number of the call that connected it and stands for its
canary.  `up[s]` and `down[s]` are the two directions of Unix socket `s`; an
item of `up` is an RPC, a canary with its padding, a block of data, a block of
data that contains the bytes of the padding (`pad`), or a piece of a canary.

Application actions, one per blocking point of `rpc_send_command`: `Begin`,
`Lock`, `Join`, `SendRpc` or `TokenFails`, `ReadAck`, `SendCanary`, `GetRetval`
or `ReadAddr`; and `WriteData`.  Service actions: `Select` (the result of
`select()`), then, from the oldest socket to the newest as `poll` walks its
list, `Accept`, `Eof`, `OnRpc` (or `Crash`), `OnData`, `OnCanary`, `OnPadding`;
`AddIp` and `RemoveIp` of the service thread.

Decisions worth knowing:

* `jobmap` maps a canary to the socket of its call and to a pointer to
  `tmpbuf`, an array on the stack of `phyOnUnixData`.  The pointer is used after
  that call has returned, which is undefined.  The frame of `phyOnUnixData` is
  always at the same depth, so the slot either holds the RPC that was copied
  there last, or it has been overwritten by another handler (`ReuseStack`,
  when `Clobber` is TRUE).
* The handlers for getsockname and getpeername call `write` with a NULL buffer
  or with a stale pointer; both fail and send nothing (`Returned`).
* When a canary and data are in one read, none of the three copies in
  `phyOnUnixData` puts the right bytes at the right place.  The model appends
  one block 0, which is never written by an application (`Appended`).
* `phyOnUnixData` looks for the first padding in what one read returned.  A read
  can end inside a canary (`Cuts`), and data can contain the padding (`Padded`).
  What is found then is no token of a job: all that was read is dropped, or
  `txsz` grows by bytes that were not copied (`OnPadding`).  A canary that is
  lost in this way, or that stands behind the first padding, leaves its job in
  `jobmap` and its caller waiting.
* A block of data is divided where reads divide it; one whose padding is cut is
  two blocks of data.  Data of exactly 512 bytes that begins with the phrase of
  an RPC, and data that holds the token of a live job in front of padding, are
  assumed not to occur.
* `picotap` is NULL until the first `addIp`.  An `RPC_SOCKET` before it crashes
  the service (`Crash`, `tap = "dead"`), and the model ends there.  `removeIp`
  takes the address away but leaves `picotap` (`tap = "bare"`).
* `pico_handleConnect` copies a `sockaddr_storage` to the place of the pointer
  `peer_addr` and so over the start of `txbuf`, which follows it in `Connection`
  (`Overwritten`, `Kept`).  With `Early` a socket may be connected when data has
  been written to it, and the copy then spoils it.
* A port is identified by its number.  Ports the stack chooses by itself are
  taken to be different from those the application names.
* Canaries are 64 random bits; they are assumed to be distinct and not 0.
* Data sockets are not closed.
* The buffer of a Unix socket holds `SockBuf` blocks; whoever writes to a full
  one waits.  `Phy::poll` reads at most `ReadMax` of them at a time (131072
  bytes, `Phy.hpp:851`).  The runs have `SockBuf <= 2 * ReadMax`, as it is with
  the default buffer of Linux, 212992 bytes.  The SDK itself leaves the size
  alone (the `setsockopt` calls at `picotcp.cpp:467-483` are in a comment), but
  `setsockopt` of `intercept.c:242` passes an application's `SO_SNDBUF` on to the
  Unix socket.  What depends on the size is said in section 4.
* An RPC is written by one `write` of 512 bytes and is read alone, because its
  socket carries nothing else until the ACK has been read.

### FrameBuf

The array is modelled cell by cell.  A cell stands for a few bytes: the first
of a frame holds the frame's length, the others its number.  Two history
variables record which frames are in the buffer and where; the code's own
state is the array and `pico_frame_rxbuf_tot`.  `stop` says why the driver
stopped, after which nothing happens: `buffer` when a copy leaves
`pico_frame_rxbuf` or `exit` is called, `frame` when a copy leaves the local array
`frame` of `pico_eth_poll`, which has `SDK_MTU` bytes, and `null` when `pico_rx`
has to make room before the first address has set `picotap` (`RxNoTap`).  Frames
may be longer than `SDK_MTU`; nothing on the way to `pico_rx` in the SDK limits
them.  The new tap's array is not initialised (`Garbage`).
`pico_rx` holds the buffer's mutex throughout and is one action; `pico_eth_poll`
hands frames to the stack one by one while it holds it.

### PicoConn

`rx` and `tx` hold the bytes of each direction at every place where they can
be: sent by the peer, in `rxbuf`, in the Unix socket, read by the application,
and the reverse with `txbuf` and the stack's own queue.  The tap thread is at
one of three places: in `select` (`Poll`), between the handlers of what it found
(`Writable`, which is `pico_handleRead`, comes before `Readable`, which is
`phyOnUnixData` and `pico_handleWrite`), or inside `pico_stack_tick`, where the
stack calls `pico_cb_socket_activity` (`TcpRead`, `Established`, `TcpWrite`,
`EvClose`).  The application reads, writes and closes at any time.

Decisions worth knowing:

* `svc` says how the thread stopped, if it did: `spin` when
  `pico_cb_tcp_read` finds no room at all, `overrun` when a buffer is exceeded,
  `deadlock` when `phyOnUnixClose` waits for the mutex of its own caller,
  `crash` when a freed PhySocket or a missing Connection is used.  The use of a
  freed PhySocket may also have no effect, so both are possible (`Dangling`).
* `deadlock` needs `send` to return EPIPE.  The daemon ignores SIGPIPE
  (`zto/one.cpp:1219`); in a program that does not, the signal ends it.
* `memcpy` between overlapping areas is undefined.  It copies upwards or
  downwards (`Memcpy`); downwards, `rxbuf` is `Smeared`, and `torn` remembers it.
* The socket of an accepted connection is one end of a blocking socket pair; the
  thread then waits in `send` (`Unblock`).  The service sends the other end to the
  application and keeps its own copy open, so that its end is never hung up
  (`HungUp`): when the application closes, no end of file is read and a blocked
  `send` does not return (`Stuck`).  A socket made by `zts_socket` was made
  non-blocking by Phy, and its other end is the application's alone.
* `pico_socket_write` takes a chunk whole or not at all.  This is a
  simplification: the stack may take a part of it, and the code then keeps the
  rest, as it does here with a smaller chunk.
* `RxIntact` speaks of the bytes until `memcpy` spoils some, and admits the one
  byte that `sock_fd_write` puts into the stream of an outgoing connection
  (`Greeting`).  Neither is claimed to be right.
* Canaries are left out: `Rpc` models them.  Datagrams are left out.

### LwipTx

Each action is one access to what the threads share: `snd_buf`, `txsz`,
`probation` and the set `_readfds`.  The tap thread reads the socket in
`Phy::poll` (`Poll`) or in the connection check (`ConnectionCheck`), or comes from
the TCP timer (`Timer`), and goes through `lwip_handleWrite` (`ReadSndbuf`, then
`StopReading` and `StartProbation`, or `TcpWrite` and `Shift`).  The service
thread delivers acknowledgements (`Ack`) and runs `nc_sent`, which locks
`_tcpconns_m`; `lwip_handleWrite` does not.  Its two tests and what follows each
are steps of their own (`TestProbation`, `EndProbation`, `TestRoom`, `Resume`), so
that the tap thread can change what was tested.  The calls into
lwIP are taken to be atomic, and the connection is open throughout.

### Multicast

`SyncManagedStuff` applies a set of assigned addresses (`removeIp` and `addIp`),
`Leave` deletes the tap and the network.  The scan is split into the steps of its
searches: `StartScan` derives, sorts and applies `std::unique`, `Probe` is one
turn of `std::lower_bound`, `Looked` the decision after it, `EndScan` the swap
and the calls that subscribe and unsubscribe.  Everything is under `_nets_m`, so
configurations come between scans.  A group is its rank in the order of
MulticastGroup; several addresses have one group when only their netmask differs
(IPv4) or when their last 24 bits agree (IPv6).  `std::unique` leaves the tail of
the vector as it was, as it does in libstdc++ for elements that are copied.

## 3. Runs

| run | bounds | shows |
|---|---|---|
| `rpc_threads` | 1 process, 2 threads sharing sockets, 4 calls (socket, bind, getsockname), 1 block, with or without padding, 1 per read, buffers of 2, symmetry of the threads | `OneOpenJob`, `RightCommand` |
| `rpc_processes` | 2 processes, 4 calls of every kind, all faults, overwritten stack slot | `JobFound`, `NoReplyInStream` |
| `rpc_live` | 2 threads with sockets of their own, 3 calls, 3 blocks without padding, connected before written to, 2 per read, buffers of 3, no faults, fair | `StreamIntact`, `CallReturns`, `SocketReclaimed` |
| `pico_conn` | buffers of 5 and 3, sockets of 2, 5 bytes each way, segments up to 3, MTU 2, fair | `RxIntact`, `RxNotified`, `StopsExplained`, `TxIsPipe`, `RxArrives`, `TxArrives` |
| `lwip_tx` | `snd_buf` 2, `txbuf` 4, socket 3, 8 bytes, the check reads 1, fair | `UnreadHasCause`, `TxIsPipe`, `TxArrives` |
| `multicast` | 5 addresses in 3 groups, 2 configurations, fair | `SearchExact`, `SubscribedExact`, `Follows` |
| `frame_buf` | 8 cells, frames of 2, 3, 5 and 7, `SDK_MTU` 4, 5 frames, fair | `Layout`, `InBounds`, `IsQueue`, `FrameLeaves` |

Four calls are enough for two data sockets and one call on each, or for one
socket and three calls on it: every pair of calls of two threads overlaps in
every way.  In `rpc_live` a read takes two blocks, so that data is left in the
socket in front of a canary.  In `rpc_threads` a data socket is full with a
block and a canary, or with two canaries, and then takes two reads; a third item
waits.  The canary behind the block may be cut.  Of the commands with a return value one is enough there, because the
order in which things are read does not depend on it.  With eight cells
the frame buffer takes four of the smallest frames and not two of the larger;
it is filled, overflows and is filled again.  A frame of five cells fills the
array `frame` and one of seven does not fit into it.

In `pico_conn` five bytes fill `rxbuf` exactly or by one too many, whichever way
they are split; two chunks do not fit into `txbuf`; a send is partial because the
socket holds two.  All ways of stopping are reached.  In `lwip_tx` the eight bytes
go through a control block that takes two, so that reading is turned off and on
again several times, and every order of the accesses of the two threads occurs.
Five addresses with three in one group are the smallest case in which
`std::unique` leaves the vector unsorted; two configurations are enough to
remove a group, to keep one that another address needs, and to search with
either vector unsorted.

`RightCommand` holds for one process for a reason that is easy to lose.
getsockname and getpeername release the mutex when the canary is written, so a
second RPC can be on its way before the first job is executed.  Its socket is
accepted in one round of `poll` and read in a later one.  The older data socket
is read in both, and in the second it comes first in the list.  Data that one
read does not take may stand in front of the canary; two reads reach it.  Both
halves are needed: serving the newest socket first is the mutant of these
properties, and `rpc_threads` therefore has data and reads of one block.

`CHECK_DEADLOCK FALSE` in the `Rpc` runs: a finite number of calls is made,
after which everybody waits, a call may hang where the code lets it, and the
service may crash.

`SearchExact` holds although `std::binary_search` is given a vector that is not
sorted.  The part that `std::unique` compacted is sorted and holds every value;
what follows it is a tail of the vector as it was when sorted.  When a probe in
the tail sees something less than the value looked for, that value is itself
further back in the tail, so the search that goes there still finds it.

`UnreadHasCause` and `TxArrives` of `lwip_tx` hold thanks to two pieces of code
that look dispensable: `nc_sent` can run between `tcp_write` and the update of
`txsz` and then leaves the connection on probation, and the connection check,
which reads the socket regardless, is what gets it going again (leaving it
out is the mutant of `TxArrives`); when the control block is full it is the
makeshift poll of the timer that writes the rest.

Fairness.  A thread inside a call goes on; the operating system schedules it.
The tap thread polls for ever: `threadMain` loops on `_phy.poll` and on the
stack's tick.  Applications need not call, frames need not arrive and the
address need not come.  No fairness of the mutex is assumed: the number of calls
is finite, so weak fairness of each thread is enough.

In `PicoConn` the loop goes on, and the application reads what is in its socket;
the peer acknowledges what it gets, which the stack notices inside a tick, hence
strong fairness of `Acknowledged` and `Established`.  `RxArrives` and `TxArrives`
end when a side closes or the loop has stopped.  In `LwipTx` the three reasons to
call `lwip_handleWrite` come up again and again between its calls (`lwip_loop`
tests them by the clock), hence strong fairness of each.  In `Multicast` only the
scan, which the service repeats on a timer, is fair.
`CHECK_DEADLOCK FALSE`: these systems are at rest when everything has been sent
or applied, and `PicoConn` and `FrameBuf` may stop.

### Where the code does not do what it says

Each of these is a run whose property states the documented behaviour and that
TLC refutes; the quotations are in `PROJECT.json`.

| run | what happens |
|---|---|
| `rpc_wrong_command` | with two processes, the RPC executed for a canary can be the other process's |
| `rpc_shared_stream` | a call on a socket that another thread writes to spoils its data |
| `rpc_mutex_leak` | after one failed call the process can make no other |
| `pico_fin` | what is in `rxbuf` when the peer closes never reaches the application |
| `frame_ipv4` | on an IPv4 network a full frame buffer is overrun |

Two more follow from a single statement and need no run: `pico_handleBind`
reports success for a port that is in use (`picotcp.cpp:623`), and the handlers of
getsockname and getpeername answer with a write of a NULL buffer, which sends
nothing (`tap.cpp:522`).  The ways in which `PicoConn` stops are not documented
behaviour either way; `StopsExplained` says when they happen.

## 4. Proofs

### The RPC channel

`RpcProofs` has the theorems; the modules before it build them up in layers, each
of which uses the ones below and not the ones above.  The only assumption is
`ConstantsAssumption` of `Rpc`; every other condition is a hypothesis of the
theorem that needs it.

**A canary finds its job.**  `TypeOK`, `JobFound` and `NoReplyInStream` hold for
any number of processes, threads, calls, ports and blocks, with any of the
faults.  `JobFound` is not inductive.  The invariant `IInv` (`RpcInv`) adds

* `InCall`: what a thread has done at each point of `rpc_send_command`; in
  particular the job is in the map from the moment the ACK can be read,
* `RpcItems`: an RPC is alone on its socket and its caller waits for the ACK,
* `Canaries`: a canary in a stream belongs to a call that is registered and
  whose thread is past writing it,
* `Unique`: it is in one place only, so reading it cannot remove the job of
  another that is still on its way,
* `Conns`: a Connection belongs to a socket made by `RPC_SOCKET`, hence never
  to the socket of a job,
* `Fresh` and `Pending`: sockets that are not connected have no past, and
  `accept` is only called when a connection waits.

**What was written before a call is read before its RPC** (`ReadInOrder`), if
two reads empty a socket (`TwoReads`: `SockBuf <= 2 * ReadMax`), whatever the
number of processes, the sharing and the faults.  This is the argument given
above for `RightCommand`, made precise.  `Base` (`RpcSteps`) says who holds the mutex (`Mutex`), that the
sockets in Phy's list are the first ones that connected and stay there while
they are open (`Listed`, `Opened`), that the service has done nothing for the
others (`Unheard`), and how far an RPC has got (`Acked`).  `Items` says which call
a canary in a stream belongs to: it still waits for its return value, and it
names that stream.  On top of these `Order` (`RpcOrder`) is inductive.  For every
item that is `Ahead` of a call (a canary of its process; or anything on a socket
that only its thread uses) it says that the item is gone when the RPC has been
read, and, before, that `Place` holds, which follows the item through the rounds of
`poll`:

* the item's socket is the older one;
* when `select` has reported the listening socket and the call's is the next to be
  accepted, the item's socket is reported too, and it comes first;
* when the call's socket has been accepted, one read of the item's socket is
  enough, or that read is due in this round and the call's is not: this is
  where two reads have to empty a buffer;
* when `select` has reported the call's socket, it has reported the item's, and
  that comes first.

`OneCanary` follows: the canaries of a process that are in streams are one.

`TwoReads` is a hypothesis of the next three theorems too, and the code does not
ensure it: it is true of the default buffers and false of what the constant
`UNIX_SOCK_BUF_SIZE` (1 MiB) in the commented-out calls would give, or of an
application that asks for more than 262144 bytes and gets them.  It cannot be
dropped.  With `rpc_threads` changed to three blocks and buffers of three, read
one at a time, TLC violates `OneOpenJob` and `RightCommand`: while
`getsockname` waits for its ACK another thread writes two blocks to the same
socket, the canary comes behind them, the mutex is released, and the RPC of the
other thread is read while the canary still has a read to wait for.  With
`rpc_live` changed to five blocks and buffers of five it violates `StreamIntact`: the fifth block is still there when the canary is written, and
what `phyOnUnixData` takes over for it is not what was sent.

**The right command** (`CommandIsRight`): `RightCommand` holds if there is one
process, with any number of threads, any sharing, any data and any faults.  The
invariant `Slot` (`SlotIsKept`) adds that the stack slot holds the RPC of the canary
that is in a stream, and of the call that is about to write one, unless it was
overwritten.  When the next RPC is copied to the slot, `Order` says that the canary
before it is gone.  The condition is necessary (`rpc_wrong_command`).

**One open job** (`JobsAreSingle`): `OneOpenJob` holds for any number of processes,
with any sharing, any data and any faults.  A job is open when its canary is still
to be written or is in a stream.  A job that is not open can be in `jobmap` for
ever, because its canary was lost or read without a Connection; nothing executes
it any more.  Of two open jobs of a process one belongs to the thread that holds
the mutex, or both have their canaries in streams.  `OneCanary` excludes the
second case and `Order` the first, once it is known that a call has no job before
its RPC was read (`Unasked`).

**Streams** (`StreamsAreIntact`): `StreamIntact` holds if there is one process, its
threads do not share sockets, the data contains no padding and a socket is
connected before it is written to, with any number of threads and any faults.  The
invariant `Streams` adds that a stream holds the blocks that follow those in
`txbuf`, or a canary alone.  A thread writes data only when it is in no call, so
nothing comes behind a canary; and by `Order` nothing is left in front of it when
it is written, because its thread has read the ACK of a later RPC.  For the same
reason no read cuts it.  `Connects` says that nothing was written to a socket on
which a CONNECT is under way, and `Slot` that the command executed for another
canary is not a CONNECT, so the copy over `txbuf` finds it empty.

None of the conditions can be dropped.  With threads that share sockets this is
`rpc_shared_stream`.  With `rpc_live` changed to `Padded`, to `Early`, or to two
processes and four sockets, TLC violates `StreamIntact` as well; in the last case
the CONNECT of one process is executed on the other's socket.

The invariants of these layers were also checked with TLC, on instances of two
threads or two processes and up to four sockets.  The proof is spread over four
modules because the prover slows down with the number of obligations in a module.

### The other components

`FrameBufProofs` shows `TypeOK`, `Layout`, `InBounds` and the refinement
`IsQueue` for every capacity, every set of frame lengths and any number of
frames, under `OnlyIPv6Frames`, which is necessary (`frame_ipv4`).  Frames longer
than `SDK_MTU` are allowed: `InBounds` says that only they leave the array `frame`
and that nothing leaves the buffer.  The invariant adds
`Ordered` to `Layout`: the frames lie in order below the total and the total
within the array, which is what the move of the array in `pico_eth_poll` needs.

`PicoConnProofs` shows `TypeOK`, `RxIntact`, `RxNotified`, `StopsExplained` and the
refinement `TxIsPipe` for all sizes of the buffers, the sockets, the segments and
the stack's queue, with `memcpy` in either direction (`PicoConnAssumption`: sizes
are positive and the stack takes at least one chunk).  None is inductive.  `IInv`
adds

* `Control`: how the flags go together, for instance that the Connection exists
  until the peer closes, that a blocked send has sent something, and that a socket found writable still has room when its handler runs (only the
  application touches it in between, and it makes room),
* `TxInv`: the bytes of the sending direction, from the peer back to the
  application, are one stream, or `txbuf` was deleted,
* `RxInv`: the types of the receiving direction, `RxIntact`, and a count of the
  bytes that holds even after `memcpy` has spoilt their values, which
  `StopsExplained` needs; while a send is blocked, the count also says how many
  bytes the application has left unread.

`LwipTxProofs` shows `TypeOK`, `UnreadHasCause` and `TxIsPipe` for all sizes with
`snd_buf` smaller than `txbuf`.  The invariant says where each byte is at each of
the tap thread's places: after `tcp_write` and before `Shift` the first bytes of
`txbuf` are the last that were given to lwIP, some of which may already be
acknowledged; and that the local copy of `snd_buf` is at most the real one.

`MulticastProofs` shows `TypeOK`, `SearchExact` and `SubscribedExact` for any finite
set of addresses, any groups and any number of configurations.  The invariant says
of both vectors that they are a compacted part followed by a tail of the sorted
vector (`Tidy`), of a search that the element before the range that is left is
less than the value and the one behind it is not (`Bracketed`), and of the two
loops what they have collected.
The central lemma is that a search on such a vector finds exactly its elements.

### Only model-checked

The liveness properties `CallReturns`, `SocketReclaimed`, `FrameLeaves`, `RxArrives`,
`TxArrives` (twice) and `Follows`: the prover has no support for fairness and
ENABLED.  Every safety property that a run checks, and every refinement, is
also a theorem; for `RightCommand`, `OneOpenJob`, `StreamIntact` and
those of `FrameBuf` under the conditions named above, which the runs meet.

## 5. Not modelled

* Datagrams: `pico_cb_udp_read` and the SOCK_DGRAM branch of `pico_handleRead`.
* The rest of the lwIP driver: receiving, accepting, errors and closing.  Frames
  enter lwIP without the lock of the stack (`lwip.cpp:213`, `218`) while the tap
  thread is in it, so what can happen is decided inside lwIP.
* The receiving end of descriptor passing (`get_new_fd`, `sock_fd_read`), several
  connections at once in `PicoConn`, and the reuse of a freed PhySocket for
  another socket.
* A second tap in `FrameBuf` (the global `picotap`), and a full UDP buffer.
* What applications see once the service has died, and the limit of sockets of Phy.
* The SOCKS5 proxy: a handshake of three states in the tap thread, then the path
  of `PicoConn`.
* `service.cpp`: calls into the core and the file system.
* The intercept library and the language wrappers, which choose a function or
  convert arguments, and the jip driver, which is a skeleton.
* The ZeroTier core (`zto`, except for the event loop and the handling of
  addresses and subscriptions) and the network stacks (`ext`).  They are programs
  of their own, many times the size of the SDK, used through a narrow interface;
  of the repository as a whole the models therefore cover a small part, of the
  data and control paths of `src/src` most.
