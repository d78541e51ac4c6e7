------------------------------ MODULE FrameBuf ------------------------------
(***************************************************************************)
(* The frame buffer of the picoTCP driver: pico_rx, which the ZeroTier     *)
(* service thread calls for every frame that arrives on the virtual wire,  *)
(* and pico_eth_poll, which the stack calls from the tap thread.           *)
(*                                                                         *)
(* The buffer is one array.  A frame is stored as its total length,        *)
(* followed by the Ethernet header and the payload; pico_eth_poll takes    *)
(* the frame at offset 0 and moves the rest of the array down.  A cell of  *)
(* the array stands for a few bytes: the first cell of a frame holds its   *)
(* length, the others the number of the frame.                             *)
(*                                                                         *)
(* One tap is modelled: picotap is NULL until addIp is called, and then    *)
(* that tap.  Where the code leaves an array or uses a null pointer the    *)
(* model stops, and stop says why.                                         *)
(***************************************************************************)
EXTENDS Integers, Sequences

CONSTANTS
  Capacity,    \* MAX_PICO_FRAME_RX_BUF_SZ
  Meta,        \* what pico_rx adds to a payload: the length and the header
  Payloads,    \* payload lengths
  EtherTypes,  \* the kinds of frame on the network
  FrameMax,    \* SDK_MTU: the size of the array frame in pico_eth_poll
  Garbage,     \* what the memory of a new tap holds
  LoopScore,   \* the most frames the stack asks for in one call
  MaxFrames    \* bound: frames that arrive

IPv6 == "ipv6"

ASSUME FrameBufAssumption ==
  /\ Capacity \in Nat \ {0}
  /\ Meta \in Nat \ {0, 1}
  /\ Payloads \subseteq Nat
  /\ EtherTypes \subseteq {"ipv4", "arp", IPv6}
  /\ FrameMax \in Nat
  /\ Garbage \in Int
  /\ LoopScore \in Nat \ {0}
  /\ MaxFrames \in Nat

\* A single frame fits in the empty buffer.
ASSUME OneFrameFits == \A len \in Payloads : len + Meta <= Capacity

VARIABLES
  mem,      \* pico_frame_rxbuf
  tot,      \* pico_frame_rxbuf_tot
  score,    \* loop_score while pico_eth_poll holds the mutex, else -1
  devup,    \* addIp has set picotap and called pico_device_init
  out,      \* what was passed to pico_stack_recv
  stop,     \* why the driver stopped, "none" while it runs
  nput,     \* frames that have arrived
  frames,   \* history: the frames in the buffer
  offset    \* history: where each of them starts

vars == <<mem, tot, score, devup, out, stop, nput, frames, offset>>

Cells == 0 .. Capacity - 1
Zeroed == [i \in Cells |-> 0]
Frame == [n : {len + Meta : len \in Payloads}, id : 1 .. MaxFrames]
Unlocked == score = -1
Running == stop = "none"

\* The constructor clears the total and leaves the array as it is.
Init ==
  /\ mem = [i \in Cells |-> Garbage]
  /\ tot = 0
  /\ score = -1
  /\ devup = FALSE
  /\ out = <<>>
  /\ stop = "none"
  /\ nput = 0
  /\ frames = <<>>
  /\ offset = <<>>

\* addIp: the stack starts to poll the device.
DeviceInit ==
  /\ Running
  /\ ~devup
  /\ devup' = TRUE
  /\ UNCHANGED <<mem, tot, score, out, stop, nput, frames, offset>>

\* The condition of the loop in pico_rx: only an IPv6 frame makes room.
MutantFullByOne(newlen, type) == newlen > Capacity - tot + 1 /\ type = IPv6
Full(newlen, type) == newlen > Capacity - tot /\ type = IPv6

\* The array with a frame of newlen cells and number id copied to at.
Stored(m, at, newlen, id) ==
  [i \in Cells |-> IF i = at THEN newlen
                   ELSE IF at < i /\ i < at + newlen THEN id
                   ELSE m[i]]

\* pico_rx, under the mutex.  Making room clears the whole buffer.
Rx(len, type) ==
  LET newlen == len + Meta
      full == Full(newlen, type)
      at == IF full THEN 0 ELSE tot
      id == nput + 1
  IN  /\ Running
      /\ Unlocked
      /\ full => devup
      /\ nput < MaxFrames
      /\ mem' = Stored(IF full THEN Zeroed ELSE mem, at, newlen, id)
      /\ tot' = at + newlen
      /\ stop' = IF at + newlen > Capacity THEN "buffer" ELSE "none"
      /\ nput' = id
      /\ frames' = Append(IF full THEN <<>> ELSE frames, [n |-> newlen, id |-> id])
      /\ offset' = Append(IF full THEN <<>> ELSE offset, at)
      /\ UNCHANGED <<score, devup, out>>

\* pico_rx has to make room before addIp: it clears the total through
\* picotap, which is NULL.
RxNoTap(len, type) ==
  /\ Running
  /\ Unlocked
  /\ Full(len + Meta, type)
  /\ ~devup
  /\ nput < MaxFrames
  /\ stop' = "null"
  /\ UNCHANGED <<mem, tot, score, devup, out, nput, frames, offset>>

\* pico_eth_poll takes the mutex.
PollBegin(k) ==
  /\ Running
  /\ Unlocked
  /\ devup
  /\ score' = k
  /\ UNCHANGED <<mem, tot, devup, out, stop, nput, frames, offset>>

\* The array after memmove of everything behind the first len cells.
MutantShifted(len) ==
  [i \in Cells |-> IF i < Capacity - len THEN mem[i + len - 1] ELSE mem[i]]
Shifted(len) ==
  [i \in Cells |-> IF i < Capacity - len THEN mem[i + len] ELSE mem[i]]

\* The frame copied from the front of the array: its length, and the number
\* its cells hold, 0 if they are not cells of one frame.
Copied(len) ==
  [n |-> len, id |-> IF \A i \in 1 .. len - 1 : mem[i] = mem[1] THEN mem[1] ELSE 0]

\* The total once a frame of len cells is gone.
MutantLeftOffByOne(len) == tot - len - 1
MutantLeftNothing(len) == 0
Left(len) == tot - len

\* What copying a frame of len cells to the array frame leads to.  A length
\* that the buffer cannot hold ends in exit(0) or in a copy from outside it,
\* one that frame cannot hold in a copy past the end of frame.
Copy(len) ==
  IF len \notin 2 .. Capacity THEN "buffer"
  ELSE IF len - 1 > FrameMax THEN "frame"
  ELSE "none"

\* One round of the loop in pico_eth_poll.
PollFrame ==
  LET len == mem[0] IN
  /\ Running
  /\ score > 0
  /\ tot > 0
  /\ stop' = Copy(len)
  /\ IF Copy(len) = "none"
       THEN /\ out' = Append(out, Copied(len))
            /\ mem' = Shifted(len)
            /\ tot' = Left(len)
            /\ score' = score - 1
            /\ frames' = Tail(frames)
            /\ offset' = [i \in 1 .. Len(offset) - 1 |-> offset[i + 1] - len]
       ELSE UNCHANGED <<mem, tot, score, out, frames, offset>>
  /\ UNCHANGED <<devup, nput>>

PollEnd ==
  /\ Running
  /\ score >= 0
  /\ score = 0 \/ tot <= 0
  /\ score' = -1
  /\ UNCHANGED <<mem, tot, devup, out, stop, nput, frames, offset>>

Next ==
  \/ \E len \in Payloads, type \in EtherTypes : Rx(len, type)
  \/ \E len \in Payloads, type \in EtherTypes : RxNoTap(len, type)
  \/ DeviceInit
  \/ \E k \in 1 .. LoopScore : PollBegin(k)
  \/ PollFrame
  \/ PollEnd

\* Once the device is there, pico_loop ticks the stack for ever and each tick
\* polls it.  Frames need not arrive.
Fairness ==
  WF_vars((\E k \in 1 .. LoopScore : PollBegin(k)) \/ PollFrame \/ PollEnd)

Spec == Init /\ [][Next]_vars
FairSpec == Spec /\ Fairness

-----------------------------------------------------------------------------
(***************************************************************************)
(* Properties.                                                             *)
(***************************************************************************)

\* Every variable has its type; in particular pico_frame_rxbuf_tot never
\* becomes negative.
TypeOK ==
  /\ mem \in [Cells -> Int]
  /\ tot \in Nat
  /\ score \in -1 .. LoopScore
  /\ devup \in BOOLEAN
  /\ out \in Seq([n : Int, id : Int])
  /\ stop \in {"none", "buffer", "frame", "null"}
  /\ nput \in 0 .. MaxFrames
  /\ frames \in Seq(Frame)
  /\ offset \in Seq(Nat)

\* Where the frame after frame i starts, or would start.
End(i) == offset[i] + frames[i].n

\* The array holds exactly the frames of the buffer, back to back from
\* offset 0 up to pico_frame_rxbuf_tot, each with its length in front.  So
\* the length that pico_eth_poll reads at offset 0 is always one that
\* pico_rx wrote, whatever memmove left behind the last frame.
Layout ==
  /\ Len(offset) = Len(frames)
  /\ frames = <<>> <=> tot = 0
  /\ frames # <<>> => offset[1] = 0 /\ tot = End(Len(frames))
  /\ \A i \in 1 .. Len(frames) - 1 : offset[i + 1] = End(i)
  /\ \A i \in 1 .. Len(frames) :
       /\ mem[offset[i]] = frames[i].n
       /\ \A j \in offset[i] + 1 .. End(i) - 1 : mem[j] = frames[i].id

\* No copy leaves pico_frame_rxbuf and no length makes pico_eth_poll call
\* exit.  A copy leaves the array frame only for a frame that arrived longer
\* than SDK_MTU, which is then the first of the buffer.
InBounds ==
  /\ stop # "buffer"
  /\ stop = "frame" => frames # <<>> /\ Head(frames).n - 1 > FrameMax

\* The buffer is a queue: pico_stack_recv gets the frames that arrived, in
\* order and unchanged, and only a frame that does not fit drops others.
Queue == INSTANCE FrameQueue WITH
           Frames <- Frame, queue <- frames, size <- tot, given <- out
IsQueue == Queue!Spec

\* No frame stays in the buffer for ever once the device is polled, however
\* many arrive behind it, unless a frame longer than SDK_MTU ends the service.
Buffered(id) == \E i \in 1 .. Len(frames) : frames[i].id = id
FrameLeaves ==
  \A id \in 1 .. MaxFrames : devup /\ Buffered(id) ~> ~Buffered(id) \/ stop = "frame"

=============================================================================
