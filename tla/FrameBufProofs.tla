--------------------------- MODULE FrameBufProofs ---------------------------
(***************************************************************************)
(* Proofs about the frame buffer on a network that only carries IPv6       *)
(* frames, of any length that fits in the buffer.                          *)
(*                                                                         *)
(* Layout is not inductive: nothing in it says that the frames lie in      *)
(* order and below the total, which the move in pico_eth_poll relies on.   *)
(* IInv adds that.                                                         *)
(***************************************************************************)
EXTENDS FrameBuf, TLAPS

\* The condition on the network: only for IPv6 does pico_rx make room.
OnlyIPv6Frames == EtherTypes \subseteq {IPv6}

\* Frames lie in order, without overlapping, below the total.
Ordered ==
  /\ \A i, j \in 1 .. Len(frames) : i < j => End(i) <= offset[j]
  /\ \A i \in 1 .. Len(frames) : End(i) <= tot
  /\ tot <= Capacity

IInv == TypeOK /\ Layout /\ InBounds /\ Ordered

-----------------------------------------------------------------------------

\* Every frame has at least two cells and no more than the buffer.
LEMMA FrameSize ==
  ASSUME OnlyIPv6Frames, NEW f \in Frame
  PROVE  /\ f.n \in 2 .. Capacity
         /\ f.id \in Nat
  BY FrameBufAssumption, OneFrameFits DEF Frame

\* The first frame of a buffer that is not empty starts at cell 0.
LEMMA FirstFrame ==
  ASSUME OnlyIPv6Frames, IInv, tot > 0
  PROVE  /\ frames # <<>>
         /\ Len(frames) \in Nat \ {0}
         /\ frames[1] \in Frame
         /\ offset[1] = 0
         /\ mem[0] = frames[1].n
         /\ mem[0] \in 2 .. Capacity
         /\ mem[0] <= tot
  <1>1. /\ frames # <<>>
        /\ Len(frames) \in Nat \ {0}
        /\ frames[1] \in Frame
    BY DEF IInv, TypeOK, Layout
  <1>2. offset[1] = 0 /\ mem[0] = frames[1].n
    BY <1>1 DEF IInv, TypeOK, Layout
  <1>3. End(1) <= tot
    BY <1>1 DEF IInv, Ordered
  <1> QED
    BY <1>1, <1>2, <1>3, FrameSize DEF End

\* pico_eth_poll copies the first frame, whole and unchanged.
LEMMA CopiedFirst ==
  ASSUME OnlyIPv6Frames, IInv, tot > 0
  PROVE  Copied(mem[0]) = frames[1]
  <1>1. \A j \in 1 .. mem[0] - 1 : mem[j] = frames[1].id
    BY FirstFrame DEF IInv, Layout, End
  <1>2. mem[1] = frames[1].id
    BY <1>1, FirstFrame
  <1>3. Copied(mem[0]) = [n |-> frames[1].n, id |-> frames[1].id]
    BY <1>1, <1>2, FirstFrame, Zenon DEF Copied
  <1> QED
    BY <1>3, FirstFrame, Zenon DEF Frame

-----------------------------------------------------------------------------

\* A new tap has an empty buffer.
LEMMA InitInv == Init => IInv
  <1> SUFFICES ASSUME Init
               PROVE  IInv
    BY Zenon
  <1>1. TypeOK
    <2>1. devup \in BOOLEAN /\ stop \in {"none", "buffer", "frame", "null"}
      BY Zenon DEF Init
    <2>2. mem \in [Cells -> Int] /\ score \in -1 .. LoopScore /\ nput \in 0 .. MaxFrames
      BY FrameBufAssumption DEF Init
    <2>3. tot \in Nat /\ out \in Seq([n : Int, id : Int])
      BY DEF Init
    <2>4. frames \in Seq(Frame) /\ offset \in Seq(Nat)
      BY DEF Init
    <2> QED
      BY <2>1, <2>2, <2>3, <2>4, Zenon DEF TypeOK
  <1>2. Layout
    BY DEF Init, Layout
  <1>3. InBounds
    BY DEF Init, InBounds
  <1>4. Ordered
    BY FrameBufAssumption DEF Init, Ordered
  <1> QED
    BY <1>1, <1>2, <1>3, <1>4, Zenon DEF IInv

\* A frame that fits, or that is stored after the buffer was cleared.
LEMMA RxInv ==
  ASSUME OnlyIPv6Frames, IInv, NEW len \in Payloads, NEW type \in EtherTypes, Rx(len, type)
  PROVE  IInv'
  <1> DEFINE newlen == len + Meta
             f == [n |-> newlen, id |-> nput + 1]
  <1>0. /\ newlen \in 2 .. Capacity
        /\ newlen \in Int
        /\ type = IPv6
        /\ nput + 1 \in 1 .. MaxFrames
        /\ f \in Frame
    BY FrameBufAssumption, OneFrameFits DEF OnlyIPv6Frames, IInv, TypeOK, Rx, Frame
  <1>a. tot \in Nat /\ Capacity \in Nat /\ score \in -1 .. LoopScore
    BY FrameBufAssumption, Zenon DEF IInv, TypeOK
  <1>1. CASE newlen > Capacity - tot
    <2>1. /\ mem' = Stored(Zeroed, 0, newlen, nput + 1)
          /\ tot' = newlen
          /\ stop' = "none"
          /\ nput' = nput + 1
          /\ frames' = <<f>>
          /\ offset' = <<0>>
          /\ UNCHANGED <<score, devup, out>>
      <3>1. Full(newlen, type)
        BY <1>0, <1>1, Zenon DEF Full
      <3>2. ~(0 + newlen > Capacity) /\ 0 + newlen = newlen
        BY <1>0, <1>a
      <3> QED
        BY <3>1, <3>2 DEF Rx
    <2>2. TypeOK'
      <3>1. mem' \in [Cells -> Int]
        BY <1>0, <1>a, <2>1 DEF IInv, TypeOK, Stored, Zeroed
      <3>2. frames' \in Seq(Frame) /\ offset' \in Seq(Nat)
        BY <1>0, <2>1
      <3>3. devup' \in BOOLEAN /\ stop' \in {"none", "buffer", "frame", "null"}
        BY <2>1, Zenon DEF IInv, TypeOK
      <3>4. tot' \in Nat /\ nput' \in 0 .. MaxFrames
        BY <1>0, <1>a, <2>1
      <3>5. score' \in -1 .. LoopScore /\ out' \in Seq([n : Int, id : Int])
        BY <2>1, Zenon DEF IInv, TypeOK
      <3> QED
        BY <3>1, <3>2, <3>3, <3>4, <3>5, Zenon DEF TypeOK
    <2>3. \A i \in 1 .. Len(frames') : /\ i = 1
                                       /\ offset'[i] = 0
                                       /\ frames'[i] = f
                                       /\ End(i)' = newlen
      BY <1>0, <2>1 DEF End
    <2>4. /\ mem'[0] = newlen
          /\ \A j \in 1 .. newlen - 1 : mem'[j] = nput + 1
      BY <1>0, <1>a, <2>1 DEF Stored, Cells
    <2>5. Layout'
      BY <1>0, <2>1, <2>3, <2>4 DEF Layout
    <2> QED
      BY <1>0, <1>a, <2>1, <2>2, <2>3, <2>5 DEF IInv, InBounds, Ordered
  <1>2. CASE ~(newlen > Capacity - tot)
    <2>1. /\ mem' = Stored(mem, tot, newlen, nput + 1)
          /\ tot' = tot + newlen
          /\ tot' <= Capacity
          /\ stop' = "none"
          /\ nput' = nput + 1
          /\ frames' = Append(frames, f)
          /\ offset' = Append(offset, tot)
          /\ UNCHANGED <<score, devup, out>>
      <3>1. ~Full(newlen, type)
        BY <1>2, Zenon DEF Full
      <3>2. ~(tot + newlen > Capacity) /\ tot + newlen <= Capacity
        BY <1>0, <1>a, <1>2
      <3> QED
        BY <3>1, <3>2, Zenon DEF Rx
    <2>2. TypeOK'
      <3>1. mem' \in [Cells -> Int]
        BY <1>0, <1>a, <2>1 DEF IInv, TypeOK, Stored
      <3>2. frames' \in Seq(Frame) /\ offset' \in Seq(Nat)
        BY <1>0, <1>a, <2>1 DEF IInv, TypeOK
      <3>3. devup' \in BOOLEAN /\ stop' \in {"none", "buffer", "frame", "null"}
        BY <2>1, Zenon DEF IInv, TypeOK
      <3>4. tot' \in Nat /\ nput' \in 0 .. MaxFrames
        BY <1>0, <1>a, <2>1
      <3>5. score' \in -1 .. LoopScore /\ out' \in Seq([n : Int, id : Int])
        BY <2>1, Zenon DEF IInv, TypeOK
      <3> QED
        BY <3>1, <3>2, <3>3, <3>4, <3>5, Zenon DEF TypeOK
    <2>b. PICK N \in Nat : N = Len(frames)
      BY DEF IInv, TypeOK
    <2>3. /\ N = Len(frames)
          /\ Len(offset) = N
          /\ Len(frames') = N + 1
          /\ Len(offset') = N + 1
          /\ frames'[N + 1] = f
          /\ offset'[N + 1] = tot
          /\ End(N + 1)' = tot + newlen
          /\ \A i \in 1 .. N : /\ frames'[i] = frames[i]
                               /\ offset'[i] = offset[i]
                               /\ End(i)' = End(i)
      BY <1>0, <1>a, <2>1, <2>b, SMTT(30) DEF IInv, TypeOK, Layout, End
    <2>4. \A i \in 1 .. N : /\ frames[i].n \in 2 .. Capacity
                            /\ offset[i] \in Nat
                            /\ End(i) \in Nat
                            /\ offset[i] < tot
                            /\ End(i) <= tot
      <3> SUFFICES ASSUME NEW i \in 1 .. N
                   PROVE  /\ frames[i].n \in 2 .. Capacity
                          /\ offset[i] \in Nat
                          /\ End(i) \in Nat
                          /\ offset[i] < tot
                          /\ End(i) <= tot
        BY Zenon
      <3>1. frames[i] \in Frame /\ offset[i] \in Nat /\ End(i) <= tot
        BY <2>3, SMTT(30) DEF IInv, TypeOK, Layout, Ordered
      <3> QED
        BY <3>1, <1>a, FrameSize DEF End
    <2>5. /\ mem'[tot] = newlen
          /\ \A j \in tot + 1 .. tot + newlen - 1 : mem'[j] = nput + 1
          /\ \A j \in 0 .. tot - 1 : mem'[j] = mem[j]
      BY <1>0, <1>a, <2>1, SMTT(30) DEF Stored, Cells
    <2>6. Ordered'
      <3>1. \A i, j \in 1 .. N + 1 : i < j => End(i)' <= offset'[j]
        <4> SUFFICES ASSUME NEW i \in 1 .. N + 1, NEW j \in 1 .. N + 1, i < j
                     PROVE  End(i)' <= offset'[j]
          BY Zenon
        <4>1. i \in 1 .. N
          OBVIOUS
        <4>2. CASE j = N + 1
          BY <4>1, <4>2, <2>3, <2>4, Zenon
        <4>3. CASE j \in 1 .. N
          BY <4>1, <4>3, <2>3, Zenon DEF IInv, Ordered
        <4> QED
          BY <4>2, <4>3
      <3>2. \A i \in 1 .. N + 1 : End(i)' <= tot'
        BY <1>0, <1>a, <2>1, <2>3, <2>4, SMTT(30) DEF End
      <3> QED
        BY <3>1, <3>2, <2>1, <2>3, Zenon DEF Ordered
    <2>7. Layout'
      <3>1. frames' # <<>> /\ tot' # 0
        BY <1>0, <1>a, <2>1, <2>3, SMTT(30)
      <3>2. offset'[1] = 0 /\ tot' = End(N + 1)'
        BY <2>1, <2>3, <1>a DEF IInv, Layout
      <3>3. \A i \in 1 .. N : offset'[i + 1] = End(i)'
        <4> SUFFICES ASSUME NEW i \in 1 .. N
                     PROVE  offset'[i + 1] = End(i)'
          BY Zenon
        <4>1. CASE i = N
          BY <4>1, <2>3 DEF IInv, Layout
        <4>2. CASE i < N
          BY <4>2, <2>3 DEF IInv, Layout
        <4> QED
          BY <4>1, <4>2, <2>3
      <3>4. \A i \in 1 .. N + 1 :
              /\ mem'[offset'[i]] = frames'[i].n
              /\ \A j \in offset'[i] + 1 .. End(i)' - 1 : mem'[j] = frames'[i].id
        <4> SUFFICES ASSUME NEW i \in 1 .. N + 1
                     PROVE  /\ mem'[offset'[i]] = frames'[i].n
                            /\ \A j \in offset'[i] + 1 .. End(i)' - 1 :
                                 mem'[j] = frames'[i].id
          BY Zenon
        <4>1. CASE i = N + 1
          BY <4>1, <1>0, <1>a, <2>3, <2>5 DEF End
        <4>2. CASE i # N + 1
          <5>1. i \in 1 .. N
            BY <4>2, <2>3
          <5>2. /\ mem[offset[i]] = frames[i].n
                /\ \A j \in offset[i] + 1 .. End(i) - 1 : mem[j] = frames[i].id
            BY <5>1, <2>3, Zenon DEF IInv, Layout
          <5>3. /\ offset'[i] = offset[i] /\ frames'[i] = frames[i] /\ End(i)' = End(i)
                /\ offset[i] \in 0 .. tot - 1
                /\ End(i) \in Nat /\ End(i) <= tot
            BY <5>1, <2>3, <2>4, <1>a
          <5>4. \A j \in offset[i] + 1 .. End(i) - 1 : j \in 0 .. tot - 1
            BY <5>3, <1>a
          <5> QED
            BY <5>2, <5>3, <5>4, <2>5, Zenon
        <4> QED
          BY <4>1, <4>2, Zenon
      <3> QED
        BY <3>1, <3>2, <3>3, <3>4, <2>3 DEF Layout
    <2> QED
      BY <2>1, <2>2, <2>6, <2>7, Zenon DEF IInv, InBounds
  <1> QED
    BY <1>1, <1>2, Zenon

\* pico_eth_poll reads the length of the first frame, which only frame may
\* be too small for.
LEMMA CopyFirst ==
  ASSUME OnlyIPv6Frames, IInv, tot > 0
  PROVE  /\ Copy(mem[0]) \in {"none", "frame"}
         /\ Copy(mem[0]) = "frame" => Head(frames).n - 1 > FrameMax
  <1>1. Head(frames) = frames[1]
    BY FirstFrame
  <1> QED
    BY <1>1, FirstFrame, FrameBufAssumption DEF Copy

\* The first frame leaves and the others move down by its length.
LEMMA PollFrameInv ==
  ASSUME OnlyIPv6Frames, IInv, PollFrame, Copy(mem[0]) = "none"
  PROVE  IInv'
  <1>0. /\ tot \in Nat /\ tot > 0 /\ tot <= Capacity /\ Capacity \in Nat
        /\ mem \in [Cells -> Int]
        /\ offset \in Seq(Nat)
        /\ frames \in Seq(Frame)
        /\ score \in -1 .. LoopScore /\ score > 0
    BY FrameBufAssumption, Zenon DEF IInv, TypeOK, PollFrame, Ordered
  <1>1. PICK len \in 2 .. Capacity : len = mem[0] /\ len = frames[1].n /\ len <= tot
    BY <1>0, FirstFrame, Zenon
  <1>a. /\ len \in Nat /\ 2 <= len /\ len <= tot
        /\ tot \in Nat /\ tot <= Capacity
        /\ Capacity \in Nat
    BY <1>0, <1>1
  <1>2. PICK N \in Nat \ {0} : N = Len(frames)
    BY <1>0, FirstFrame, Zenon
  <1>3. /\ out' = Append(out, frames[1])
        /\ mem' = Shifted(len)
        /\ tot' = tot - len
        /\ score' = score - 1
        /\ frames' = Tail(frames)
        /\ offset' = [i \in 1 .. Len(offset) - 1 |-> offset[i + 1] - len]
        /\ stop' = "none"
        /\ UNCHANGED <<devup, nput>>
    BY <1>0, <1>1, CopiedFirst, Zenon DEF PollFrame, Left
  <1>4. /\ Len(offset) = N
        /\ Len(frames') = N - 1
        /\ Len(offset') = N - 1
        /\ offset[1] = 0
        /\ \A i \in 1 .. N - 1 : /\ frames'[i] = frames[i + 1]
                                 /\ offset'[i] = offset[i + 1] - len
    BY <1>0, <1>1, <1>2, <1>3, FirstFrame DEF IInv, Layout
  <1>5. \A i \in 2 .. N : /\ frames[i] \in Frame
                          /\ frames[i].n \in 2 .. Capacity
                          /\ offset[i] \in Nat
                          /\ len <= offset[i]
                          /\ offset[i] + frames[i].n <= tot
    <2> SUFFICES ASSUME NEW i \in 2 .. N
                 PROVE  /\ frames[i] \in Frame
                        /\ frames[i].n \in 2 .. Capacity
                        /\ offset[i] \in Nat
                        /\ len <= offset[i]
                        /\ offset[i] + frames[i].n <= tot
      BY Zenon
    <2>1. i \in 1 .. N /\ 1 \in 1 .. N /\ 1 < i
      BY <1>2
    <2>2. frames[i] \in Frame /\ offset[i] \in Nat
      BY <2>1, <1>0, <1>2, <1>4, SMTT(30)
    <2>3. End(1) <= offset[i] /\ End(i) <= tot
      BY <2>1, <1>2, Zenon DEF IInv, Ordered
    <2> QED
      BY <2>2, <2>3, <1>1, <1>4, FrameSize DEF End
  <1>6. \A j \in 0 .. Capacity - len - 1 : mem'[j] = mem[j + len]
    <2> SUFFICES ASSUME NEW j \in 0 .. Capacity - len - 1
                 PROVE  mem'[j] = mem[j + len]
      BY Zenon
    <2>1. j \in Cells /\ j < Capacity - len
      BY <1>a DEF Cells
    <2>2. mem' = [i \in Cells |-> IF i < Capacity - len THEN mem[i + len] ELSE mem[i]]
      BY <1>3, Zenon DEF Shifted
    <2> QED
      BY <2>1, <2>2, Zenon
  <1>7. TypeOK'
    <2>1. devup' \in BOOLEAN /\ stop' \in {"none", "buffer", "frame", "null"}
      <3>1. devup' = devup /\ stop' = "none"
        BY <1>3, Zenon
      <3> QED
        BY <3>1, Zenon DEF IInv, TypeOK
    <2>2. mem' \in [Cells -> Int]
      <3>1. \A i \in Cells : i < Capacity - len => i + len \in Cells
        BY <1>a DEF Cells
      <3>2. mem' = [i \in Cells |-> IF i < Capacity - len THEN mem[i + len] ELSE mem[i]]
        BY <1>3, Zenon DEF Shifted
      <3> QED
        BY <3>1, <3>2, <1>0, Zenon
    <2>3. tot' \in Nat /\ score' \in -1 .. LoopScore /\ nput' \in 0 .. MaxFrames
      <3>1. tot' = tot - len /\ score' = score - 1 /\ nput' = nput
        BY <1>3, Zenon
      <3>2. score' \in -1 .. LoopScore
        BY <3>1, <1>0, FrameBufAssumption
      <3> QED
        BY <3>1, <3>2, <1>a DEF IInv, TypeOK
    <2>4. frames[1] \in [n : Int, id : Int]
      BY <1>0, FirstFrame, FrameBufAssumption, SMTT(30) DEF Frame
    <2>5. out' \in Seq([n : Int, id : Int])
      BY <2>4, <1>3 DEF IInv, TypeOK
    <2>6. frames' \in Seq(Frame)
      BY <1>0, <1>3, FirstFrame
    <2>7. offset' \in Seq(Nat)
      <3>1. \A i \in 1 .. N - 1 : offset[i + 1] - len \in Nat
        BY <1>1, <1>5
      <3> QED
        BY <3>1, <1>3, <1>4
    <2> QED
      BY <2>1, <2>2, <2>3, <2>5, <2>6, <2>7, Zenon DEF TypeOK
  <1>8. \A i \in 1 .. N - 1 : /\ End(i)' = offset[i + 1] + frames[i + 1].n - len
                              /\ frames[i + 1].n \in 2 .. Capacity
                              /\ offset[i + 1] \in Nat
                              /\ len <= offset[i + 1]
                              /\ offset[i + 1] + frames[i + 1].n <= tot
    <2> SUFFICES ASSUME NEW i \in 1 .. N - 1
                 PROVE  /\ End(i)' = offset[i + 1] + frames[i + 1].n - len
                        /\ frames[i + 1].n \in 2 .. Capacity
                        /\ offset[i + 1] \in Nat
                        /\ len <= offset[i + 1]
                        /\ offset[i + 1] + frames[i + 1].n <= tot
      BY Zenon
    <2>1. i + 1 \in 2 .. N
      OBVIOUS
    <2>2. End(i)' = offset[i + 1] - len + frames[i + 1].n
      BY <1>4, Zenon DEF End
    <2> QED
      BY <2>1, <2>2, <1>1, <1>5
  <1>9. Ordered'
    <2>1. \A i, j \in 1 .. N - 1 : i < j => End(i)' <= offset'[j]
      <3> SUFFICES ASSUME NEW i \in 1 .. N - 1, NEW j \in 1 .. N - 1, i < j
                   PROVE  End(i)' <= offset'[j]
        BY Zenon
      <3>1. i + 1 \in 1 .. N /\ j + 1 \in 1 .. N /\ i + 1 < j + 1
        OBVIOUS
      <3>2. End(i + 1) <= offset[j + 1]
        BY <3>1, <1>2, Zenon DEF IInv, Ordered
      <3>3. offset'[j] = offset[j + 1] - len /\ End(i)' = End(i + 1) - len
        <4>1. offset'[j] = offset[j + 1] - len
          BY <1>4, Zenon
        <4>2. /\ End(i)' = offset[i + 1] + frames[i + 1].n - len
              /\ End(i + 1) = offset[i + 1] + frames[i + 1].n
              /\ offset[i + 1] \in Nat /\ frames[i + 1].n \in Int /\ len \in Int
          BY <1>8, <1>a DEF End
        <4> QED
          BY <4>1, <4>2
      <3>4. End(i + 1) \in Int /\ offset[j + 1] \in Nat
        <4>1. i + 1 \in 2 .. N /\ j + 1 \in 2 .. N
          OBVIOUS
        <4>2. offset[i + 1] \in Nat /\ frames[i + 1].n \in Int /\ offset[j + 1] \in Nat
          BY <4>1, <1>5, <1>a
        <4> QED
          BY <4>2 DEF End
      <3> QED
        BY <3>2, <3>3, <3>4, <1>a
    <2>2. \A i \in 1 .. N - 1 : End(i)' <= tot'
      <3>1. tot' = tot - len
        BY <1>3, Zenon
      <3> QED
        BY <3>1, <1>a, <1>8
    <2> QED
      <3>1. tot' <= Capacity
        BY <1>0, <1>1, <1>3, SMTT(30)
      <3> QED
        BY <2>1, <2>2, <3>1, <1>4, Zenon DEF Ordered
  <1>10. Layout'
    <2>1. tot = offset[N] + frames[N].n
      BY <1>2, FirstFrame, <1>0, Zenon DEF IInv, Layout, End
    <2>2. /\ frames' = <<>> <=> tot' = 0
          /\ frames' # <<>> => N - 1 \in 1 .. N - 1
      <3>1. CASE N = 1
        <4>1. tot' = 0
          BY <3>1, <2>1, <1>0, <1>1, <1>3, <1>4, SMTT(30)
        <4> QED
          BY <3>1, <4>1, <1>0, <1>3, <1>4, SMTT(30)
      <3>2. CASE N > 1
        <4>1. N \in 2 .. N
          BY <3>2
        <4>2. tot' = tot - len
          BY <1>3, Zenon
        <4>3. tot' > 0
          BY <4>1, <4>2, <2>1, <1>a, <1>5
        <4> QED
          BY <3>2, <4>3, <1>4
      <3> QED
        BY <3>1, <3>2
    <2>3. frames' # <<>> => offset'[1] = 0 /\ tot' = End(N - 1)'
      <3> SUFFICES ASSUME N - 1 \in 1 .. N - 1
                   PROVE  offset'[1] = 0 /\ tot' = End(N - 1)'
        BY <2>2, Zenon
      <3>1. offset[1 + 1] = End(1)
        BY <1>2 DEF IInv, Layout
      <3>2. offset'[1] = 0
        BY <3>1, <1>1, <1>4 DEF End
      <3>3. tot' = End(N - 1)'
        <4>1. N - 1 + 1 = N /\ tot' = tot - len
          BY <1>3
        <4>2. End(N - 1)' = offset[N - 1 + 1] + frames[N - 1 + 1].n - len
          BY <1>8, Zenon
        <4>3. N \in 2 .. N
          OBVIOUS
        <4>4. offset[N] \in Nat /\ frames[N].n \in Int
          BY <4>3, <1>5, <1>a
        <4>5. End(N - 1)' = offset[N] + frames[N].n - len
          BY <4>1, <4>2, Zenon
        <4> QED
          BY <4>1, <4>4, <4>5, <2>1, <1>a
      <3> QED
        BY <3>2, <3>3, Zenon
    <2>4. \A i \in 1 .. N - 1 - 1 : offset'[i + 1] = End(i)'
      <3> SUFFICES ASSUME NEW i \in 1 .. N - 1 - 1
                   PROVE  offset'[i + 1] = End(i)'
        BY Zenon
      <3>1. offset[i + 1 + 1] = End(i + 1)
        BY <1>2 DEF IInv, Layout
      <3>2. i \in 1 .. N - 1 /\ i + 1 \in 1 .. N - 1
        OBVIOUS
      <3>3. offset'[i + 1] = offset[i + 1 + 1] - len
        BY <3>2, <1>4, Zenon
      <3>4. End(i)' = End(i + 1) - len
        BY <3>2, <1>8 DEF End
      <3> QED
        BY <3>1, <3>3, <3>4, Zenon
    <2>5. \A i \in 1 .. N - 1 :
            /\ mem'[offset'[i]] = frames'[i].n
            /\ \A j \in offset'[i] + 1 .. End(i)' - 1 : mem'[j] = frames'[i].id
      <3> SUFFICES ASSUME NEW i \in 1 .. N - 1
                   PROVE  /\ mem'[offset'[i]] = frames'[i].n
                          /\ \A j \in offset'[i] + 1 .. End(i)' - 1 : mem'[j] = frames'[i].id
        BY Zenon
      <3>0. i + 1 \in 1 .. N
        OBVIOUS
      <3>1. /\ mem[offset[i + 1]] = frames[i + 1].n
            /\ \A j \in offset[i + 1] + 1 .. End(i + 1) - 1 : mem[j] = frames[i + 1].id
        <4>1. \A k \in 1 .. N :
                /\ mem[offset[k]] = frames[k].n
                /\ \A j \in offset[k] + 1 .. End(k) - 1 : mem[j] = frames[k].id
          BY <1>2, Zenon DEF IInv, Layout
        <4> QED
          BY <3>0, <4>1, Zenon
      <3>2. /\ offset'[i] \in 0 .. Capacity - len - 1
            /\ offset'[i] + len = offset[i + 1]
            /\ End(i)' = offset[i + 1] + frames[i + 1].n - len
            /\ End(i)' \in 0 .. Capacity - len
        <4>1. /\ offset'[i] = offset[i + 1] - len
              /\ End(i)' = offset[i + 1] + frames[i + 1].n - len
          BY <1>4, <1>8, Zenon
        <4>2. /\ offset[i + 1] \in Nat /\ len <= offset[i + 1]
              /\ frames[i + 1].n \in Int /\ 2 <= frames[i + 1].n
              /\ offset[i + 1] + frames[i + 1].n <= tot
          <5>1. i + 1 \in 2 .. N
            OBVIOUS
          <5> QED
            BY <5>1, <1>5, <1>a
        <4> QED
          BY <4>1, <4>2, <1>a
      <3>3. mem'[offset'[i]] = frames'[i].n
        BY <3>1, <3>2, <1>4, <1>6, Zenon
      <3>4. ASSUME NEW j \in offset'[i] + 1 .. End(i)' - 1
            PROVE  mem'[j] = frames'[i].id
        <4>1. /\ j \in 0 .. Capacity - len - 1
              /\ j + len \in offset[i + 1] + 1 .. End(i + 1) - 1
          BY <3>2, <1>a, <1>8 DEF End
        <4> QED
          BY <4>1, <3>1, <1>4, <1>6, Zenon
      <3> QED
        BY <3>3, <3>4, Zenon
    <2> QED
      BY <2>2, <2>3, <2>4, <2>5, <1>4, Zenon DEF Layout
  <1> QED
    BY <1>3, <1>7, <1>9, <1>10 DEF IInv, InBounds

\* A step that stops the driver, or leaves the buffer alone, keeps the
\* invariant when the reason is one that InBounds allows.
LEMMA BufferKept ==
  ASSUME IInv,
         UNCHANGED <<mem, tot, out, nput, frames, offset>>,
         score' \in -1 .. LoopScore,
         devup' \in BOOLEAN,
         stop' \in {"none", "frame", "null"},
         InBounds'
  PROVE  IInv'
  <1>1. stop' \in {"none", "buffer", "frame", "null"}
    BY Zenon
  <1>2. TypeOK'
    BY <1>1, Zenon DEF IInv, TypeOK
  <1>3. Layout' /\ Ordered'
    BY Zenon DEF IInv, Layout, Ordered, End
  <1> QED
    BY <1>2, <1>3, Zenon DEF IInv

\* Every step of pico_rx, pico_eth_poll and addIp keeps the invariant.
LEMMA NextInv ==
  ASSUME OnlyIPv6Frames, IInv, [Next]_vars
  PROVE  IInv'
  <1>1. score \in -1 .. LoopScore /\ devup \in BOOLEAN /\ LoopScore \in Nat
    BY FrameBufAssumption, Zenon DEF IInv, TypeOK
  <1>2. -1 \in -1 .. LoopScore /\ 1 .. LoopScore \subseteq -1 .. LoopScore
    BY ONLY <1>1, SMTT(30)
  <1>3. InBounds /\ stop \in {"none", "frame", "null"}
    BY DEF IInv, TypeOK, InBounds
  <1>4. CASE \E len \in Payloads, type \in EtherTypes : Rx(len, type)
    BY <1>4, RxInv, Zenon
  <1>5. CASE \E len \in Payloads, type \in EtherTypes : RxNoTap(len, type)
    <2>1. stop' = "null" /\ UNCHANGED <<mem, tot, score, devup, out, nput, frames, offset>>
      BY <1>5, Zenon DEF RxNoTap
    <2>2. InBounds'
      BY <2>1 DEF InBounds
    <2> QED
      BY <2>1, <2>2, <1>1, BufferKept, Zenon
  <1>6. ASSUME UNCHANGED <<mem, tot, out, stop, nput, frames, offset>>,
               score' \in -1 .. LoopScore, devup' \in BOOLEAN
        PROVE  IInv'
    <2>1. InBounds' /\ stop' \in {"none", "frame", "null"}
      BY <1>3, <1>6, Zenon DEF InBounds
    <2> QED
      BY <1>6, <2>1, BufferKept, Zenon
  <1>7. CASE DeviceInit
    BY <1>1, <1>6, <1>7, Zenon DEF DeviceInit
  <1>8. CASE \E k \in 1 .. LoopScore : PollBegin(k)
    BY <1>1, <1>2, <1>6, <1>8, Zenon DEF PollBegin
  <1>9. CASE PollFrame
    <2>1. tot > 0
      BY <1>9, Zenon DEF PollFrame
    <2>2. CASE Copy(mem[0]) = "none"
      BY <1>9, <2>2, PollFrameInv, Zenon
    <2>3. CASE Copy(mem[0]) # "none"
      <3>1. /\ stop' = Copy(mem[0])
            /\ UNCHANGED <<mem, tot, score, devup, out, nput, frames, offset>>
        BY <1>9, <2>3, Zenon DEF PollFrame
      <3>2. stop' = "frame" /\ InBounds'
        BY <2>1, <2>3, <3>1, CopyFirst, FirstFrame DEF InBounds
      <3> QED
        BY <3>1, <3>2, <1>1, BufferKept, Zenon
    <2> QED
      BY <2>2, <2>3, Zenon
  <1>10. CASE PollEnd
    BY <1>1, <1>2, <1>6, <1>10, Zenon DEF PollEnd
  <1>11. CASE UNCHANGED vars
    BY <1>1, <1>6, <1>11, Zenon DEF vars
  <1> QED
    BY <1>4, <1>5, <1>7, <1>8, <1>9, <1>10, <1>11, Zenon DEF Next

\* IInv holds in every reachable state of the frame buffer.
THEOREM Invariance ==
  ASSUME OnlyIPv6Frames
  PROVE  Spec => []IInv
  <1>1. Init => IInv
    BY InitInv, Zenon
  <1>2. IInv /\ [Next]_vars => IInv'
    BY NextInv, Zenon
  <1> QED
    BY <1>1, <1>2, PTL DEF Spec

-----------------------------------------------------------------------------

\* The array, the total and the counters of pico_rx and pico_eth_poll keep
\* their types.
THEOREM TypeCorrect ==
  ASSUME OnlyIPv6Frames
  PROVE  Spec => []TypeOK
  <1>1. IInv => TypeOK
    BY Zenon DEF IInv
  <1> QED
    BY <1>1, Invariance, PTL

\* The frames in the buffer are where pico_eth_poll looks for them, whatever
\* lengths arrive and however the two threads take turns.
THEOREM LayoutHolds ==
  ASSUME OnlyIPv6Frames
  PROVE  Spec => [](TypeOK /\ Layout)
  <1>1. IInv => TypeOK /\ Layout
    BY Zenon DEF IInv
  <1> QED
    BY <1>1, Invariance, PTL

\* Neither pico_rx nor pico_eth_poll copies past the end of the buffer, and
\* only a frame longer than SDK_MTU is copied past the end of frame.
THEOREM NoOverrun ==
  ASSUME OnlyIPv6Frames
  PROVE  Spec => []InBounds
  <1>1. IInv => InBounds
    BY Zenon DEF IInv
  <1> QED
    BY <1>1, Invariance, PTL

\* A step of the driver is a step of the queue, or leaves the queue alone.
LEMMA StepRefines ==
  ASSUME OnlyIPv6Frames, IInv, [Next]_vars
  PROVE  [Queue!Next]_<<frames, tot, out>>
  <1>1. ASSUME NEW len \in Payloads, NEW type \in EtherTypes, Rx(len, type)
        PROVE  Queue!Next
    <2> DEFINE f == [n |-> len + Meta, id |-> nput + 1]
    <2>1. /\ f \in Frame
          /\ f.n = len + Meta
          /\ type = IPv6
          /\ tot \in Nat /\ Capacity \in Nat /\ f.n \in Nat
      BY <1>1, FrameBufAssumption DEF OnlyIPv6Frames, IInv, TypeOK, Rx, Frame
    <2>2. CASE len + Meta > Capacity - tot
      <3>1. Full(len + Meta, type)
        BY <2>1, <2>2, Zenon DEF Full
      <3>2. /\ frames' = <<f>>
            /\ tot' = f.n
            /\ out' = out
        BY <3>1, <2>1, <1>1 DEF Rx
      <3>3. tot + f.n > Capacity
        BY <2>1, <2>2
      <3> QED
        BY <3>2, <3>3, <2>1, Zenon DEF Queue!Next, Queue!Put
    <2>3. CASE ~(len + Meta > Capacity - tot)
      <3>1. ~Full(len + Meta, type)
        BY <2>3, Zenon DEF Full
      <3>2. /\ frames' = Append(frames, f)
            /\ tot' = tot + f.n
            /\ out' = out
        BY <3>1, <2>1, <1>1, Zenon DEF Rx
      <3>3. tot + f.n <= Capacity
        BY <2>1, <2>3
      <3> QED
        BY <3>2, <3>3, <2>1, Zenon DEF Queue!Next, Queue!Put
    <2> QED
      BY <2>2, <2>3, Zenon
  <1>2. ASSUME PollFrame, Copy(mem[0]) = "none"
        PROVE  Queue!Next
    <2>1. tot > 0
      BY <1>2, Zenon DEF PollFrame
    <2>2. /\ out' = Append(out, Copied(mem[0]))
          /\ tot' = tot - mem[0]
          /\ frames' = Tail(frames)
      BY <1>2, Zenon DEF PollFrame, Left
    <2>3. frames # <<>> /\ Head(frames) = frames[1] /\ mem[0] = frames[1].n
      BY <2>1, FirstFrame
    <2>4. Copied(mem[0]) = frames[1]
      BY <2>1, CopiedFirst, Zenon
    <2> QED
      BY <2>2, <2>3, <2>4, Zenon DEF Queue!Next, Queue!Take
  <1>a. CASE PollFrame /\ Copy(mem[0]) # "none"
    BY <1>a, Zenon DEF PollFrame
  <1>b. CASE \E len \in Payloads, type \in EtherTypes : RxNoTap(len, type)
    BY <1>b, Zenon DEF RxNoTap
  <1>3. CASE DeviceInit
    BY <1>3, Zenon DEF DeviceInit
  <1>4. CASE \E k \in 1 .. LoopScore : PollBegin(k)
    BY <1>4, Zenon DEF PollBegin
  <1>5. CASE PollEnd
    BY <1>5, Zenon DEF PollEnd
  <1>6. CASE UNCHANGED vars
    BY <1>6, Zenon DEF vars
  <1> QED
    BY <1>1, <1>2, <1>a, <1>b, <1>3, <1>4, <1>5, <1>6, Zenon DEF Next

\* The frame buffer implements the queue.
THEOREM BufferIsQueue ==
  ASSUME OnlyIPv6Frames
  PROVE  Spec => IsQueue
  <1>1. Init => Queue!Init
    BY Zenon DEF Init, Queue!Init
  <1>2. IInv /\ [Next]_vars => [Queue!Next]_<<frames, tot, out>>
    BY StepRefines, Zenon
  <1> QED
    BY <1>1, <1>2, Invariance, PTL DEF Spec, IsQueue, Queue!Spec

=============================================================================
