----------------------------- MODULE FrameQueue -----------------------------
(***************************************************************************)
(* What the frame buffer between the virtual wire and the network stack    *)
(* promises: a queue of bounded size.  Frames reach the stack in the order *)
(* in which they arrived and as they arrived.  A frame that does not fit   *)
(* empties the queue first; nothing else is ever lost.                     *)
(***************************************************************************)
EXTENDS Integers, Sequences

CONSTANTS
  Frames,    \* frames: records with at least a length n
  Capacity   \* the total length the queue holds

VARIABLES
  queue,     \* the frames that wait
  size,      \* their total length
  given      \* the frames handed to the stack, in order

Init == queue = <<>> /\ size = 0 /\ given = <<>>

Put(f) ==
  \/ /\ size + f.n <= Capacity
     /\ queue' = Append(queue, f)
     /\ size' = size + f.n
     /\ UNCHANGED given
  \/ /\ size + f.n > Capacity
     /\ queue' = <<f>>
     /\ size' = f.n
     /\ UNCHANGED given

Take ==
  /\ queue # <<>>
  /\ given' = Append(given, Head(queue))
  /\ queue' = Tail(queue)
  /\ size' = size - Head(queue).n

Next == (\E f \in Frames : Put(f)) \/ Take

Spec == Init /\ [][Next]_<<queue, size, given>>

=============================================================================
