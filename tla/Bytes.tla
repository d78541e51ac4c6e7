-------------------------------- MODULE Bytes --------------------------------
(***************************************************************************)
(* Buffers of bytes.  A byte is identified by its place in the stream that *)
(* it belongs to, counted from 1.                                          *)
(***************************************************************************)
EXTENDS Integers, Sequences

Lesser(m, n) == IF m < n THEN m ELSE n

\* A buffer without its first n bytes, and those bytes.
Drop(s, n) == SubSeq(s, n + 1, Len(s))
Take(s, n) == SubSeq(s, 1, n)

\* The bytes that follow the m-th, up to the n-th.
Numbers(m, n) == [i \in 1 .. n - m |-> m + i]

=============================================================================
