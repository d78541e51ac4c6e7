-------------------------------- MODULE Pipe --------------------------------
(***************************************************************************)
(* What a stream socket promises in one direction: the bytes come out in   *)
(* the order in which they went in, none altered, none twice and none      *)
(* left out before one that came out.                                      *)
(***************************************************************************)
EXTENDS Integers, Sequences

VARIABLES
  put,   \* the bytes written so far
  got    \* the bytes read so far

\* t continues s.
Continues(s, t) == Len(s) <= Len(t) /\ s = SubSeq(t, 1, Len(s))

Init == put = <<>> /\ got = <<>>

Write == Continues(put, put') /\ UNCHANGED got

Read == Continues(got, got') /\ Continues(got', put) /\ UNCHANGED put

Next == Write \/ Read

Spec == Init /\ [][Next]_<<put, got>>

=============================================================================
