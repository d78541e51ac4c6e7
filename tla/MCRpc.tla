------------------------------- MODULE MCRpc -------------------------------
(***************************************************************************)
(* Instances of Rpc for TLC: two threads of one process, or two processes  *)
(* of one thread each.                                                     *)
(***************************************************************************)
EXTENDS Rpc, TLC

CONSTANTS t1, t2

MCThreads == {t1, t2}
OneThread == {t1}
OneProcess == [t \in Threads |-> 1]
TwoProcesses == [t \in Threads |-> IF t = t1 THEN 1 ELSE 2]

\* The threads of one process are interchangeable.
Symmetry == Permutations(Threads)

Everything == AllCmds
WithReturnValue == {"SOCKET", "CONNECT", "BIND", "LISTEN"}
SocketAndName == {"SOCKET", "BIND", "GETSOCKNAME"}
OnlySocket == {"SOCKET"}

============================================================================
