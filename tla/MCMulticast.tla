---------------------------- MODULE MCMulticast ----------------------------
EXTENDS Multicast

\* Five addresses in three groups: the vector of all five is no longer sorted
\* after std::unique.
Addresses == 1 .. 5
Groups == <<1, 1, 1, 2, 3>>
=============================================================================
