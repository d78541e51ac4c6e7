----------------------------- MODULE MCFrameBuf -----------------------------
(***************************************************************************)
(* Instances of FrameBuf for TLC.                                          *)
(***************************************************************************)
EXTENDS FrameBuf

OnlyIPv6 == {"ipv6"}
OnlyIPv4 == {"ipv4", "arp"}

=============================================================================
