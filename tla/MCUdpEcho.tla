----------------------------- MODULE MCUdpEcho ------------------------------
(* Two clients for model checking UdpEcho.                                 *)
EXTENDS UdpEcho

CONSTANTS c1, c2

TwoClients == {c1, c2}
=============================================================================
