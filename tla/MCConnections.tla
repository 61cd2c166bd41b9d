--------------------------- MODULE MCConnections ---------------------------
(* Small instances of Connections: two windows of one user, two sockets at a *)
(* time, one other task that sends to the user.                              *)
EXTENDS Connections, TLC

CONSTANTS w1, w2, s1, s2, peer

TwoWindows == {w1, w2}
TwoSockets == {s1, s2}
OnePeer == {peer}
=============================================================================
