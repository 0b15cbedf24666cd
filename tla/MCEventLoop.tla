---------------------------- MODULE MCEventLoop ----------------------------
(***************************************************************************)
(* Instances of EventLoop for TLC.  Descriptors and peers are              *)
(* interchangeable in the safety runs.                                     *)
(***************************************************************************)
EXTENDS EventLoop, TLC

CONSTANTS p1, p2, p3, f1, f2

TwoPeers == {p1, p2}
ThreePeers == {p1, p2, p3}
TwoFds == {f1, f2}
OneFd == {f1}

Symmetry == Permutations(Peer) \cup Permutations(Fd)
=============================================================================
