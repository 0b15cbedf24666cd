---------------------------- MODULE MCStatistics ----------------------------
(***************************************************************************)
(* Instances of Statistics for TLC.                                        *)
(***************************************************************************)
EXTENDS Statistics, TLC

CONSTANTS f1, f2

TwoFds == {f1, f2}
Reused == {f2}
Renamings == Permutations(Peer)
=============================================================================
