------------------------------ MODULE MCMaglev ------------------------------
(***************************************************************************)
(* Instances of Maglev for TLC: small primes for M, and every offset and   *)
(* skip the hashes could yield for them.                                   *)
(***************************************************************************)
EXTENDS Maglev

AllOffsets == 0 .. M - 1
AllSkips   == 1 .. M - 1
\* The scaled image of the code's 2^32: as M = 2^16 + 1 there, products of the
\* largest skips wrap around.  These are the skips that do not.
SafeSkips  == {s \in 1 .. M - 1 : M - 1 + (M - 1) * s < Word}
=============================================================================
