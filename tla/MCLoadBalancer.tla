--------------------------- MODULE MCLoadBalancer ---------------------------
(***************************************************************************)
(* Instances of LoadBalancer for TLC.                                      *)
(***************************************************************************)
EXTENDS LoadBalancer, TLC

CONSTANTS s1, s2, k1, k2

\* k1 and k2 are flows of the first service, hashed to different entries.
OneService == {s1}
BothServices == {s1, s2}
OneFlow == {k1}
SecondFlow == {k2}
BothFlows == {k1, k2}
FirstService == [k \in Flow |-> s1]
Hashes == [k \in Flow |-> IF k = k1 THEN 0 ELSE 1]

\* What the id of an inner map may be as a descriptor: nothing, or the descriptor of
\* any inner map.
NotAFd == [s \in Service |-> {NoService}]
AnyFd  == [s \in Service |-> Service \cup {NoService}]

\* The state as far as the actions and the properties about packets and slots read it:
\* without the histories about tables.
Observed ==
    <<registry_vars, services_map, sessions_map, main_vars, pc, freed, todo, svc, fds, ids,
      reading, table, pos, target, client_vars>>

Symmetry == Permutations(Peer)
=============================================================================
