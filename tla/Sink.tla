-------------------------------- MODULE Sink --------------------------------
(***************************************************************************)
(* What the controller may rely on when it exports a sample (ExportStats of *)
(* internal_stats.proto): the rows of the sample are stored one after the   *)
(* other, none twice and none out of order; the call ends at any time; and  *)
(* it is answered with success only when every row is stored.  A call that  *)
(* is answered with failure, or not at all, may have stored any number.     *)
(***************************************************************************)
EXTENDS Naturals

CONSTANT MaxRows  \* bound: rows of a sample

VARIABLES
    size,     \* rows of the sample of the call in progress, 0 for no call
    written,  \* how many of them are stored
    answer    \* to the call that ended last

vars == <<size, written, answer>>

Init ==
    /\ size = 0 /\ written = 0
    /\ answer = "none"

Call(n) ==
    /\ size = 0
    /\ size' = n
    /\ written' = 0
    /\ answer' = "none"

Store ==
    /\ written < size
    /\ written' = written + 1
    /\ UNCHANGED <<size, answer>>

Return(result) ==
    /\ size # 0
    /\ result = "success" => written = size
    /\ answer' = result
    /\ size' = 0 /\ written' = 0

Next ==
    \/ \E n \in 1 .. MaxRows : Call(n)
    \/ Store
    \/ \E result \in {"success", "failure", "broken"} : Return(result)

Spec == Init /\ [][Next]_vars
=============================================================================
