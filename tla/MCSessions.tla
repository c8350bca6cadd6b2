----------------------------- MODULE MCSessions -----------------------------
(* The instance of Sessions that TLC checks.  The operations are           *)
(* interchangeable: none is begun in any particular order.                 *)
EXTENDS Sessions, TLC

Interchangeable == Permutations(Tasks)
=============================================================================
