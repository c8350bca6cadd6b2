------------------------------ MODULE MCTrace ------------------------------
(* Instance of Trace for TLC: the user's loop may retry a request, the     *)
(* sub-agent's may not.                                                    *)
EXTENDS Trace

MCIters == [a \in 0..Jobs |-> 1]
MCAttempts == [a \in 0..Jobs |-> IF a = 0 THEN 2 ELSE 1]
=============================================================================
