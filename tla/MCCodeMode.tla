------------------------------ MODULE MCCodeMode ------------------------------
(* The instance of CodeMode that TLC checks; its bounds are in the cfg.    *)
EXTENDS CodeMode, TLC
=============================================================================
