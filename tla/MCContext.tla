----------------------------- MODULE MCContext -----------------------------
(* Instances of Context for TLC.                                           *)
EXTENDS Context

NoExtras == <<>>
OneExtra == <<1>>
=============================================================================
