----------------------------- MODULE MCSessions -----------------------------
(* Values for the constants of Sessions.                                       *)
EXTENDS Sessions

=============================================================================
