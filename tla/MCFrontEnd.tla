----------------------------- MODULE MCFrontEnd -----------------------------
(* Model values for the run of FrontEnd. *)
EXTENDS FrontEnd
=============================================================================
