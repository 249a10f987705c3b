----------------------------- MODULE MCFrontEnd -----------------------------
(* FrontEnd for TLC: the constants are given in the .cfg files.              *)
EXTENDS FrontEnd
=============================================================================
