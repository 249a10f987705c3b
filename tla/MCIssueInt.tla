----------------------------- MODULE MCIssueInt -----------------------------
(* IssueInt for TLC: the constants are given in the .cfg files.              *)
EXTENDS IssueInt
=============================================================================
