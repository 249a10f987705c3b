---------------------------- MODULE MCHostCall ------------------------------
(* Two calls that differ in number and argument.                             *)
EXTENDS HostCall

TwoCalls == <<[num |-> 1, arg |-> 5], [num |-> 2, arg |-> 6]>>
Reply(n, a) == -(10 * n + a)
=============================================================================
