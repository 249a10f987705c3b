---------------------------- MODULE RemoteCalls -----------------------------
(* What the host promises a program: every system call is carried out once,  *)
(* in program order and with its own arguments, and returns its own answer.  *)
(* At most one call is under way, and the program stops after the last.      *)
EXTENDS Sequences, Naturals

CONSTANTS PROGRAM,       \* the calls of the program: a sequence of [num, arg]
          Answer(_, _)   \* what the host answers to a number and its argument

VARIABLES served,  \* the calls the host has carried out
          results, \* the answers the program has gone on with
          stopped

Init == served = <<>> /\ results = <<>> /\ stopped = FALSE

Serve ==
  /\ Len(served) = Len(results) /\ Len(served) < Len(PROGRAM) /\ ~stopped
  /\ served' = Append(served, PROGRAM[Len(served) + 1])
  /\ UNCHANGED <<results, stopped>>

Return ==
  LET c == Len(results) + 1 IN
  /\ Len(served) = c /\ ~stopped
  /\ results' = Append(results, Answer(PROGRAM[c].num, PROGRAM[c].arg))
  /\ UNCHANGED <<served, stopped>>

Stop ==
  /\ Len(results) = Len(PROGRAM) /\ ~stopped
  /\ stopped' = TRUE /\ UNCHANGED <<served, results>>

Spec == Init /\ [][Serve \/ Return \/ Stop]_<<served, results, stopped>>
=============================================================================
