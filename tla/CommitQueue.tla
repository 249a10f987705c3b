---------------------------- MODULE CommitQueue ----------------------------
(* What the re-order buffer promises: a queue of at most CAPACITY micro-ops  *)
(* in program order.  They complete in any order; from the front, complete   *)
(* ones retire; a mispredicted one retires last and empties the queue.       *)
EXTENDS MicroOp, Sequences

CONSTANTS CAPACITY,
          INCOMING   \* the micro-ops that may enter

VARIABLES queue,     \* in program order
          retired    \* what left in the last cycle
vars == <<queue, retired>>

Init == queue = <<>> /\ retired = <<>>

\* r is q with some of its micro-ops completed.
MayComplete(q, r) ==
  /\ Len(r) = Len(q)
  /\ \A k \in DOMAIN q :
       \/ r[k] = q[k]
       \/ /\ ~q[k].complete
          /\ \E m \in {FALSE, q[k].br} :
               r[k] = [q[k] EXCEPT !.complete = TRUE, !.mispredict = m]

\* The first n complete and retire; unless the last of them was mispredicted,
\* the others stay, and new ones join behind them.
Next ==
  LET n    == Len(retired')
      kept == SubSeq(queue, n + 1, Len(queue))
  IN
  /\ n <= COMMIT_WIDTH /\ n <= Len(queue)
  /\ MayComplete(SubSeq(queue, 1, n), retired')
  /\ \A k \in 1..n : retired'[k].complete /\ (retired'[k].mispredict => k = n)
  /\ \/ /\ n > 0 /\ retired'[n].mispredict
        /\ queue' = <<>>
     \/ /\ \A k \in 1..n : ~retired'[k].mispredict
        /\ Len(queue') <= Len(kept) + RENAME_WIDTH /\ Len(queue') <= CAPACITY
        /\ MayComplete(kept, SubSeq(queue', 1, Len(kept)))
        /\ \A k \in (Len(kept) + 1)..Len(queue') : queue'[k] \in INCOMING

Spec == Init /\ [][Next]_vars
=============================================================================
