----------------------------- MODULE SkidStage -----------------------------
(* The pipeline register with a one-entry skid buffer that core.sv writes   *)
(* three times: between ID and RR, between RR and DP and between DP and IS. *)
(* A stage is [in, tmp, stall_prev]: the register the next stage reads, the *)
(* group saved in the first cycle of a stall, and the flag that remembers   *)
(* that the previous cycle was a stall.  `none' is the bubble (all zero).   *)

Stage(Group) == [in : Group, tmp : Group, stall_prev : BOOLEAN]

SkidReset(none) == [in |-> none, tmp |-> none, stall_prev |-> FALSE]

SkidNext_ClearKeepsTmp(s, clear, full, data, none) ==
  IF clear THEN [s EXCEPT !.in = none, !.stall_prev = FALSE]
  ELSE IF full /\ ~s.stall_prev THEN [in |-> none, tmp |-> data, stall_prev |-> TRUE]
  ELSE IF s.stall_prev /\ ~full THEN [in |-> s.tmp, tmp |-> none, stall_prev |-> FALSE]
  ELSE [s EXCEPT !.in = IF full THEN none ELSE data]

SkidNext_NeverDrains(s, clear, full, data, none) ==
  IF clear THEN SkidReset(none)
  ELSE IF full /\ ~s.stall_prev THEN [in |-> none, tmp |-> data, stall_prev |-> TRUE]
  ELSE IF s.stall_prev THEN [s EXCEPT !.in = none]
  ELSE [s EXCEPT !.in = data]

\* One clock edge of a stage: `data' is what the previous stage outputs in
\* this cycle, `full' its stall input, `clear' the flush (reset | clear).
SkidNext(s, clear, full, data, none) ==
  IF clear THEN SkidReset(none)
  ELSE IF full /\ ~s.stall_prev THEN [in |-> none, tmp |-> data, stall_prev |-> TRUE]
  ELSE IF s.stall_prev /\ ~full THEN [in |-> s.tmp, tmp |-> none, stall_prev |-> FALSE]
  ELSE IF full THEN [s EXCEPT !.in = none]
  ELSE [s EXCEPT !.in = data]
=============================================================================
