----------------------------- MODULE RowSource -----------------------------
(***************************************************************************)
(* What an adapter's stream() promises its consumer: the rows of the       *)
(* result set one by one and in order, and an end that is reported as the  *)
(* end of the result set only if it is.                                    *)
(***************************************************************************)
EXTENDS Naturals

VARIABLES
  open,      \* a consumer iterates over a result set
  length,    \* how many rows the result set has
  taken,     \* number of the row the consumer got last
  outcome    \* how the last iteration ended

Init == open = FALSE /\ length = 0 /\ taken = 0 /\ outcome = "none"

Open ==
  /\ ~open
  /\ open' = TRUE /\ length' \in Nat /\ taken' = 0 /\ outcome' = "none"

Yield ==
  /\ open /\ taken < length
  /\ taken' = taken + 1
  /\ UNCHANGED << open, length, outcome >>

Close ==
  /\ open
  /\ open' = FALSE
  /\ outcome' \in { "ended", "failed", "cancelled", "left" }
  /\ outcome' = "ended" => taken = length
  /\ UNCHANGED << length, taken >>

Next == Open \/ Yield \/ Close

Spec == Init /\ [][Next]_<< open, length, taken, outcome >>
=============================================================================
