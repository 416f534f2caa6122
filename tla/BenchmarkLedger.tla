--------------------------- MODULE BenchmarkLedger ---------------------------
(* What the row of a benchmark run promises to whoever lists, reports or     *)
(* compares runs: it is opened at zero cases, counts up one case at a time,  *)
(* is concluded as succeeded only when every case was counted, may still be  *)
(* taken back as failed, and never changes again once it has its metrics.    *)
EXTENDS Integers

CONSTANT Cases

VARIABLES status, completed, measured
ledger == <<status, completed, measured>>

Init == status = "absent" /\ completed = 0 /\ ~measured

Open ==
    /\ status = "absent"
    /\ status' = "running"
    /\ UNCHANGED <<completed, measured>>

Count ==
    /\ status = "running"
    /\ completed < Cases
    /\ completed' = completed + 1
    /\ UNCHANGED <<status, measured>>

Succeed ==
    /\ status = "running"
    /\ completed = Cases
    /\ status' = "succeeded"
    /\ UNCHANGED <<completed, measured>>

(* At most the one case that was executed and not yet counted is added. *)
Fail ==
    /\ status \in {"running", "succeeded"}
    /\ ~measured
    /\ status' = "failed"
    /\ completed' \in {completed, completed + 1}
    /\ completed' <= Cases
    /\ UNCHANGED measured

Measure ==
    /\ status = "succeeded"
    /\ ~measured
    /\ measured' = TRUE
    /\ UNCHANGED <<status, completed>>

Next == Open \/ Count \/ Succeed \/ Fail \/ Measure

Spec == Init /\ [][Next]_ledger
=============================================================================
