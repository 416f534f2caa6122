---------------------------- MODULE BenchmarkRun ----------------------------
(* One benchmark run (eval benchmark) and a reviewer who asks for its report *)
(* (eval report) while it may still be going on.                             *)
(*                                                                           *)
(* A run leaves evidence in four places that no transaction spans: its row   *)
(* in benchmark_runs, run.json, metrics.json and its provenance row.  The    *)
(* command writes them in an order, inside a block that turns SIGINT and     *)
(* SIGTERM into exceptions; a signal, a failed write or a failed query sends *)
(* it to a handler that writes the failure into the same places, and the     *)
(* handler can be disturbed again.  Files are overwritten in place, so a     *)
(* write that is cut short leaves a torn file; a row is one transaction.     *)
(*                                                                           *)
(* Abstracted: of the cases only how many were executed; of a document its   *)
(* status, its number of cases and whether it names its own path (it is      *)
(* written once without and once with it); of a row whether it names run.json*)
(* and metrics.json.  Runs do not meet: each has its own run id.             *)
EXTENDS Integers

CONSTANTS Cases,        \* the number of cases of the dataset
          MaxSignals,   \* bound: signals sent to the process
          MaxFailures,  \* bound: queries and writes that fail
          Null, Torn

Rows == [status: {"running", "succeeded", "failed"}, completed: 0..Cases,
         artifact: BOOLEAN, metrics: BOOLEAN]
Documents == [status: {"succeeded", "failed"}, cases: 0..Cases, linked: BOOLEAN]

ASSUME CasesAssumption == Cases \in Nat
ASSUME BoundsAssumption == MaxSignals \in Nat /\ MaxFailures \in Nat
ASSUME NullAssumption == /\ Null \notin Rows \cup Documents
                         /\ Torn \notin Documents \cup {Null}

VARIABLES pc,          \* where the command is
          ending,      \* the status its finalization writes
          done,        \* the number of executed cases
          row,         \* its row in benchmark_runs, or Null
          artifact,    \* run.json: Null, Torn or a document
          metrics,     \* metrics.json: Null, Torn or a document
          provenance,  \* whether its provenance row is there
          signals, failures,
          report       \* where the reviewer's command is
vars == <<pc, ending, done, row, artifact, metrics, provenance, signals, failures,
          report>>
evidence == <<row, artifact, metrics, provenance>>
counters == <<signals, failures>>

-----------------------------------------------------------------------------
(* The steps of the command, and where a disturbance leads from each. *)

(* Mutant: the metrics are calculated inside the trap, too. *)
ExecutingThroughMetrics == {"create", "case", "count", "write", "relink", "finalize",
    "provenance", "leave", "measure", "metrics", "relink_metrics", "remember", "result"}

Executing == {"create", "case", "count", "write", "relink", "finalize", "provenance",
              "leave"}
Finalizing == {"write", "relink", "finalize", "finalized"}
Measuring == {"measure", "metrics", "relink_metrics", "remember", "result"}
Handling == {"check", "fallback"}
Places == Executing \cup Finalizing \cup Measuring \cup Handling
            \cup {"start", "ended", "dead"}
Alive == Places \ {"ended", "dead"}

(* Steps that reach a database, a file or an index, and so may fail. *)
Fallible == Alive \ {"start", "leave", "finalized", "result"}

Row(status, completed, linked, measured) ==
    [status |-> status, completed |-> completed, artifact |-> linked, metrics |-> measured]
Document(status, linked) == [status |-> status, cases |-> done, linked |-> linked]

Begin ==
    /\ pc = "start"
    /\ pc' = "create"
    /\ UNCHANGED <<ending, done, evidence, counters, report>>

(* The dataset or the baseline is refused before anything is recorded. *)
Refuse ==
    /\ pc = "start"
    /\ pc' = "ended"
    /\ UNCHANGED <<ending, done, evidence, counters, report>>

(* Mutant: off by one. *)
NextCaseInclusive(n) == IF n <= Cases THEN "case" ELSE "write"

NextCase(n) == IF n < Cases THEN "case" ELSE "write"

CreateRun ==
    /\ pc = "create"
    /\ row' = Row("running", 0, FALSE, FALSE)
    /\ pc' = NextCase(0)
    /\ UNCHANGED <<ending, done, artifact, metrics, provenance, counters, report>>

ExecuteCase ==
    /\ pc = "case"
    /\ done' = done + 1
    /\ pc' = "count"
    /\ UNCHANGED <<ending, evidence, counters, report>>

CountCase ==
    /\ pc = "count"
    /\ row' = Row("running", done, FALSE, FALSE)
    /\ pc' = NextCase(done)
    /\ UNCHANGED <<ending, done, artifact, metrics, provenance, counters, report>>

(* Finalization, of a succeeded and of a failed run: run.json is written     *)
(* without and then with its own path, and the row follows.                  *)
WriteArtifact ==
    /\ \/ /\ pc = "write"
          /\ artifact' = Document(ending, FALSE)
          /\ pc' = "relink"
       \/ /\ pc = "relink"
          /\ artifact' = Document(ending, TRUE)
          /\ pc' = "finalize"
    /\ UNCHANGED <<ending, done, row, metrics, provenance, counters, report>>

(* Mutant: a failure is only written to run.json. *)
FinalizeSucceededOnly ==
    /\ pc = "finalize"
    /\ row' = IF ending = "succeeded" THEN Row(ending, done, TRUE, FALSE) ELSE row
    /\ pc' = IF ending = "succeeded" THEN "provenance" ELSE "finalized"
    /\ UNCHANGED <<ending, done, artifact, metrics, provenance, counters, report>>

Finalize ==
    /\ pc = "finalize"
    /\ row' = Row(ending, done, TRUE, FALSE)
    /\ pc' = IF ending = "succeeded" THEN "provenance" ELSE "finalized"
    /\ UNCHANGED <<ending, done, artifact, metrics, provenance, counters, report>>

RecordProvenance ==
    /\ pc = "provenance"
    /\ provenance' = TRUE
    /\ pc' = "leave"
    /\ UNCHANGED <<ending, done, row, artifact, metrics, counters, report>>

(* The end of the block that traps the signals. *)
LeaveTrap ==
    /\ pc = "leave"
    /\ pc' = "measure"
    /\ UNCHANGED <<ending, done, evidence, counters, report>>

-----------------------------------------------------------------------------
(* The metrics, after the trap. *)

RowIsComplete ==
    /\ row # Null
    /\ row.status = "succeeded"
    /\ row.completed = Cases
    /\ row.artifact

ArtifactIsComplete ==
    /\ artifact \notin {Null, Torn}
    /\ artifact.status = "succeeded"
    /\ artifact.cases = Cases
    /\ artifact.linked

Measure ==
    /\ pc = "measure"
    /\ pc' = IF RowIsComplete /\ ArtifactIsComplete THEN "metrics" ELSE "ended"
    /\ UNCHANGED <<ending, done, evidence, counters, report>>

WriteMetrics ==
    /\ \/ /\ pc = "metrics"
          /\ metrics' = Document("succeeded", FALSE)
          /\ pc' = "relink_metrics"
       \/ /\ pc = "relink_metrics"
          /\ metrics' = Document("succeeded", TRUE)
          /\ pc' = "remember"
    /\ UNCHANGED <<ending, done, row, artifact, provenance, counters, report>>

RememberMetrics ==
    /\ pc = "remember"
    /\ row' = [row EXCEPT !.metrics = TRUE]
    /\ pc' = "result"
    /\ UNCHANGED <<ending, done, artifact, metrics, provenance, counters, report>>

End ==
    /\ pc \in {"finalized", "result"}
    /\ pc' = "ended"
    /\ UNCHANGED <<ending, done, evidence, counters, report>>

-----------------------------------------------------------------------------
(* The handler. *)

(* Mutant: only a run with an executed case is finalized as failed. *)
CheckAnyCase ==
    /\ pc = "check"
    /\ \/ /\ row = Null \/ done = 0
          /\ pc' = "ended"
          /\ ending' = ending
       \/ /\ row # Null /\ done > 0
          /\ pc' = "write"
          /\ ending' = "failed"
    /\ UNCHANGED <<done, evidence, counters, report>>

(* A failure is finalized only for a run whose row was created. *)
CheckStarted ==
    /\ pc = "check"
    /\ \/ /\ row = Null
          /\ pc' = "ended"
          /\ ending' = ending
       \/ /\ row # Null
          /\ pc' = "write"
          /\ ending' = "failed"
    /\ UNCHANGED <<done, evidence, counters, report>>

(* Mutants: the row keeps its stored count, its path, or starts from nothing. *)
FallBackStoredCount ==
    /\ pc = "fallback"
    /\ row' = Row("failed", row.completed, FALSE, FALSE)
    /\ pc' = "ended"
    /\ UNCHANGED <<ending, done, artifact, metrics, provenance, counters, report>>
FallBackStoredPath ==
    /\ pc = "fallback"
    /\ row' = Row("failed", done, row.artifact, FALSE)
    /\ pc' = "ended"
    /\ UNCHANGED <<ending, done, artifact, metrics, provenance, counters, report>>
FallBackWithoutCount ==
    /\ pc = "fallback"
    /\ row' = Row("failed", 0, FALSE, FALSE)
    /\ pc' = "ended"
    /\ UNCHANGED <<ending, done, artifact, metrics, provenance, counters, report>>

(* Finalizing the failure was disturbed: at least the row must say it. *)
FallBackToRow ==
    /\ pc = "fallback"
    /\ row' = Row("failed", done, FALSE, FALSE)
    /\ pc' = "ended"
    /\ UNCHANGED <<ending, done, artifact, metrics, provenance, counters, report>>

-----------------------------------------------------------------------------
(* Disturbances: a signal, a failing call, the death of the process. *)

(* Where the command goes on when p raises. *)
RaisedAt(p) ==
    IF p \in Executing /\ ending = "succeeded" THEN "check"
    ELSE IF p \in Finalizing /\ ending = "failed" THEN "fallback"
    ELSE "ended"

(* A file that was being written is torn, unless it was not opened yet. *)
CutShort ==
    /\ artifact' \in IF pc \in {"write", "relink"} THEN {artifact, Torn} ELSE {artifact}
    /\ metrics' \in IF pc \in {"metrics", "relink_metrics"} THEN {metrics, Torn} ELSE {metrics}
    /\ UNCHANGED <<ending, done, row, provenance, report>>

Signal ==
    /\ pc \in Alive
    /\ signals < MaxSignals
    /\ signals' = signals + 1
    /\ pc' = RaisedAt(pc)
    /\ CutShort
    /\ UNCHANGED failures

Failure ==
    /\ pc \in Fallible
    /\ failures < MaxFailures
    /\ failures' = failures + 1
    /\ pc' = RaisedAt(pc)
    /\ CutShort
    /\ UNCHANGED signals

Kill ==
    /\ pc \in Alive
    /\ pc' = "dead"
    /\ CutShort
    /\ UNCHANGED counters

-----------------------------------------------------------------------------
(* The reviewer's command: it reads the row, the two files and the           *)
(* provenance one after the other and gives up at the first it cannot accept.*)

Look(at, acceptable, next) ==
    /\ report = at
    /\ report' = IF acceptable THEN next ELSE "idle"
    /\ UNCHANGED <<pc, ending, done, evidence, counters>>

ReadRow == Look("idle", RowIsComplete /\ row.metrics, "artifact")
ReadArtifact == Look("artifact", ArtifactIsComplete, "metrics")
ReadMetrics ==
    Look("metrics",
         /\ metrics \notin {Null, Torn}
         /\ metrics.status = "succeeded" /\ metrics.cases = Cases /\ metrics.linked,
         "provenance")
ReadProvenance == Look("provenance", provenance, "written")

-----------------------------------------------------------------------------
Init ==
    /\ pc = "start"
    /\ ending = "succeeded"
    /\ done = 0
    /\ row = Null /\ artifact = Null /\ metrics = Null
    /\ provenance = FALSE
    /\ signals = 0 /\ failures = 0
    /\ report = "idle"

Command ==
    \/ Begin \/ Refuse \/ CreateRun \/ ExecuteCase \/ CountCase
    \/ WriteArtifact \/ Finalize \/ RecordProvenance \/ LeaveTrap
    \/ Measure \/ WriteMetrics \/ RememberMetrics \/ End
    \/ CheckStarted \/ FallBackToRow
Reviewer == ReadRow \/ ReadArtifact \/ ReadMetrics \/ ReadProvenance
Next == Command \/ Signal \/ Failure \/ Kill \/ Reviewer

Spec == Init /\ [][Next]_vars

(* The command runs on; whether anybody asks for a report is open. *)
FairSpec == Spec /\ WF_vars(Command)

-----------------------------------------------------------------------------
(* Properties. *)

(* The type of the state; the reviewer's steps and the command's are known. *)
TypeOK ==
    /\ pc \in Places
    /\ ending \in {"succeeded", "failed"}
    /\ done \in 0..Cases
    /\ row \in {Null} \cup Rows
    /\ artifact \in {Null, Torn} \cup Documents
    /\ metrics \in {Null, Torn} \cup Documents
    /\ provenance \in BOOLEAN
    /\ signals \in 0..MaxSignals /\ failures \in 0..MaxFailures
    /\ report \in {"idle", "artifact", "metrics", "provenance", "written"}

(* The row, as those who read it see it. *)
Ledger == INSTANCE BenchmarkLedger WITH
    status <- IF row = Null THEN "absent" ELSE row.status,
    completed <- IF row = Null THEN 0 ELSE row.completed,
    measured <- IF row = Null THEN FALSE ELSE row.metrics

(* Through every disturbance the row keeps what BenchmarkLedger promises:    *)
(* the row is never reopened, never loses a counted case, succeeds only when *)
(* complete, and does not change any more once it names its metrics.         *)
KeepsLedger == Ledger!Spec

(* A report that was written describes a run that succeeded for good: every  *)
(* case executed, the row, run.json, metrics.json and the provenance in      *)
(* place and in agreement, and no later interruption takes any of it back.   *)
ReportsAreFinal ==
    report = "written" =>
        /\ RowIsComplete /\ row.metrics
        /\ ArtifactIsComplete
        /\ metrics \notin {Null, Torn} /\ metrics.cases = Cases
        /\ provenance

(* A failed run's row counts every case that was executed, also the one      *)
(* whose count was not yet stored when the run was disturbed.                *)
FailedRowsCountEveryCase ==
    (row # Null /\ row.status = "failed") => row.completed = done

IsRunning == row # Null /\ row.status = "running"

(* A command that came to its end, disturbed at most once on the way, leaves *)
(* no row that says the run is still going on.                               *)
OneDisturbanceLeavesNoOrphan ==
    (pc = "ended" /\ signals + failures <= 1) => ~IsRunning

(* Unless the process was killed or disturbed three times, the run.json that *)
(* a finished run's row names is whole and tells the same outcome.           *)
RowNamesItsEvidence ==
    (pc = "ended" /\ signals + failures <= 2 /\ row # Null /\ row.artifact) =>
        /\ artifact \notin {Null, Torn}
        /\ artifact.linked
        /\ artifact.status = row.status
        /\ artifact.cases = row.completed

(* A started run is concluded: its row stops saying "running", unless the    *)
(* process is killed or its handler is disturbed, too.                       *)
RunsAreConcluded ==
    IsRunning ~> (~IsRunning \/ pc = "dead" \/ signals + failures > 1)

(* docs/benchmarks.md: the row moves running -> succeeded or running ->      *)
(* failed, so a succeeded run stays succeeded.                               *)
SucceededIsFinal ==
    [][(row # Null /\ row.status = "succeeded") => row'.status = "succeeded"]_vars
=============================================================================
