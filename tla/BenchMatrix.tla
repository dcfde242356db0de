---------------------------- MODULE BenchMatrix ----------------------------
(***************************************************************************)
(* The serial benchmark runner scripts/run_pcs_single_open_matrix.sh with  *)
(* the binary it starts for each backend and size,                         *)
(* subroutines/src/bin/pcs_single_open_bench.rs.  The script may be        *)
(* stopped at any moment and started again, with or without                *)
(* PCS_BENCH_RESUME; the CSV file is all that survives.                    *)
(***************************************************************************)
EXTENDS Naturals, Sequences, FiniteSets

CONSTANTS
  Pairs,        \* the (backend, nv) pairs of the two loops, in order
  MaxRuns       \* bound on how often the script is started

\* The script walks its two lists as they are; a backend or size named twice
\* in them would be measured twice.
ASSUME PairsAssumption ==
  /\ Pairs \in Seq({Pairs[k] : k \in DOMAIN Pairs})
  /\ \A k, l \in DOMAIN Pairs : Pairs[k] = Pairs[l] => k = l
  /\ MaxRuns \in Nat

\* The rows one process prints, in order (legacy rows are off by default).
Rows == <<"srs", "trim", "commit", "core_open", "verify_core_mean",
          "verify_core_median">>

VARIABLES
  csv,          \* data rows of the CSV file: [pair, phase, status]
  stage,        \* "idle", "loop" or "append"
  resume,       \* RESUME
  at,           \* position in Pairs
  log,          \* rows of the process's log still to be appended
  runs,         \* times the script was started
  finished      \* the last run came to its end

matrixVars == <<csv, stage, resume, at, log, runs, finished>>

MatrixInit ==
  /\ csv = <<>>
  /\ stage = "idle"
  /\ resume = FALSE
  /\ at = 0
  /\ log = <<>>
  /\ runs = 0
  /\ finished = FALSE

\* Without RESUME, or with no file yet, the file starts again with its header.
Start(r) ==
  /\ stage = "idle"
  /\ runs < MaxRuns
  /\ runs' = runs + 1
  /\ resume' = r
  /\ csv' = IF r /\ runs > 0 THEN csv ELSE <<>>
  /\ stage' = "loop"
  /\ at' = 1
  /\ log' = <<>>
  /\ finished' = FALSE

Row(pair, phase, status) == [pair |-> pair, phase |-> phase, status |-> status]

\* Mutant: the filter looks for the last row of a process.
CompletedLate(pair) ==
  \E k \in DOMAIN csv : csv[k] = Row(pair, "verify_core_median", "pass")

\* The awk filter of the resumed loop.
Completed(pair) ==
  \E k \in DOMAIN csv : csv[k] = Row(pair, "core_open", "pass")

Skip ==
  /\ stage = "loop"
  /\ at <= Len(Pairs)
  /\ resume
  /\ Completed(Pairs[at])
  /\ at' = at + 1
  /\ UNCHANGED <<csv, stage, resume, log, runs, finished>>

Due ==
  /\ stage = "loop"
  /\ at <= Len(Pairs)
  /\ ~ (resume /\ Completed(Pairs[at]))

\* The process ran to its end; its rows are appended after that, one by one.
RunBinary ==
  /\ Due
  /\ log' = [k \in DOMAIN Rows |-> Row(Pairs[at], Rows[k], "pass")]
  /\ stage' = "append"
  /\ UNCHANGED <<csv, resume, at, runs, finished>>

\* Mutant: no row for a failure.
RunFailedSilently ==
  /\ Due
  /\ at' = at + 1
  /\ UNCHANGED <<csv, stage, resume, log, runs, finished>>

\* It failed: nothing of its log is kept, one synthetic row says so.
RunFailed ==
  /\ Due
  /\ csv' = Append(csv, Row(Pairs[at], "runner", "failed"))
  /\ at' = at + 1
  /\ UNCHANGED <<stage, resume, log, runs, finished>>

\* Mutant: a row is read and not written.
AppendRowLosing ==
  /\ stage = "append"
  /\ log # <<>>
  /\ csv' = IF Len(log) = 3 THEN csv ELSE Append(csv, Head(log))
  /\ log' = Tail(log)
  /\ UNCHANGED <<stage, resume, at, runs, finished>>

AppendRow ==
  /\ stage = "append"
  /\ log # <<>>
  /\ csv' = Append(csv, Head(log))
  /\ log' = Tail(log)
  /\ UNCHANGED <<stage, resume, at, runs, finished>>

NextPair ==
  /\ stage = "append"
  /\ log = <<>>
  /\ stage' = "loop"
  /\ at' = at + 1
  /\ UNCHANGED <<csv, resume, log, runs, finished>>

Finish ==
  /\ stage = "loop"
  /\ at > Len(Pairs)
  /\ stage' = "idle"
  /\ finished' = TRUE
  /\ UNCHANGED <<csv, resume, at, log, runs>>

\* Mutant: the unread rest of the log is found again by the next run.
InterruptKeepingLog ==
  /\ stage # "idle"
  /\ stage' = "idle"
  /\ UNCHANGED <<csv, resume, at, log, runs, finished>>

\* The script is killed, between any two of its steps.
Interrupt ==
  /\ stage # "idle"
  /\ stage' = "idle"
  /\ log' = <<>>
  /\ UNCHANGED <<csv, resume, at, runs, finished>>

MatrixNext ==
  \/ \E r \in BOOLEAN : Start(r)
  \/ Skip
  \/ RunBinary
  \/ RunFailed
  \/ AppendRow
  \/ NextPair
  \/ Finish
  \/ Interrupt

MatrixSpec == MatrixInit /\ [][MatrixNext]_matrixVars
---------------------------------------------------------------------------
\* Types: a log is only there while its process's rows are appended.
MatrixTypeOK ==
  /\ stage \in {"idle", "loop", "append"}
  /\ at \in 0 .. Len(Pairs) + 1
  /\ runs \in 0 .. MaxRuns
  /\ log # <<>> => stage = "append"

CountOf(pair, phase, status) ==
  Cardinality({k \in DOMAIN csv : csv[k] = Row(pair, phase, status)})

\* However often runs are stopped and resumed, no measurement is made twice:
\* a pair has at most one core_open row, so a resumed file never mixes two
\* timings of one opening.
OpenedOnce ==
  \A k \in DOMAIN Pairs : CountOf(Pairs[k], "core_open", "pass") <= 1

\* A run that comes to its end accounts for every pair, the skipped ones
\* included: by an opening, or by a row that reports its failure.
EveryPairAccounted ==
  finished => \A k \in DOMAIN Pairs :
                CountOf(Pairs[k], "core_open", "pass")
                  + CountOf(Pairs[k], "runner", "failed") > 0

\* A run that starts a file and comes to its end has for each pair all its
\* rows, once, or one row that reports its failure: no line of a process's
\* log is lost or doubled on its way into the file.
UninterruptedIsWhole ==
  (finished /\ runs = 1) =>
    \A k \in DOMAIN Pairs :
      \/ \A p \in DOMAIN Rows : CountOf(Pairs[k], Rows[p], "pass") = 1
      \/ CountOf(Pairs[k], "runner", "failed") = 1

\* "set to 1 to append only missing backend/NV pairs": once a resumed run
\* has come to its end, each pair has all its rows, once, or has failed.
ResumedIsWhole ==
  (finished /\ resume) =>
    \A k \in DOMAIN Pairs :
      \/ \A p \in DOMAIN Rows : CountOf(Pairs[k], Rows[p], "pass") = 1
      \/ CountOf(Pairs[k], "runner", "failed") > 0
=============================================================================
