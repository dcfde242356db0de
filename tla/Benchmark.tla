----------------------------- MODULE Benchmark -----------------------------
(***************************************************************************)
(* The serial benchmark as it runs: the script of module BenchMatrix and,  *)
(* while it waits for a process, the rayon threads of that process with    *)
(* the profiling switch of module Profile.  Every process begins with the  *)
(* atomics of its own; the environment is that of the shell the script was *)
(* started from.                                                           *)
(*                                                                         *)
(* Script and binary refuse PCS_PROFILE, and neither looks at              *)
(* MULCS_PROFILE, so env is TRUE when that is set.  The timers then print  *)
(* rows of their own between those of the measurements, and the validation *)
(* at the end of the script does not let them pass.                        *)
(***************************************************************************)
EXTENDS Profile, BenchMatrix, SequencesExt

VARIABLE process      \* the binary for Pairs[at]: "none" or "running"

benchmarkVars == <<vars, matrixVars, process>>

BenchmarkInit == Init /\ MatrixInit /\ process = "none"

\* The memory of a process begins and ends with it.
NoProcess ==
  /\ process' = "none"
  /\ history' = Statics
  /\ seen' = [t \in Thread |-> [a \in Atomics |-> 1]]
  /\ pc' = [t \in Thread |-> "idle"]
  /\ answers' = [t \in Thread |-> <<>>]
  /\ checked_env' = [t \in Thread |-> FALSE]

\* The user starts the script, from a shell that may have another environment.
Begin ==
  /\ \E r \in BOOLEAN : Start(r)
  /\ env' \in BOOLEAN
  /\ UNCHANGED <<history, seen, pc, answers, checked_env, process>>

Launch ==
  /\ process = "none"
  /\ Due
  /\ process' = "running"
  /\ UNCHANGED <<vars, matrixVars>>

\* A step of profiling_enabled, in some thread of the process.
Time ==
  /\ process = "running"
  /\ Next
  /\ UNCHANGED <<matrixVars, process>>

\* A timer that was told TRUE prints a row that names no backend first; one
\* row stands for those of all timers.
Profiled == \E t \in Thread : TRUE \in Answers(t)
TimerRow == Row("pcs_internal", "timer", "0")

\* As RunBinary, with the timer's row before the others or after them.
RunProfiled ==
  /\ Due
  /\ \E k \in {1, Len(Rows) + 1} :
       log' = InsertAt([i \in DOMAIN Rows |-> Row(Pairs[at], Rows[i], "pass")], k, TimerRow)
  /\ stage' = "append"
  /\ UNCHANGED <<csv, resume, at, runs, finished>>

Exit ==
  /\ process = "running"
  /\ \/ /\ \A t \in Thread : pc[t] = "idle"
        /\ IF Profiled THEN RunProfiled ELSE RunBinary
     \/ RunFailed
  /\ NoProcess
  /\ UNCHANGED env

\* The validation: a timer's row has too few columns.
Valid == \A k \in DOMAIN csv : csv[k] # TimerRow

Reject ==
  /\ stage = "loop"
  /\ at > Len(Pairs)
  /\ stage' = "idle"
  /\ UNCHANGED <<csv, resume, at, log, runs, finished>>

\* The script goes on by itself.
Proceed ==
  /\ process = "none"
  /\ \/ Skip
     \/ AppendRow
     \/ NextPair
     \/ Valid /\ Finish
     \/ ~ Valid /\ Reject
  /\ UNCHANGED <<vars, process>>

\* A kill of the script takes the process with it.
Kill ==
  /\ Interrupt
  /\ NoProcess
  /\ UNCHANGED env

BenchmarkNext == Begin \/ Launch \/ Time \/ Exit \/ Proceed \/ Kill

BenchmarkSpec == BenchmarkInit /\ [][BenchmarkNext]_benchmarkVars
---------------------------------------------------------------------------
\* The list for TLC: a pair and a next one.
TwoPairs == <<"mkzg8", "vela8">>
=============================================================================
