------------------------------ MODULE Profile ------------------------------
(***************************************************************************)
(* The profiling switch of subroutines/src/pcs/profile.rs: every rayon     *)
(* thread that opens a timer asks profiling_enabled, which reads the       *)
(* environment once and keeps the answer in two atomics, PROFILE_ACTIVE    *)
(* and PROFILE_CHECKED, with Ordering::Relaxed throughout.                 *)
(*                                                                         *)
(* Relaxed accesses to different atomics are not ordered between threads.  *)
(* Each atomic has its history of stores; a load returns any store not     *)
(* older than the last one of that atomic the thread has seen or made.     *)
(* emit_header_once of the same file has no caller and is left out.        *)
(***************************************************************************)
EXTENDS Naturals, Sequences

CONSTANTS
  Thread,
  MaxCalls      \* bound on the calls of profiling_enabled by one thread

Atomics == {"ACTIVE", "CHECKED"}

VARIABLES
  env,          \* PCS_PROFILE or MULCS_PROFILE is "1"
  history,      \* each atomic's stores, oldest first
  seen,         \* position of the newest store a thread has seen
  pc,           \* where a thread is in profiling_enabled
  answers,      \* what profiling_enabled returned to each thread
  checked_env   \* the thread has read the environment itself

vars == <<env, history, seen, pc, answers, checked_env>>

\* Mutant: the switch starts on.
StaticsOn == [a \in Atomics |-> <<a = "ACTIVE">>]

\* Both atomics of a process start off.
Statics == [a \in Atomics |-> <<FALSE>>]

Init ==
  /\ env \in BOOLEAN
  /\ history = Statics
  /\ seen = [t \in Thread |-> [a \in Atomics |-> 1]]
  /\ pc = [t \in Thread |-> "idle"]
  /\ answers = [t \in Thread |-> <<>>]
  /\ checked_env = [t \in Thread |-> FALSE]

\* Mutant: a thread may read what it knows to be overwritten.
VisibleAgain(t, a) == 1 .. Len(history[a])

\* The stores thread t may read from.
Visible(t, a) == seen[t][a] .. Len(history[a])

Load(t, a, k) == seen' = [seen EXCEPT ![t][a] = k]

\* Mutant: the store is lost.
StoreLost(t, a, value) ==
  /\ UNCHANGED history
  /\ seen' = [seen EXCEPT ![t][a] = Len(history[a]) + 1]

Store(t, a, value) ==
  /\ history' = [history EXCEPT ![a] = Append(@, value)]
  /\ seen' = [seen EXCEPT ![t][a] = Len(history[a]) + 1]

Goto(t, label) == pc' = [pc EXCEPT ![t] = label]
Return(t, value) == answers' = [answers EXCEPT ![t] = Append(@, value)]

---------------------------------------------------------------------------
(* profiling_enabled                                                       *)

LoadChecked(t) ==
  /\ pc[t] = "idle"
  /\ Len(answers[t]) < MaxCalls
  /\ \E k \in Visible(t, "CHECKED") :
       /\ Load(t, "CHECKED", k)
       /\ Goto(t, IF history["CHECKED"][k] THEN "load" ELSE "store")
  /\ UNCHANGED <<env, history, answers, checked_env>>

\* Mutant: checked is published before the answer is stored.
StoreActiveForgotten(t) ==
  /\ pc[t] = "store"
  /\ Goto(t, "publish")
  /\ UNCHANGED <<env, history, seen, answers, checked_env>>

\* Reading the environment has no effect but its result.
StoreActive(t) ==
  /\ pc[t] = "store"
  /\ Store(t, "ACTIVE", env)
  /\ Goto(t, "publish")
  /\ UNCHANGED <<env, answers, checked_env>>

StoreChecked(t) ==
  /\ pc[t] = "publish"
  /\ Store(t, "CHECKED", TRUE)
  /\ Return(t, env)
  /\ checked_env' = [checked_env EXCEPT ![t] = TRUE]
  /\ Goto(t, "idle")
  /\ UNCHANGED env

LoadActive(t) ==
  /\ pc[t] = "load"
  /\ \E k \in Visible(t, "ACTIVE") :
       /\ Load(t, "ACTIVE", k)
       /\ Return(t, history["ACTIVE"][k])
  /\ Goto(t, "idle")
  /\ UNCHANGED <<env, history, checked_env>>

---------------------------------------------------------------------------
Next ==
  \E t \in Thread :
    \/ LoadChecked(t)
    \/ StoreActive(t)
    \/ StoreChecked(t)
    \/ LoadActive(t)

Spec == Init /\ [][Next]_vars
---------------------------------------------------------------------------
\* Types: what a thread has seen of an atomic is one of its stores.
TypeOK ==
  /\ \A t \in Thread :
       /\ pc[t] \in {"idle", "store", "publish", "load"}
       /\ \A a \in Atomics : seen[t][a] \in 1 .. Len(history[a])
       /\ answers[t] \in Seq(BOOLEAN)

Answers(t) == {answers[t][k] : k \in DOMAIN answers[t]}

\* Profiling is never switched on by accident: with the variable unset every
\* call returns false, however the loads and stores of the threads mix.
NeverOnByAccident ==
  ~ env => \A t \in Thread : TRUE \notin Answers(t)

\* A thread that has read the environment itself never forgets the answer.
OwnAnswerStays ==
  \A t \in Thread :
    (checked_env[t] /\ answers[t] # <<>>) => answers[t][Len(answers[t])] = env

\* The answer of a thread changes at most once, and only to the right one.
NeverTurnsWrong ==
  [][\A t \in Thread :
       (env \in Answers(t) /\ Len(answers[t]') > Len(answers[t]))
         => answers[t]'[Len(answers[t]')] = env]_vars

\* "Controlled by env var": every call returns what the environment says.
ControlledByEnv ==
  \A t \in Thread : Answers(t) \subseteq {env}
=============================================================================
