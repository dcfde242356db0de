-------------------------- MODULE BenchmarkProofs --------------------------
(***************************************************************************)
(* Theorems about what runs around a measurement: what the relaxed atomics *)
(* of module Profile still guarantee, for any number of threads and calls  *)
(* (the one thing they do not, ControlledByEnv, is refuted by TLC), and    *)
(* the script of module BenchMatrix, for every list of pairs and however   *)
(* often it is stopped and started.                                        *)
(***************************************************************************)
EXTENDS Profile, BenchMatrix, SequenceTheorems, FiniteSetTheorems, TLAPS

---------------------------------------------------------------------------
(* The profiling switch.                                                   *)

Labels == {"idle", "store", "publish", "load"}

Typing ==
  /\ env \in BOOLEAN
  /\ history \in [Atomics -> Seq(BOOLEAN)]
  /\ seen \in [Thread -> [Atomics -> Nat]]
  /\ pc \in [Thread -> Labels]
  /\ answers \in [Thread -> Seq(BOOLEAN)]
  /\ checked_env \in [Thread -> BOOLEAN]
  /\ \A t \in Thread : \A a \in Atomics :
       1 <= seen[t][a] /\ seen[t][a] <= Len(history[a])
  /\ \A a \in Atomics : 1 <= Len(history[a])

\* After the initial FALSE, only the answer of the environment is ever stored.
Truth ==
  /\ history["ACTIVE"][1] = FALSE
  /\ \A k \in Nat : 2 <= k /\ k <= Len(history["ACTIVE"]) => history["ACTIVE"][k] = env

\* A thread that has stored the answer, or was told TRUE, has seen a store.
Knowledge ==
  \A t \in Thread :
    /\ (pc[t] = "publish" \/ checked_env[t]) => 2 <= seen[t]["ACTIVE"]
    /\ \A k \in DOMAIN answers[t] :
         answers[t][k] = TRUE => env = TRUE /\ 2 <= seen[t]["ACTIVE"]
    /\ (checked_env[t] /\ answers[t] # <<>>) => answers[t][Len(answers[t])] = env

IInv == Typing /\ Truth /\ Knowledge

---------------------------------------------------------------------------
\* What appending does to a sequence, position by position.
LEMMA Appended ==
  ASSUME NEW s \in Seq(BOOLEAN), NEW v \in BOOLEAN
  PROVE  /\ Append(s, v) \in Seq(BOOLEAN)
         /\ Len(Append(s, v)) = Len(s) + 1
         /\ Len(s) \in Nat
         /\ \A k \in Nat : 1 <= k /\ k <= Len(s) => Append(s, v)[k] = s[k]
         /\ Append(s, v)[Len(s) + 1] = v
         /\ DOMAIN s = 1 .. Len(s)
         /\ DOMAIN Append(s, v) = 1 .. Len(s) + 1
         /\ Append(s, v) # <<>>
OBVIOUS

LEMMA InitIInv == Init => IInv
<1> SUFFICES ASSUME Init PROVE IInv
  OBVIOUS
<1>1. \A a \in Atomics : history[a] = <<FALSE>>
  BY DEF Init, Statics
<1>2. /\ <<FALSE>> \in Seq(BOOLEAN)
      /\ Len(<<FALSE>>) = 1
      /\ <<FALSE>>[1] = FALSE
  OBVIOUS
<1>3. Typing
  BY <1>1, <1>2 DEF Init, Statics, Typing, Labels, Atomics
<1>4. Truth
  <2>1. history["ACTIVE"] = <<FALSE>>
    BY <1>1 DEF Atomics
  <2> QED
    BY <1>2, <2>1 DEF Truth
<1>5. Knowledge
  <2>1. \A t \in Thread : pc[t] = "idle" /\ ~ checked_env[t] /\ answers[t] = <<>>
    BY DEF Init, Statics
  <2>2. \A k \in DOMAIN <<>> : FALSE
    OBVIOUS
  <2> QED
    BY <2>1, <2>2 DEF Knowledge
<1> QED
  BY <1>3, <1>4, <1>5 DEF IInv

\* A store appends to one history and is seen by the thread that made it.
LEMMA StoreFacts ==
  ASSUME Typing, NEW t \in Thread, NEW a \in Atomics, NEW v \in BOOLEAN,
         Store(t, a, v)
  PROVE  /\ history' \in [Atomics -> Seq(BOOLEAN)]
         /\ seen' \in [Thread -> [Atomics -> Nat]]
         /\ history'[a] = Append(history[a], v)
         /\ \A b \in Atomics : b # a => history'[b] = history[b]
         /\ seen'[t][a] = Len(history[a]) + 1
         /\ \A u \in Thread : \A b \in Atomics :
              u # t \/ b # a => seen'[u][b] = seen[u][b]
         /\ \A u \in Thread : \A b \in Atomics :
              1 <= seen'[u][b] /\ seen'[u][b] <= Len(history'[b])
         /\ \A b \in Atomics : 1 <= Len(history'[b])
<1>1. history[a] \in Seq(BOOLEAN)
  BY DEF Typing
<1>2. /\ history' = [history EXCEPT ![a] = Append(@, v)]
      /\ seen' = [seen EXCEPT ![t][a] = Len(history[a]) + 1]
  BY DEF Store
<1>3. /\ history'[a] = Append(history[a], v)
      /\ \A b \in Atomics : b # a => history'[b] = history[b]
      /\ history' \in [Atomics -> Seq(BOOLEAN)]
  BY <1>1, <1>2, Appended DEF Typing
<1>4. Len(history[a]) \in Nat /\ Len(history'[a]) = Len(history[a]) + 1
  BY <1>1, <1>3, Appended
<1>5. /\ seen' \in [Thread -> [Atomics -> Nat]]
      /\ seen'[t][a] = Len(history[a]) + 1
      /\ \A u \in Thread : \A b \in Atomics :
              u # t \/ b # a => seen'[u][b] = seen[u][b]
  BY <1>2, <1>4 DEF Typing
<1>6. ASSUME NEW b \in Atomics
      PROVE  1 <= Len(history'[b])
  <2>1. CASE b = a
    BY <2>1, <1>4 DEF Typing
  <2>2. CASE b # a
    BY <2>2, <1>3 DEF Typing
  <2> QED
    BY <2>1, <2>2
<1>7. ASSUME NEW u \in Thread, NEW b \in Atomics
      PROVE  1 <= seen'[u][b] /\ seen'[u][b] <= Len(history'[b])
  <2>1. CASE u = t /\ b = a
    BY <2>1, <1>4, <1>5
  <2>2. CASE u # t /\ b = a
    BY <2>2, <1>4, <1>5 DEF Typing
  <2>3. CASE b # a
    BY <2>3, <1>3, <1>5 DEF Typing
  <2> QED
    BY <2>1, <2>2, <2>3
<1> QED
  BY <1>3, <1>5, <1>6, <1>7

\* A load moves what the thread has seen forward.
LEMMA LoadFacts ==
  ASSUME Typing, NEW t \in Thread, NEW a \in Atomics, NEW k \in Visible(t, a),
         Load(t, a, k)
  PROVE  /\ seen' \in [Thread -> [Atomics -> Nat]]
         /\ k \in Nat /\ 1 <= k /\ seen[t][a] <= k /\ k <= Len(history[a])
         /\ history[a][k] \in BOOLEAN
         /\ seen'[t][a] = k
         /\ \A u \in Thread : \A b \in Atomics :
              u # t \/ b # a => seen'[u][b] = seen[u][b]
         /\ \A u \in Thread : \A b \in Atomics :
              /\ seen[u][b] <= seen'[u][b]
              /\ 1 <= seen'[u][b] /\ seen'[u][b] <= Len(history[b])
<1>1. /\ history[a] \in Seq(BOOLEAN) /\ Len(history[a]) \in Nat
      /\ seen[t][a] \in Nat /\ 1 <= seen[t][a]
  BY DEF Typing
<1>2. k \in Nat /\ 1 <= k /\ seen[t][a] <= k /\ k <= Len(history[a])
  BY <1>1 DEF Visible
<1>3. history[a][k] \in BOOLEAN
  BY <1>1, <1>2
<1>4. seen' = [seen EXCEPT ![t][a] = k]
  BY DEF Load
<1>5. /\ seen' \in [Thread -> [Atomics -> Nat]]
      /\ seen'[t][a] = k
      /\ \A u \in Thread : \A b \in Atomics :
              u # t \/ b # a => seen'[u][b] = seen[u][b]
  BY <1>2, <1>4 DEF Typing
<1>6. ASSUME NEW u \in Thread, NEW b \in Atomics
      PROVE  /\ seen[u][b] <= seen'[u][b]
             /\ 1 <= seen'[u][b] /\ seen'[u][b] <= Len(history[b])
  <2>1. CASE u = t /\ b = a
    BY <2>1, <1>2, <1>5
  <2>2. CASE u # t \/ b # a
    <3>1. seen'[u][b] = seen[u][b] /\ seen[u][b] \in Nat
      BY <2>2, <1>5 DEF Typing
    <3> QED
      BY <3>1 DEF Typing
  <2> QED
    BY <2>1, <2>2
<1> QED
  BY <1>2, <1>3, <1>5, <1>6
---------------------------------------------------------------------------
\* What a load of PROFILE_ACTIVE returns, once something was stored.
LEMMA LoadedAnswer ==
  ASSUME Typing, Truth, NEW k \in Nat, 1 <= k, k <= Len(history["ACTIVE"])
  PROVE  /\ history["ACTIVE"][k] = TRUE => env = TRUE /\ 2 <= k
         /\ 2 <= k => history["ACTIVE"][k] = env
<1>1. k = 1 \/ 2 <= k
  OBVIOUS
<1>2. CASE k = 1
  BY <1>2 DEF Truth
<1>3. CASE 2 <= k
  BY <1>3 DEF Truth
<1> QED
  BY <1>1, <1>2, <1>3

\* An answer added to those of thread t is the last one, the others stay.
LEMMA ReturnFacts ==
  ASSUME Typing, NEW t \in Thread, NEW v \in BOOLEAN, Return(t, v)
  PROVE  /\ answers' \in [Thread -> Seq(BOOLEAN)]
         /\ answers'[t] # <<>>
         /\ answers'[t][Len(answers'[t])] = v
         /\ \A u \in Thread : u # t => answers'[u] = answers[u]
         /\ \A k \in DOMAIN answers'[t] :
              answers'[t][k] = v \/ (k \in DOMAIN answers[t] /\ answers'[t][k] = answers[t][k])
<1>1. answers[t] \in Seq(BOOLEAN)
  BY DEF Typing
<1>2. answers' = [answers EXCEPT ![t] = Append(@, v)]
  BY DEF Return
<1>3. /\ answers'[t] = Append(answers[t], v)
      /\ \A u \in Thread : u # t => answers'[u] = answers[u]
  BY <1>2 DEF Typing
<1>4. answers' \in [Thread -> Seq(BOOLEAN)]
  BY <1>1, <1>2, Appended DEF Typing
<1>5. ASSUME NEW k \in DOMAIN answers'[t]
      PROVE  \/ answers'[t][k] = v
             \/ k \in DOMAIN answers[t] /\ answers'[t][k] = answers[t][k]
  <2>1. k \in 1 .. Len(answers[t]) + 1 /\ Len(answers[t]) \in Nat
    BY <1>1, <1>3, Appended
  <2>2. CASE k = Len(answers[t]) + 1
    BY <2>2, <1>1, <1>3, Appended
  <2>3. CASE k # Len(answers[t]) + 1
    <3>1. k \in Nat /\ 1 <= k /\ k <= Len(answers[t])
      BY <2>1, <2>3
    <3> QED
      BY <3>1, <1>1, <1>3, Appended
  <2> QED
    BY <2>2, <2>3
<1> QED
  BY <1>1, <1>3, <1>4, <1>5, Appended
---------------------------------------------------------------------------
(* One lemma per action.                                                   *)

LEMMA LoadCheckedStep ==
  ASSUME IInv, NEW t \in Thread, LoadChecked(t)
  PROVE  IInv'
<1>1. PICK k \in Visible(t, "CHECKED") :
        /\ Load(t, "CHECKED", k)
        /\ Goto(t, IF history["CHECKED"][k] THEN "load" ELSE "store")
  BY DEF LoadChecked
<1>2. UNCHANGED <<env, history, answers, checked_env>>
  BY DEF LoadChecked
<1>3. /\ seen' \in [Thread -> [Atomics -> Nat]]
      /\ \A u \in Thread : \A b \in Atomics :
           /\ seen[u][b] <= seen'[u][b]
           /\ 1 <= seen'[u][b] /\ seen'[u][b] <= Len(history[b])
  BY <1>1, LoadFacts DEF IInv, Atomics
<1>4. /\ pc' \in [Thread -> Labels]
      /\ pc'[t] # "publish"
      /\ \A u \in Thread : u # t => pc'[u] = pc[u]
  BY <1>1 DEF Goto, IInv, Typing, Labels
<1>5. Typing'
  BY <1>2, <1>3, <1>4 DEF IInv, Typing
<1>6. Truth'
  BY <1>2 DEF IInv, Truth
<1>7. Knowledge'
  <2>1. \A u \in Thread : 2 <= seen[u]["ACTIVE"] => 2 <= seen'[u]["ACTIVE"]
    BY <1>3 DEF IInv, Typing, Atomics
  <2> QED
    BY <1>2, <1>4, <2>1 DEF IInv, Knowledge
<1> QED
  BY <1>5, <1>6, <1>7 DEF IInv

LEMMA StoreActiveStep ==
  ASSUME IInv, NEW t \in Thread, StoreActive(t)
  PROVE  IInv'
<1>1. Store(t, "ACTIVE", env) /\ Goto(t, "publish")
  BY DEF StoreActive
<1>2. UNCHANGED <<env, answers, checked_env>>
  BY DEF StoreActive
<1>3. Typing /\ env \in BOOLEAN /\ "ACTIVE" \in Atomics
  BY DEF IInv, Typing, Atomics
<1>4. /\ history' \in [Atomics -> Seq(BOOLEAN)]
      /\ seen' \in [Thread -> [Atomics -> Nat]]
      /\ history'["ACTIVE"] = Append(history["ACTIVE"], env)
      /\ seen'[t]["ACTIVE"] = Len(history["ACTIVE"]) + 1
      /\ \A u \in Thread : u # t => seen'[u]["ACTIVE"] = seen[u]["ACTIVE"]
      /\ \A u \in Thread : \A b \in Atomics :
           1 <= seen'[u][b] /\ seen'[u][b] <= Len(history'[b])
      /\ \A b \in Atomics : 1 <= Len(history'[b])
  BY <1>1, <1>3, StoreFacts
<1>5. /\ pc' \in [Thread -> Labels]
      /\ \A u \in Thread : u # t => pc'[u] = pc[u]
  BY <1>1 DEF Goto, IInv, Typing, Labels
<1>6. Typing'
  BY <1>2, <1>3, <1>4, <1>5 DEF Typing
<1>7. Truth'
  <2>1. /\ history["ACTIVE"] \in Seq(BOOLEAN)
        /\ 1 <= Len(history["ACTIVE"])
    BY <1>3 DEF Typing
  <2>2. /\ Len(history["ACTIVE"]) \in Nat
        /\ Len(history'["ACTIVE"]) = Len(history["ACTIVE"]) + 1
        /\ \A k \in Nat : 1 <= k /\ k <= Len(history["ACTIVE"])
             => history'["ACTIVE"][k] = history["ACTIVE"][k]
        /\ history'["ACTIVE"][Len(history["ACTIVE"]) + 1] = env
    BY <1>3, <1>4, <2>1, Appended
  <2>3. history'["ACTIVE"][1] = FALSE
    BY <2>1, <2>2 DEF IInv, Truth
  <2>4. ASSUME NEW k \in Nat, 2 <= k, k <= Len(history'["ACTIVE"])
        PROVE  history'["ACTIVE"][k] = env'
    <3>1. CASE k = Len(history["ACTIVE"]) + 1
      BY <3>1, <2>2, <1>2
    <3>2. CASE k # Len(history["ACTIVE"]) + 1
      <4>1. 1 <= k /\ k <= Len(history["ACTIVE"])
        BY <3>2, <2>2, <2>4
      <4> QED
        BY <4>1, <2>2, <2>4, <1>2 DEF IInv, Truth
    <3> QED
      BY <3>1, <3>2
  <2> QED
    BY <2>3, <2>4 DEF Truth
<1>8. Knowledge'
  <2>1. 2 <= seen'[t]["ACTIVE"]
    <3>1. Len(history["ACTIVE"]) \in Nat /\ 1 <= Len(history["ACTIVE"])
      BY <1>3 DEF Typing
    <3> QED
      BY <1>4, <3>1
  <2> QED
    BY <1>2, <1>4, <1>5, <2>1 DEF IInv, Knowledge
<1> QED
  BY <1>6, <1>7, <1>8 DEF IInv

LEMMA StoreCheckedStep ==
  ASSUME IInv, NEW t \in Thread, StoreChecked(t)
  PROVE  IInv'
<1>1. /\ pc[t] = "publish" /\ Store(t, "CHECKED", TRUE) /\ Return(t, env)
      /\ checked_env' = [checked_env EXCEPT ![t] = TRUE] /\ Goto(t, "idle")
  BY DEF StoreChecked
<1>2. UNCHANGED env
  BY DEF StoreChecked
<1>3. Typing /\ env \in BOOLEAN /\ Atomics = {"ACTIVE", "CHECKED"}
  BY DEF IInv, Typing, Atomics
<1>4. /\ history' \in [Atomics -> Seq(BOOLEAN)]
      /\ seen' \in [Thread -> [Atomics -> Nat]]
      /\ history'["ACTIVE"] = history["ACTIVE"]
      /\ \A u \in Thread : seen'[u]["ACTIVE"] = seen[u]["ACTIVE"]
      /\ \A u \in Thread : \A b \in Atomics :
           1 <= seen'[u][b] /\ seen'[u][b] <= Len(history'[b])
      /\ \A b \in Atomics : 1 <= Len(history'[b])
  BY <1>1, <1>3, StoreFacts
<1>5. /\ pc' \in [Thread -> Labels] /\ checked_env' \in [Thread -> BOOLEAN]
      /\ pc'[t] = "idle"
      /\ \A u \in Thread : u # t =>
           pc'[u] = pc[u] /\ checked_env'[u] = checked_env[u]
  BY <1>1 DEF Goto, IInv, Typing, Labels
<1>6. /\ answers' \in [Thread -> Seq(BOOLEAN)]
      /\ answers'[t][Len(answers'[t])] = env
      /\ \A u \in Thread : u # t => answers'[u] = answers[u]
      /\ \A k \in DOMAIN answers'[t] :
           \/ answers'[t][k] = env
           \/ k \in DOMAIN answers[t] /\ answers'[t][k] = answers[t][k]
  BY <1>1, <1>3, ReturnFacts
<1>7. Typing'
  BY <1>2, <1>3, <1>4, <1>5, <1>6 DEF Typing
<1>8. Truth'
  BY <1>2, <1>4 DEF IInv, Truth
<1>9. Knowledge'
  <2>1. 2 <= seen[t]["ACTIVE"]
    BY <1>1 DEF IInv, Knowledge
  <2>2. ASSUME NEW u \in Thread, u # t
        PROVE  /\ (pc'[u] = "publish" \/ checked_env'[u]) => 2 <= seen'[u]["ACTIVE"]
               /\ \A k \in DOMAIN answers'[u] :
                    answers'[u][k] = TRUE => env' = TRUE /\ 2 <= seen'[u]["ACTIVE"]
               /\ (checked_env'[u] /\ answers'[u] # <<>>)
                    => answers'[u][Len(answers'[u])] = env'
    BY <2>2, <1>2, <1>4, <1>5, <1>6 DEF IInv, Knowledge
  <2>3. ASSUME NEW k \in DOMAIN answers'[t], answers'[t][k] = TRUE
        PROVE  env' = TRUE
    BY <2>3, <1>2, <1>6 DEF IInv, Knowledge
  <2> QED
    BY <2>1, <2>2, <2>3, <1>2, <1>4, <1>6 DEF Knowledge
<1> QED
  BY <1>7, <1>8, <1>9 DEF IInv
LEMMA LoadActiveStep ==
  ASSUME IInv, NEW t \in Thread, LoadActive(t)
  PROVE  /\ IInv'
         /\ (env \in Answers(t)) => answers'[t][Len(answers'[t])] = env
<1>1. PICK k \in Visible(t, "ACTIVE") :
        /\ Load(t, "ACTIVE", k)
        /\ Return(t, history["ACTIVE"][k])
  BY DEF LoadActive
<1>2. UNCHANGED <<env, history, checked_env>> /\ Goto(t, "idle")
  BY DEF LoadActive
<1>3. Typing /\ Truth /\ "ACTIVE" \in Atomics /\ env \in BOOLEAN
  BY DEF IInv, Typing, Atomics
<1>4. /\ seen' \in [Thread -> [Atomics -> Nat]]
      /\ k \in Nat /\ 1 <= k /\ seen[t]["ACTIVE"] <= k /\ k <= Len(history["ACTIVE"])
      /\ history["ACTIVE"][k] \in BOOLEAN
      /\ seen'[t]["ACTIVE"] = k
      /\ \A u \in Thread : \A b \in Atomics :
           u # t \/ b # "ACTIVE" => seen'[u][b] = seen[u][b]
      /\ \A u \in Thread : \A b \in Atomics :
           1 <= seen'[u][b] /\ seen'[u][b] <= Len(history[b])
  BY <1>1, <1>3, LoadFacts
<1> DEFINE v == history["ACTIVE"][k]
<1>5. /\ answers' \in [Thread -> Seq(BOOLEAN)]
      /\ answers'[t][Len(answers'[t])] = v
      /\ \A u \in Thread : u # t => answers'[u] = answers[u]
      /\ \A j \in DOMAIN answers'[t] :
           \/ answers'[t][j] = v
           \/ j \in DOMAIN answers[t] /\ answers'[t][j] = answers[t][j]
  BY <1>1, <1>3, <1>4, ReturnFacts
<1>6. /\ pc' \in [Thread -> Labels]
      /\ pc'[t] = "idle"
      /\ \A u \in Thread : u # t => pc'[u] = pc[u]
  BY <1>2 DEF Goto, IInv, Typing, Labels
<1>7. /\ v = TRUE => env = TRUE /\ 2 <= k
      /\ 2 <= k => v = env
  BY <1>3, <1>4, LoadedAnswer
<1>8. 2 <= seen[t]["ACTIVE"] => 2 <= k
  BY <1>3, <1>4 DEF Typing
<1> HIDE DEF v
<1>9. Typing'
  BY <1>2, <1>3, <1>4, <1>5, <1>6 DEF Typing
<1>10. Truth'
  BY <1>2 DEF IInv, Truth
<1>11. Knowledge'
  <2>1. ASSUME NEW u \in Thread, u # t
        PROVE  /\ (pc'[u] = "publish" \/ checked_env'[u]) => 2 <= seen'[u]["ACTIVE"]
               /\ \A j \in DOMAIN answers'[u] :
                    answers'[u][j] = TRUE => env' = TRUE /\ 2 <= seen'[u]["ACTIVE"]
               /\ (checked_env'[u] /\ answers'[u] # <<>>)
                    => answers'[u][Len(answers'[u])] = env'
    BY <2>1, <1>2, <1>3, <1>4, <1>5, <1>6 DEF IInv, Knowledge
  <2>2. checked_env[t] => 2 <= k
    BY <1>8 DEF IInv, Knowledge
  <2>3. ASSUME NEW j \in DOMAIN answers'[t], answers'[t][j] = TRUE
        PROVE  env = TRUE /\ 2 <= k
    BY <2>3, <1>5, <1>7, <1>8 DEF IInv, Knowledge
  <2> QED
    BY <2>1, <2>2, <2>3, <1>2, <1>4, <1>5, <1>6, <1>7 DEF Knowledge
<1>12. ASSUME env \in Answers(t)
       PROVE  v = env
  <2>1. PICK j \in DOMAIN answers[t] : answers[t][j] = env
    BY <1>12 DEF Answers
  <2>2. CASE env = TRUE
    BY <2>1, <2>2, <1>7, <1>8 DEF IInv, Knowledge
  <2>3. CASE env = FALSE
    BY <2>3, <1>4, <1>7 DEF v
  <2> QED
    BY <2>2, <2>3, <1>3
<1> QED
  BY <1>5, <1>9, <1>10, <1>11, <1>12 DEF IInv

LEMMA StepIInv == IInv /\ [Next]_vars => IInv'
<1> SUFFICES ASSUME IInv, [Next]_vars PROVE IInv'
  OBVIOUS
<1>1. CASE Next
  <2>1. PICK t \in Thread :
          \/ LoadChecked(t)
          \/ StoreActive(t)
          \/ StoreChecked(t)
          \/ LoadActive(t)
    BY <1>1 DEF Next
  <2> QED
    BY <2>1, LoadCheckedStep, StoreActiveStep, StoreCheckedStep,
       LoadActiveStep
<1>2. CASE UNCHANGED vars
  BY <1>2 DEF vars, IInv, Typing, Truth, Knowledge
<1> QED
  BY <1>1, <1>2

\* What every step preserves, and no answer turning wrong in a step.
LEMMA AnswersOfAStep ==
  ASSUME IInv, [Next]_vars, NEW t \in Thread,
         env \in Answers(t), Len(answers[t]') > Len(answers[t])
  PROVE  answers[t]'[Len(answers[t]')] = env
<1>1. CASE UNCHANGED vars
  <2>1. Len(answers[t]) \in Nat
    BY DEF IInv, Typing
  <2> QED
    BY <1>1, <2>1 DEF vars
<1>2. ASSUME NEW u \in Thread, LoadActive(u) PROVE answers[t]'[Len(answers[t]')] = env
  <2>1. CASE u = t
    BY <1>2, <2>1, LoadActiveStep
  <2>2. CASE u # t
    <3>1. answers'[t] = answers[t] /\ Len(answers[t]) \in Nat
      BY <1>2, <2>2 DEF LoadActive, Return, IInv, Typing
    <3> QED
      BY <3>1
  <2> QED
    BY <2>1, <2>2
<1>3. ASSUME NEW u \in Thread, StoreChecked(u) PROVE answers[t]'[Len(answers[t]')] = env
  <2>1. CASE u = t
    <3>1. Return(t, env) /\ env \in BOOLEAN /\ Typing
      BY <1>3, <2>1 DEF StoreChecked, IInv, Typing
    <3> QED
      BY <3>1, ReturnFacts
  <2>2. CASE u # t
    <3>1. answers'[t] = answers[t] /\ Len(answers[t]) \in Nat
      BY <1>3, <2>2 DEF StoreChecked, Return, IInv, Typing
    <3> QED
      BY <3>1
  <2> QED
    BY <2>1, <2>2
<1>4. ASSUME NEW u \in Thread, LoadChecked(u) \/ StoreActive(u)
      PROVE  answers[t]'[Len(answers[t]')] = env
  <2>1. answers' = answers
    BY <1>4 DEF LoadChecked, StoreActive
  <2>2. Len(answers[t]) \in Nat
    BY DEF IInv, Typing
  <2> QED
    BY <2>1, <2>2
<1> QED
  BY <1>1, <1>2, <1>3, <1>4 DEF Next

LEMMA InvariantHolds == Spec => []IInv
<1> QED
  BY InitIInv, StepIInv, PTL DEF Spec

---------------------------------------------------------------------------
\* What a thread knows of an atomic is always one of that atomic's stores,
\* and it is at one of the four places of profiling_enabled.
THEOREM ProfileTypeCorrect == Spec => []TypeOK
<1>1. IInv => TypeOK
  <2> SUFFICES ASSUME IInv, NEW t \in Thread, NEW a \in Atomics
               PROVE  /\ pc[t] \in {"idle", "store", "publish", "load"}
                      /\ seen[t][a] \in 1 .. Len(history[a])
                      /\ answers[t] \in Seq(BOOLEAN)
    BY DEF TypeOK, Atomics
  <2>1. /\ pc[t] \in Labels /\ answers[t] \in Seq(BOOLEAN)
        /\ seen[t][a] \in Nat /\ history[a] \in Seq(BOOLEAN)
        /\ 1 <= seen[t][a] /\ seen[t][a] <= Len(history[a])
    BY DEF IInv, Typing
  <2> QED
    BY <2>1, LenProperties DEF Labels
<1> QED
  BY <1>1, InvariantHolds, PTL

\* With the variable unset no call of profiling_enabled returns true.
THEOREM OffStaysOff == Spec => []NeverOnByAccident
<1>1. IInv => NeverOnByAccident
  BY DEF IInv, Knowledge, NeverOnByAccident, Answers
<1> QED
  BY <1>1, InvariantHolds, PTL

\* A thread that read the environment itself keeps answering by it.
THEOREM OwnAnswerKept == Spec => []OwnAnswerStays
<1>1. IInv => OwnAnswerStays
  BY DEF IInv, Knowledge, OwnAnswerStays
<1> QED
  BY <1>1, InvariantHolds, PTL

\* A thread that was once told the truth is never told anything else.
THEOREM AnswersConverge == Spec => NeverTurnsWrong
<1>1. IInv /\ [Next]_vars
        => [\A t \in Thread :
              (env \in Answers(t) /\ Len(answers[t]') > Len(answers[t]))
                => answers[t]'[Len(answers[t]')] = env]_vars
  BY AnswersOfAStep
<1> QED
  BY <1>1, InvariantHolds, PTL DEF Spec, NeverTurnsWrong

---------------------------------------------------------------------------
(* The benchmark matrix.                                                   *)

\* The rows that matter: what a process of pair k prints pth, its opening
\* (which is the fourth), and the row for its failure.
Printed(k, p) == Row(Pairs[k], Rows[p], "pass")
Opened(k) == Row(Pairs[k], "core_open", "pass")
Failed(k) == Row(Pairs[k], "runner", "failed")

Has(r) == \E i \in DOMAIN csv : csv[i] = r
Unique(r) == \A i, j \in DOMAIN csv : csv[i] = r /\ csv[j] = r => i = j
One(r) == Has(r) /\ Unique(r)

---------------------------------------------------------------------------
(* The inductive invariant.                                                *)

Anything == [pair : {Pairs[k] : k \in DOMAIN Pairs},
             phase : {Rows[p] : p \in DOMAIN Rows} \cup {"runner"},
             status : {"pass", "failed"}]

Shape ==
  /\ MatrixTypeOK
  /\ csv \in Seq(Anything)
  /\ log \in Seq(Anything)
  /\ resume \in BOOLEAN
  /\ finished \in BOOLEAN
  /\ stage # "idle" => at >= 1
  /\ finished => stage = "idle"

\* What is left of the log is the end of what the process printed.
LogInv ==
  stage = "append" =>
    /\ at <= Len(Pairs)
    /\ Len(log) <= 6
    /\ \A i \in 1 .. Len(log) : log[i] = Printed(at, 6 - Len(log) + i)

\* No opening is in the file whose pair the run has still to measure.
Awaited(k) ==
  \/ stage = "loop" /\ ~ resume /\ k >= at
  \/ stage = "append" /\ ~ resume /\ k > at
  \/ stage = "append" /\ k = at /\ Len(log) >= 3
OpenedInv ==
  \A k \in DOMAIN Pairs :
    Unique(Opened(k)) /\ (Awaited(k) => ~ Has(Opened(k)))

\* What the run has passed is in the file.
Passed(k) ==
  \/ stage # "idle" /\ k < at
  \/ stage = "append" /\ k = at /\ Len(log) < 3
  \/ finished
AccountedInv ==
  \A k \in DOMAIN Pairs : Passed(k) => Has(Opened(k)) \/ Has(Failed(k))

\* How much of each pair a first run has in the file.
Whole(k) == (\A p \in 1 .. 6 : One(Printed(k, p))) \/ One(Failed(k))
Nothing(k) == (\A p \in 1 .. 6 : ~ Has(Printed(k, p))) /\ ~ Has(Failed(k))
Begun(k, n) == \A p \in 1 .. 6 : IF p <= n THEN One(Printed(k, p))
                                         ELSE ~ Has(Printed(k, p))
WholeInv ==
  (runs = 1 /\ (stage # "idle" \/ finished)) =>
    \A k \in DOMAIN Pairs :
      /\ finished \/ k < at => Whole(k)
      /\ ~ finished /\ (k > at \/ (k = at /\ stage = "loop")) => Nothing(k)
      /\ stage = "append" /\ k = at => Begun(k, 6 - Len(log))

MatrixInv == Shape /\ LogInv /\ OpenedInv /\ AccountedInv /\ WholeInv

---------------------------------------------------------------------------
(* Rows and the file.                                                      *)

LEMMA PairsFacts ==
  /\ DOMAIN Pairs = 1 .. Len(Pairs) /\ Len(Pairs) \in Nat
  /\ \A k, l \in DOMAIN Pairs : Pairs[k] = Pairs[l] => k = l
<1> DEFINE S == {Pairs[k] : k \in DOMAIN Pairs}
<1>1. Pairs \in Seq(S)
  BY PairsAssumption
<1> HIDE DEF S
<1>2. DOMAIN Pairs = 1 .. Len(Pairs) /\ Len(Pairs) \in Nat
  BY <1>1, LenProperties
<1> QED BY <1>2, PairsAssumption

\* No two of the rows that matter are alike.
LEMMA RowsDiffer ==
  ASSUME NEW k \in DOMAIN Pairs, NEW l \in DOMAIN Pairs,
         NEW p \in 1 .. 6, NEW q \in 1 .. 6
  PROVE  /\ Printed(k, p) \in Anything /\ Failed(k) \in Anything
         /\ Opened(k) = Printed(k, 4)
         /\ Printed(k, p) = Printed(l, q) <=> k = l /\ p = q
         /\ Failed(k) = Failed(l) <=> k = l
         /\ Printed(k, p) # Failed(l)
         /\ Opened(k) # Failed(l)
<1>1. /\ DOMAIN Rows = 1 .. 6 /\ Rows[4] = "core_open"
      /\ Rows[p] = Rows[q] => p = q
      /\ Rows[p] # "runner"
  BY DEF Rows
<1>2. Pairs[k] = Pairs[l] => k = l
  BY PairsFacts
<1> QED BY <1>1, <1>2 DEF Printed, Failed, Opened, Row, Anything

\* What one more row changes.
LEMMA Written ==
  ASSUME csv \in Seq(Anything), NEW q \in Anything, csv' = Append(csv, q)
  PROVE  /\ csv' \in Seq(Anything)
         /\ \A r : Has(r)' <=> Has(r) \/ r = q
         /\ \A r : Unique(r) /\ (r # q \/ ~ Has(r)) => Unique(r)'
<1> DEFINE n == Len(csv)
<1>1. /\ n \in Nat /\ DOMAIN csv = 1 .. n
      /\ csv' \in Seq(Anything) /\ DOMAIN csv' = 1 .. n+1
      /\ csv'[n+1] = q
      /\ \A i \in 1 .. n : csv'[i] = csv[i]
  BY AppendProperties, LenProperties
<1> HIDE DEF n
<1>2. ASSUME NEW r
      PROVE  Has(r)' <=> Has(r) \/ r = q
  <2>1. n + 1 \in 1 .. n+1 /\ \A i \in 1 .. n : i \in 1 .. n+1
    BY <1>1
  <2>2. \A i \in 1 .. n+1 : i \in 1 .. n \/ i = n + 1
    BY <1>1
  <2> QED BY <1>1, <2>1, <2>2 DEF Has
<1>3. ASSUME NEW r, Unique(r), r # q \/ ~ Has(r)
      PROVE  Unique(r)'
  <2> SUFFICES ASSUME NEW i \in 1 .. n+1, NEW j \in 1 .. n+1,
                      csv'[i] = r, csv'[j] = r
               PROVE  i = j
    BY <1>1 DEF Unique
  <2>1. CASE i \in 1 .. n /\ j \in 1 .. n
    BY <1>1, <1>3, <2>1 DEF Unique
  <2>2. CASE i = n+1 /\ j \in 1 .. n
    BY <1>1, <1>3, <2>2 DEF Has
  <2>3. CASE j = n+1 /\ i \in 1 .. n
    BY <1>1, <1>3, <2>3 DEF Has
  <2>4. CASE i = n+1 /\ j = n+1
    BY <2>4
  <2>5. (i \in 1 .. n \/ i = n+1) /\ (j \in 1 .. n \/ j = n+1)
    BY <1>1
  <2> QED BY <2>1, <2>2, <2>3, <2>4, <2>5
<1> QED BY <1>1, <1>2, <1>3

\* A row that was not there is there once after it is written.
LEMMA WrittenOnce ==
  ASSUME csv \in Seq(Anything), NEW q \in Anything, csv' = Append(csv, q),
         ~ Has(q)
  PROVE  One(q)'
<1>1. Unique(q)
  BY DEF Has, Unique
<1> QED BY <1>1, Written DEF One

\* The others are there as often as before.
LEMMA WrittenOther ==
  ASSUME csv \in Seq(Anything), NEW q \in Anything, csv' = Append(csv, q),
         NEW r, r # q
  PROVE  /\ Has(r)' <=> Has(r)
         /\ One(r) => One(r)'
         /\ Unique(r) => Unique(r)'
BY Written DEF One

LEMMA EmptyFile ==
  ASSUME NEW r
  PROVE  csv = <<>> => Unique(r) /\ ~ Has(r)
BY DEF Has, Unique

\* The counts of the properties.
LEMMA Counts ==
  ASSUME csv \in Seq(Anything), NEW pair, NEW phase, NEW status
  PROVE  LET r == Row(pair, phase, status)
         IN  /\ CountOf(pair, phase, status) \in Nat
             /\ Unique(r) => CountOf(pair, phase, status) <= 1
             /\ Has(r) => CountOf(pair, phase, status) > 0
             /\ One(r) => CountOf(pair, phase, status) = 1
<1> DEFINE r == Row(pair, phase, status)
           S == {k \in DOMAIN csv : csv[k] = r}
<1>1. IsFiniteSet(S)
  <2>1. DOMAIN csv = 1 .. Len(csv) /\ Len(csv) \in Nat
    BY LenProperties
  <2>2. IsFiniteSet(DOMAIN csv)
    BY <2>1, FS_Interval
  <2> QED BY <2>2, FS_Subset
<1>2. CountOf(pair, phase, status) = Cardinality(S)
  BY DEF CountOf
<1>3. Has(r) <=> S # {}
  BY DEF Has
<1>4. Unique(r) /\ S # {} => \E x : S = {x}
  BY DEF Unique
<1> HIDE DEF S, r
<1>5. /\ Cardinality(S) \in Nat
      /\ Cardinality(S) = 0 <=> S = {}
      /\ (\E x : S = {x}) => Cardinality(S) = 1
  BY <1>1, FS_CardinalityType, FS_EmptySet, FS_Singleton
<1>6. /\ Unique(r) => Cardinality(S) <= 1
      /\ Has(r) => Cardinality(S) > 0
      /\ One(r) => Cardinality(S) = 1
  <2>1. Unique(r) => Cardinality(S) = 0 \/ Cardinality(S) = 1
    BY <1>4, <1>5
  <2>2. Has(r) => Cardinality(S) # 0
    BY <1>3, <1>5
  <2> QED BY <1>5, <2>1, <2>2 DEF One
<1> QED BY <1>2, <1>5, <1>6 DEF r

---------------------------------------------------------------------------
(* The invariant is inductive.                                             *)

LEMMA InitMatrix == MatrixInit => MatrixInv
<1> SUFFICES ASSUME MatrixInit PROVE MatrixInv
  OBVIOUS
<1>1. Shape
  <2>1. <<>> \in Seq(Anything) /\ 0 \in 0 .. Len(Pairs) + 1 /\ 0 \in 0 .. MaxRuns
    BY PairsFacts, PairsAssumption
  <2> QED BY <2>1 DEF MatrixInit, Shape, MatrixTypeOK
<1>2. OpenedInv
  BY EmptyFile DEF MatrixInit, OpenedInv, Awaited
<1>3. LogInv /\ AccountedInv /\ WholeInv
  BY DEF MatrixInit, LogInv, AccountedInv, Passed, WholeInv
<1> QED BY <1>1, <1>2, <1>3 DEF MatrixInv

\* A step that leaves the file alone leaves what is said of its rows alone.
LEMMA SameFile ==
  ASSUME csv' = csv
  PROVE  /\ \A r : (Has(r)' <=> Has(r)) /\ (Unique(r)' <=> Unique(r))
         /\ \A k : (Whole(k)' <=> Whole(k)) /\ (Nothing(k)' <=> Nothing(k))
         /\ \A k, n : Begun(k, n)' <=> Begun(k, n)
BY DEF Has, Unique, One, Whole, Nothing, Begun

LEMMA StartKeeps ==
  ASSUME MatrixInv, NEW r \in BOOLEAN, Start(r)
  PROVE  MatrixInv'
<1> USE DEF MatrixInv
<1>1. /\ stage = "idle" /\ stage' = "loop" /\ at' = 1 /\ log' = <<>>
      /\ finished' = FALSE /\ resume' = r /\ runs' = runs + 1 /\ runs < MaxRuns
      /\ (csv' = csv /\ r /\ runs > 0) \/ csv' = <<>>
  BY DEF Start
<1>2. Shape'
  <2>1. <<>> \in Seq(Anything) /\ 1 \in 0 .. Len(Pairs) + 1
    BY PairsFacts
  <2>2. runs' \in 0 .. MaxRuns
    BY <1>1, PairsAssumption DEF Shape, MatrixTypeOK
  <2>3. csv' \in Seq(Anything) /\ log' \in Seq(Anything)
    BY <1>1, <2>1 DEF Shape
  <2>4. resume' \in BOOLEAN /\ finished' \in BOOLEAN /\ ~ finished'
    BY <1>1, Zenon
  <2>5. /\ stage' \in {"idle", "loop", "append"} /\ at' \in 0 .. Len(Pairs) + 1
        /\ log' = <<>> /\ at' >= 1
    BY <1>1, <2>1
  <2> QED BY <2>2, <2>3, <2>4, <2>5 DEF Shape, MatrixTypeOK
<1>3. LogInv' /\ AccountedInv'
  BY <1>1, PairsFacts DEF LogInv, AccountedInv, Passed
<1>4. CASE csv' = <<>>
  <2>1. \A s : Unique(s)' /\ ~ Has(s)'
    BY <1>4 DEF Unique, Has
  <2>2. OpenedInv'
    BY <2>1 DEF OpenedInv
  <2>3. WholeInv'
    BY <1>1, <2>1, PairsFacts DEF WholeInv, Nothing
  <2> QED BY <1>2, <1>3, <2>2, <2>3
<1>5. CASE csv' = csv /\ r /\ runs > 0
  <2>1. OpenedInv'
    BY <1>1, <1>5, SameFile DEF OpenedInv, Awaited
  <2>2. WholeInv'
    BY <1>1, <1>5 DEF WholeInv, Shape, MatrixTypeOK
  <2> QED BY <1>2, <1>3, <2>1, <2>2
<1> QED BY <1>1, <1>4, <1>5

LEMMA SkipKeeps ==
  ASSUME MatrixInv, Skip
  PROVE  MatrixInv'
<1> USE DEF MatrixInv
<1>1. /\ stage = "loop" /\ at <= Len(Pairs) /\ resume /\ Completed(Pairs[at])
      /\ at' = at + 1 /\ UNCHANGED <<csv, stage, resume, log, runs, finished>>
  BY DEF Skip
<1>2. at \in DOMAIN Pairs /\ at \in 1 .. Len(Pairs) /\ ~ finished
  BY <1>1, PairsFacts DEF Shape, MatrixTypeOK
<1>3. Has(Opened(at))
  BY <1>1 DEF Completed, Has, Opened
<1>4. Shape'
  BY <1>1, <1>2, PairsFacts DEF Shape, MatrixTypeOK
<1>5. LogInv'
  BY <1>1 DEF LogInv
<1>6. OpenedInv'
  BY <1>1, SameFile DEF OpenedInv, Awaited
<1>7. AccountedInv'
  <2> SUFFICES ASSUME NEW k \in DOMAIN Pairs, Passed(k)'
               PROVE  (Has(Opened(k)) \/ Has(Failed(k)))'
    BY DEF AccountedInv
  <2>1. Passed(k) \/ k = at
    BY <1>1, <1>2, PairsFacts DEF Passed
  <2>2. Has(Opened(k)) \/ Has(Failed(k))
    BY <1>3, <2>1 DEF AccountedInv
  <2> QED BY <1>1, <2>2 DEF Has
<1>8. WholeInv'
  <2> SUFFICES ASSUME runs = 1 PROVE FALSE
    BY <1>1 DEF WholeInv
  <2>1. Nothing(at)
    BY <1>1, <1>2 DEF WholeInv
  <2> QED BY <1>2, <1>3, <2>1, RowsDiffer DEF Nothing
<1> QED BY <1>4, <1>5, <1>6, <1>7, <1>8

LEMMA RunBinaryKeeps ==
  ASSUME MatrixInv, RunBinary
  PROVE  MatrixInv'
<1> USE DEF MatrixInv
<1>1. /\ stage = "loop" /\ at <= Len(Pairs) /\ ~ (resume /\ Completed(Pairs[at]))
      /\ log' = [k \in DOMAIN Rows |-> Printed(at, k)]
      /\ stage' = "append" /\ UNCHANGED <<csv, resume, at, runs, finished>>
  BY DEF RunBinary, Due, Printed
<1>2. at \in DOMAIN Pairs /\ at \in 1 .. Len(Pairs) /\ ~ finished
  BY <1>1, PairsFacts DEF Shape, MatrixTypeOK
<1>3. /\ log' \in Seq(Anything) /\ Len(log') = 6
      /\ \A p \in 1 .. 6 : log'[p] = Printed(at, p)
  <2>1. DOMAIN Rows = 1 .. 6
    BY DEF Rows
  <2>2. \A p \in 1 .. 6 : Printed(at, p) \in Anything
    BY <1>2, RowsDiffer
  <2>3. log' \in [1 .. 6 -> Anything]
    BY <1>1, <2>1, <2>2
  <2> QED BY <1>1, <2>1, <2>3
<1>4. ~ Has(Opened(at))
  <2>1. CASE resume
    BY <1>1, <2>1 DEF Completed, Has, Opened
  <2>2. CASE ~ resume
    BY <1>1, <1>2, <2>2 DEF OpenedInv, Awaited
  <2> QED BY <2>1, <2>2
<1>5. Shape'
  BY <1>1, <1>2, <1>3 DEF Shape, MatrixTypeOK
<1>6. LogInv'
  BY <1>1, <1>2, <1>3 DEF LogInv, Printed
<1>7. OpenedInv'
  <2> SUFFICES ASSUME NEW k \in DOMAIN Pairs
               PROVE  /\ Unique(Opened(k))'
                      /\ Awaited(k)' => ~ Has(Opened(k))'
    BY DEF OpenedInv, Opened
  <2>1. Unique(Opened(k))'
    BY <1>1 DEF OpenedInv, Unique
  <2>2. Awaited(k)' => Awaited(k) \/ k = at
    BY <1>1, <1>2, PairsFacts DEF Awaited
  <2>3. Awaited(k)' => ~ Has(Opened(k))
    BY <1>4, <2>2 DEF OpenedInv
  <2> QED BY <1>1, <2>1, <2>3 DEF Has
<1>8. AccountedInv'
  <2> SUFFICES ASSUME NEW k \in DOMAIN Pairs, Passed(k)'
               PROVE  (Has(Opened(k)) \/ Has(Failed(k)))'
    BY DEF AccountedInv
  <2>1. Passed(k)
    BY <1>1, <1>3 DEF Passed
  <2> QED BY <1>1, <2>1 DEF AccountedInv, Has
<1>9. WholeInv'
  <2> SUFFICES ASSUME runs = 1, NEW k \in DOMAIN Pairs
               PROVE  /\ k < at => Whole(k)'
                      /\ k > at => Nothing(k)'
                      /\ k = at => Begun(k, 0)'
    BY <1>1, <1>2, <1>3 DEF WholeInv
  <2>1. (k < at => Whole(k)) /\ (k >= at => Nothing(k))
    BY <1>1, <1>2, PairsFacts DEF WholeInv
  <2>2. Nothing(k) => Begun(k, 0)
    BY DEF Nothing, Begun
  <2>3. /\ Whole(k)' <=> Whole(k)
        /\ Nothing(k)' <=> Nothing(k)
        /\ Begun(k, 0)' <=> Begun(k, 0)
    BY <1>1, SameFile
  <2> QED BY <1>2, <2>1, <2>2, <2>3, PairsFacts
<1> QED BY <1>5, <1>6, <1>7, <1>8, <1>9

LEMMA RunFailedKeeps ==
  ASSUME MatrixInv, RunFailed
  PROVE  MatrixInv'
<1> USE DEF MatrixInv
<1>1. /\ stage = "loop" /\ at <= Len(Pairs)
      /\ csv' = Append(csv, Failed(at))
      /\ at' = at + 1 /\ UNCHANGED <<stage, resume, log, runs, finished>>
  BY DEF RunFailed, Due, Failed
<1>2. at \in DOMAIN Pairs /\ at \in 1 .. Len(Pairs) /\ ~ finished
  BY <1>1, PairsFacts DEF Shape, MatrixTypeOK
<1>3. csv \in Seq(Anything) /\ Failed(at) \in Anything
  BY <1>2, RowsDiffer DEF Shape
<1>4. Shape'
  <2>1. csv' \in Seq(Anything)
    BY <1>1, <1>3, Written
  <2> QED BY <1>1, <1>2, <2>1, PairsFacts DEF Shape, MatrixTypeOK
<1>5. LogInv'
  BY <1>1 DEF LogInv
<1>6. \A k \in DOMAIN Pairs : /\ Has(Opened(k))' <=> Has(Opened(k))
                              /\ Unique(Opened(k)) => Unique(Opened(k))'
  <2> SUFFICES ASSUME NEW k \in DOMAIN Pairs
               PROVE  /\ Has(Opened(k))' <=> Has(Opened(k))
                      /\ Unique(Opened(k)) => Unique(Opened(k))'
    OBVIOUS
  <2>1. Opened(k) # Failed(at)
    BY <1>2, RowsDiffer
  <2> QED BY <1>1, <1>3, <2>1, WrittenOther
<1>7. OpenedInv'
  <2>1. \A k \in DOMAIN Pairs : Awaited(k)' => Awaited(k)
    BY <1>1, <1>2, PairsFacts DEF Awaited
  <2> QED BY <1>6, <2>1 DEF OpenedInv
<1>8. AccountedInv'
  <2> SUFFICES ASSUME NEW k \in DOMAIN Pairs, Passed(k)'
               PROVE  Has(Opened(k))' \/ Has(Failed(k))'
    BY DEF AccountedInv
  <2>1. Passed(k) \/ k = at
    BY <1>1, <1>2, PairsFacts DEF Passed
  <2>2. CASE k = at
    BY <1>1, <1>3, <2>2, Written
  <2>3. CASE Passed(k)
    BY <1>1, <1>3, <2>3, Written DEF AccountedInv
  <2> QED BY <2>1, <2>2, <2>3
<1>9. WholeInv'
  <2> SUFFICES ASSUME runs = 1, NEW k \in DOMAIN Pairs
               PROVE  /\ k <= at => Whole(k)'
                      /\ k > at => Nothing(k)'
    BY <1>1, <1>2, PairsFacts DEF WholeInv
  <2>1. (k < at => Whole(k)) /\ (k >= at => Nothing(k))
    BY <1>1, <1>2, PairsFacts DEF WholeInv
  <2>2. \A p \in 1 .. 6 : /\ Has(Printed(k, p))' <=> Has(Printed(k, p))
                          /\ One(Printed(k, p)) => One(Printed(k, p))'
    <3> SUFFICES ASSUME NEW p \in 1 .. 6
                 PROVE  /\ Has(Printed(k, p))' <=> Has(Printed(k, p))
                        /\ One(Printed(k, p)) => One(Printed(k, p))'
      OBVIOUS
    <3>1. Printed(k, p) # Failed(at)
      BY <1>2, RowsDiffer
    <3> QED BY <1>1, <1>3, <3>1, WrittenOther
  <2>3. k # at => /\ Has(Failed(k))' <=> Has(Failed(k))
                  /\ One(Failed(k)) => One(Failed(k))'
    <3>1. k # at => Failed(k) # Failed(at)
      <4>1. 1 \in 1 .. 6
        OBVIOUS
      <4> QED BY <1>2, <4>1, RowsDiffer
    <3> QED BY <1>1, <1>3, <3>1, WrittenOther
  <2>4. CASE k < at
    BY <1>2, <2>1, <2>2, <2>3, <2>4, PairsFacts DEF Whole
  <2>5. CASE k > at
    BY <1>2, <2>1, <2>2, <2>3, <2>5, PairsFacts DEF Nothing
  <2>6. CASE k = at
    <3>1. ~ Has(Failed(k)) /\ csv' = Append(csv, Failed(k)) /\ Failed(k) \in Anything
      BY <1>1, <1>2, <1>3, <2>1, <2>6, PairsFacts DEF Nothing
    <3>2. One(Failed(k))'
      BY <1>3, <3>1, WrittenOnce
    <3> QED BY <1>2, <2>6, <3>2, PairsFacts DEF Whole
  <2> QED BY <1>2, <2>4, <2>5, <2>6, PairsFacts
<1> QED BY <1>4, <1>5, <1>7, <1>8, <1>9

LEMMA AppendRowKeeps ==
  ASSUME MatrixInv, AppendRow
  PROVE  MatrixInv'
<1> USE DEF MatrixInv
<1>1. /\ stage = "append" /\ log # <<>>
      /\ csv' = Append(csv, Head(log)) /\ log' = Tail(log)
      /\ UNCHANGED <<stage, resume, at, runs, finished>>
  BY DEF AppendRow
<1>2. at \in DOMAIN Pairs /\ at \in 1 .. Len(Pairs) /\ ~ finished
  BY <1>1, PairsFacts DEF Shape, MatrixTypeOK, LogInv
<1>3. PICK left \in 1 .. 6 : left = Len(log)
  <2>1. Len(log) \in Nat /\ Len(log) # 0
    BY <1>1, EmptySeq DEF Shape
  <2>2. Len(log) <= 6
    BY <1>1 DEF LogInv
  <2> DEFINE n == Len(log)
  <2> HIDE DEF n
  <2>3. n \in Nat /\ n # 0 /\ n <= 6
    BY <2>1, <2>2 DEF n
  <2>4. n \in 1 .. 6
    BY <2>3
  <2> QED BY <2>4 DEF n
<1>4. PICK next \in 1 .. 6 : next = 7 - left
  <2>1. 7 - left \in 1 .. 6
    OBVIOUS
  <2> QED BY <2>1
<1>5. PICK here \in DOMAIN Pairs : here = at
  BY <1>2
<1>6. Head(log) = Printed(here, next)
  <2>1. Head(log) = log[1] /\ 6 - Len(log) + 1 = next /\ 1 \in 1 .. Len(log)
    BY <1>3, <1>4
  <2>2. log[1] = Printed(at, 6 - Len(log) + 1)
    BY <1>1, <2>1 DEF LogInv
  <2> QED BY <1>5, <2>1, <2>2
<1>7. /\ Tail(log) \in Seq(Anything) /\ Len(Tail(log)) = left - 1
      /\ \A i \in 1 .. left - 1 : Tail(log)[i] = log[i+1]
  <2>1. log \in Seq(Anything) /\ log # <<>>
    BY <1>1 DEF Shape
  <2> QED BY <1>3, <2>1, HeadTailProperties
<1>8. csv \in Seq(Anything) /\ csv' = Append(csv, Printed(here, next))
        /\ Printed(here, next) \in Anything
  BY <1>1, <1>6, RowsDiffer DEF Shape
<1>9. Shape'
  <2>1. csv' \in Seq(Anything)
    BY <1>8, Written
  <2> QED BY <1>1, <1>7, <2>1 DEF Shape, MatrixTypeOK
<1>10. LogInv'
  <2>1. ASSUME NEW i \in 1 .. left - 1
        PROVE  log'[i] = Printed(at, 6 - (left - 1) + i)
    <3>1. log'[i] = log[i+1] /\ i + 1 \in 1 .. Len(log)
      BY <1>1, <1>3, <1>7
    <3>2. log[i+1] = Printed(at, 6 - Len(log) + (i + 1))
      BY <1>1, <3>1 DEF LogInv
    <3>3. 6 - Len(log) + (i + 1) = 6 - (left - 1) + i
      BY <1>3
    <3> QED BY <3>1, <3>2, <3>3
  <2>2. at' = at /\ at <= Len(Pairs) /\ Len(log') = left - 1 /\ left - 1 <= 6
    BY <1>1, <1>3, <1>7 DEF LogInv
  <2> HIDE DEF MatrixInv
  <2>3. \A i \in 1 .. Len(log') : log'[i] = Printed(at', 6 - Len(log') + i)
    BY <2>1, <2>2
  <2> QED BY <2>2, <2>3 DEF LogInv, Printed
<1>11. ASSUME NEW k \in DOMAIN Pairs, NEW p \in 1 .. 6, k # here \/ p # next
       PROVE  /\ Has(Printed(k, p))' <=> Has(Printed(k, p))
              /\ One(Printed(k, p)) => One(Printed(k, p))'
              /\ Unique(Printed(k, p)) => Unique(Printed(k, p))'
  <2>1. Printed(k, p) # Printed(here, next)
    BY <1>11, RowsDiffer
  <2> QED BY <1>8, <2>1, WrittenOther
<1>12. ASSUME NEW k \in DOMAIN Pairs
       PROVE  /\ Has(Failed(k))' <=> Has(Failed(k))
              /\ One(Failed(k)) => One(Failed(k))'
  <2>1. Failed(k) # Printed(here, next)
    BY RowsDiffer
  <2> QED BY <1>8, <2>1, WrittenOther
<1>13. ~ Has(Printed(here, next)) => One(Printed(here, next))'
  BY <1>8, WrittenOnce
<1>14. Has(Printed(here, next))'
  BY <1>8, Written
<1>15. ASSUME NEW k \in DOMAIN Pairs PROVE Opened(k) = Printed(k, 4)
  <2>1. 4 \in 1 .. 6
    OBVIOUS
  <2> QED BY <2>1, RowsDiffer
<1>16. at' = here /\ Len(log') = left - 1 /\ stage' = "append" /\ stage = "append"
       /\ resume' = resume /\ finished' = FALSE /\ runs' = runs
       /\ left \in 1 .. 6 /\ next = 7 - left /\ at = here /\ Len(log) = left
  <2>1. finished' = FALSE
    BY <1>1, <1>2 DEF Shape
  <2>2. at' = here /\ Len(log') = left - 1
    BY <1>1, <1>5, <1>7
  <2> QED BY <1>1, <1>3, <1>4, <1>5, <2>1, <2>2
<1>17. OpenedInv'
  <2> SUFFICES ASSUME NEW k \in DOMAIN Pairs
               PROVE  /\ Unique(Opened(k))'
                      /\ Awaited(k)' => ~ Has(Opened(k))'
    BY DEF OpenedInv
  <2>1. Unique(Opened(k)) /\ (Awaited(k) => ~ Has(Opened(k)))
    BY DEF OpenedInv
  <2>2. Awaited(k)' => Awaited(k) /\ ~ (k = here /\ next = 4)
    BY <1>16, PairsFacts DEF Awaited
  <2>3. Opened(k) = Printed(k, 4) /\ 4 \in 1 .. 6
    BY <1>15
  <2>4. CASE k # here \/ next # 4
    BY <1>11, <2>1, <2>2, <2>3, <2>4
  <2>5. CASE k = here /\ next = 4
    <3>1. Awaited(k)
      BY <1>16, <2>5 DEF Awaited
    <3> QED BY <1>13, <2>1, <2>2, <2>3, <2>5, <3>1 DEF One
  <2> QED BY <2>4, <2>5
<1>18. AccountedInv'
  <2> SUFFICES ASSUME NEW k \in DOMAIN Pairs, Passed(k)'
               PROVE  Has(Opened(k))' \/ Has(Failed(k))'
    BY DEF AccountedInv
  <2>1. Passed(k) \/ (k = here /\ next = 4)
    BY <1>16, PairsFacts DEF Passed
  <2>2. Opened(k) = Printed(k, 4) /\ 4 \in 1 .. 6
    BY <1>15
  <2>3. CASE k = here /\ next = 4
    BY <1>14, <2>2, <2>3
  <2>4. CASE k # here \/ next # 4
    BY <1>11, <1>12, <2>1, <2>2, <2>4 DEF AccountedInv
  <2> QED BY <2>3, <2>4
<1>19. WholeInv'
  <2> SUFFICES ASSUME runs = 1, NEW k \in DOMAIN Pairs
               PROVE  /\ k < here => Whole(k)'
                      /\ k > here => Nothing(k)'
                      /\ k = here => Begun(k, next)'
    <3>1. 6 - Len(log') = next
      BY <1>16
    <3> HIDE DEF MatrixInv
    <3> QED BY <1>16, <3>1, PairsFacts DEF WholeInv
  <2>1. /\ k < here => Whole(k)
        /\ k > here => Nothing(k)
        /\ k = here => Begun(k, 6 - left)
    <3>1. /\ k < at => Whole(k)
          /\ k > at => Nothing(k)
          /\ k = at => Begun(k, 6 - Len(log))
      BY <1>1, <1>2 DEF WholeInv
    <3> QED BY <1>16, <3>1
  <2>2. CASE k < here
    BY <1>11, <1>12, <1>16, <2>1, <2>2, PairsFacts DEF Whole
  <2>3. CASE k > here
    BY <1>11, <1>12, <1>16, <2>1, <2>3, PairsFacts DEF Nothing
  <2>4. CASE k = here
    <3> SUFFICES ASSUME NEW p \in 1 .. 6
                 PROVE  IF p <= next THEN One(Printed(k, p))'
                                     ELSE ~ Has(Printed(k, p))'
      BY <1>16, <2>4, PairsFacts DEF Begun
    <3>1. IF p <= 6 - left THEN One(Printed(k, p)) ELSE ~ Has(Printed(k, p))
      BY <2>1, <2>4 DEF Begun
    <3>2. CASE p = next
      BY <1>13, <1>16, <2>4, <3>1, <3>2
    <3>3. CASE p # next
      <4>1. p <= next <=> p <= 6 - left
        BY <1>16, <3>3
      <4> QED BY <1>11, <3>1, <3>3, <4>1
    <3> QED BY <3>2, <3>3
  <2> QED BY <2>2, <2>3, <2>4, PairsFacts, <1>16
<1> QED BY <1>9, <1>10, <1>17, <1>18, <1>19

LEMMA NextPairKeeps ==
  ASSUME MatrixInv, NextPair
  PROVE  MatrixInv'
<1> USE DEF MatrixInv
<1>1. /\ stage = "append" /\ log = <<>> /\ stage' = "loop" /\ at' = at + 1
      /\ csv' = csv /\ resume' = resume /\ log' = log /\ runs' = runs
      /\ finished' = finished
  BY DEF NextPair
<1>2. at \in DOMAIN Pairs /\ at \in 1 .. Len(Pairs) /\ ~ finished
      /\ Len(log) = 0
  BY <1>1, PairsFacts DEF Shape, MatrixTypeOK, LogInv
<1>3. Shape'
  BY <1>1, <1>2, PairsFacts DEF Shape, MatrixTypeOK
<1>4. LogInv'
  BY <1>1 DEF LogInv
<1>5. OpenedInv'
  <2>1. \A k \in DOMAIN Pairs : Awaited(k)' => Awaited(k)
    BY <1>1, <1>2, PairsFacts DEF Awaited
  <2> QED BY <1>1, <2>1, SameFile DEF OpenedInv
<1>6. AccountedInv'
  <2>1. \A k \in DOMAIN Pairs : Passed(k)' => Passed(k)
    BY <1>1, <1>2, PairsFacts DEF Passed
  <2> QED BY <1>1, <2>1, SameFile DEF AccountedInv
<1>7. WholeInv'
  <2> SUFFICES ASSUME runs = 1, NEW k \in DOMAIN Pairs
               PROVE  /\ k <= at => Whole(k)
                      /\ k > at => Nothing(k)
    BY <1>1, <1>2, SameFile, PairsFacts DEF WholeInv
  <2>1. /\ k < at => Whole(k)
        /\ k > at => Nothing(k)
        /\ k = at => Begun(k, 6 - Len(log))
    BY <1>1, <1>2 DEF WholeInv
  <2>2. Begun(k, 6) => Whole(k)
    BY DEF Begun, Whole
  <2> QED BY <1>2, <2>1, <2>2, PairsFacts
<1> QED BY <1>3, <1>4, <1>5, <1>6, <1>7

LEMMA FinishKeeps ==
  ASSUME MatrixInv, Finish
  PROVE  MatrixInv'
<1> USE DEF MatrixInv
<1>1. /\ stage = "loop" /\ at > Len(Pairs) /\ stage' = "idle" /\ finished' = TRUE
      /\ csv' = csv /\ resume' = resume /\ at' = at /\ log' = log
      /\ runs' = runs
  BY DEF Finish
<1>2. Shape'
  <2>1. finished' \in BOOLEAN
    BY <1>1, Zenon
  <2> QED BY <1>1, <2>1 DEF Shape, MatrixTypeOK
<1>3. LogInv'
  BY <1>1 DEF LogInv
<1>4. OpenedInv'
  <2>1. \A k \in DOMAIN Pairs : ~ Awaited(k)'
    BY <1>1 DEF Awaited
  <2> QED BY <1>1, <2>1, SameFile DEF OpenedInv
<1>5. \A k \in DOMAIN Pairs : k < at
  BY <1>1, PairsFacts DEF Shape, MatrixTypeOK
<1>6. AccountedInv'
  <2>1. \A k \in DOMAIN Pairs : Passed(k)
    BY <1>1, <1>5 DEF Passed
  <2> QED BY <1>1, <2>1, SameFile DEF AccountedInv
<1>7. WholeInv'
  <2> SUFFICES ASSUME runs = 1, NEW k \in DOMAIN Pairs
               PROVE  Whole(k)
    BY <1>1, SameFile DEF WholeInv
  <2> QED BY <1>1, <1>5 DEF WholeInv
<1> QED BY <1>2, <1>3, <1>4, <1>6, <1>7

LEMMA InterruptKeeps ==
  ASSUME MatrixInv, Interrupt
  PROVE  MatrixInv'
<1> USE DEF MatrixInv
<1>1. /\ stage # "idle" /\ stage' = "idle" /\ log' = <<>>
      /\ csv' = csv /\ resume' = resume /\ at' = at /\ runs' = runs
      /\ finished' = finished
  BY DEF Interrupt
<1>2. ~ finished
  BY <1>1 DEF Shape
<1>3. Shape'
  <2>1. <<>> \in Seq(Anything)
    OBVIOUS
  <2> QED BY <1>1, <2>1 DEF Shape, MatrixTypeOK
<1>4. OpenedInv'
  <2>1. \A k \in DOMAIN Pairs : ~ Awaited(k)'
    BY <1>1 DEF Awaited
  <2> QED BY <1>1, <2>1, SameFile DEF OpenedInv
<1>5. LogInv' /\ AccountedInv' /\ WholeInv'
  BY <1>1, <1>2 DEF LogInv, AccountedInv, Passed, WholeInv
<1> QED BY <1>3, <1>4, <1>5

LEMMA StutterKeeps ==
  ASSUME MatrixInv, UNCHANGED matrixVars
  PROVE  MatrixInv'
BY DEF MatrixInv, matrixVars, Shape, MatrixTypeOK, LogInv, OpenedInv, Awaited,
       AccountedInv, Passed, WholeInv, Whole, Nothing, Begun, One, Has, Unique

LEMMA StepMatrix == MatrixInv /\ [MatrixNext]_matrixVars => MatrixInv'
BY StartKeeps, SkipKeeps, RunBinaryKeeps, RunFailedKeeps, AppendRowKeeps,
   NextPairKeeps, FinishKeeps, InterruptKeeps, StutterKeeps DEF MatrixNext

LEMMA MatrixInvariant == MatrixSpec => []MatrixInv
BY InitMatrix, StepMatrix, PTL DEF MatrixSpec

---------------------------------------------------------------------------
(* What it says of the file.                                               *)

\* The script stays within its lists, its number of starts and the three
\* places it can be in, and a log is there only while it is appended.
THEOREM MatrixTypeCorrect == MatrixSpec => []MatrixTypeOK
<1>1. MatrixInv => MatrixTypeOK
  BY DEF MatrixInv, Shape
<1> QED BY <1>1, MatrixInvariant, PTL

\* However many pairs, starts, resumptions and interruptions there are, no
\* pair is ever opened twice in one file.
THEOREM OpenedOnceAlways == MatrixSpec => []OpenedOnce
<1>1. MatrixInv => OpenedOnce
  <2> SUFFICES ASSUME MatrixInv, NEW k \in DOMAIN Pairs
               PROVE  CountOf(Pairs[k], "core_open", "pass") <= 1
    BY DEF OpenedOnce
  <2>1. csv \in Seq(Anything) /\ Unique(Row(Pairs[k], "core_open", "pass"))
    BY DEF MatrixInv, Shape, OpenedInv, Opened
  <2> QED BY <2>1, Counts
<1> QED BY <1>1, MatrixInvariant, PTL

\* A run that comes to its end, the first or a resumed one, has left each
\* pair with an opening or a failure in the file.
THEOREM EveryPairAccountedAlways == MatrixSpec => []EveryPairAccounted
<1>1. MatrixInv => EveryPairAccounted
  <2> SUFFICES ASSUME MatrixInv, finished, NEW k \in DOMAIN Pairs
               PROVE  CountOf(Pairs[k], "core_open", "pass")
                        + CountOf(Pairs[k], "runner", "failed") > 0
    BY DEF EveryPairAccounted
  <2> DEFINE opened == CountOf(Pairs[k], "core_open", "pass")
             failed == CountOf(Pairs[k], "runner", "failed")
  <2>1. /\ csv \in Seq(Anything)
        /\ Has(Row(Pairs[k], "core_open", "pass"))
             \/ Has(Row(Pairs[k], "runner", "failed"))
    BY DEF MatrixInv, Shape, AccountedInv, Passed, Opened, Failed
  <2>2. opened \in Nat /\ failed \in Nat /\ (opened > 0 \/ failed > 0)
    BY <2>1, Counts
  <2> HIDE DEF opened, failed
  <2>3. opened + failed > 0
    BY <2>2
  <2> QED BY <2>3 DEF opened, failed
<1> QED BY <1>1, MatrixInvariant, PTL

\* A first run that comes to its end has in the file, for each pair, every
\* row its process printed exactly once, or exactly one row for its failure.
THEOREM UninterruptedIsWholeAlways == MatrixSpec => []UninterruptedIsWhole
<1>1. MatrixInv => UninterruptedIsWhole
  <2> SUFFICES ASSUME MatrixInv, finished, runs = 1, NEW k \in DOMAIN Pairs
               PROVE  \/ \A p \in DOMAIN Rows :
                           CountOf(Pairs[k], Rows[p], "pass") = 1
                      \/ CountOf(Pairs[k], "runner", "failed") = 1
    BY DEF UninterruptedIsWhole
  <2>1. csv \in Seq(Anything) /\ Whole(k)
    BY DEF MatrixInv, Shape, WholeInv
  <2>2. DOMAIN Rows = 1 .. 6
    BY DEF Rows
  <2>3. CASE One(Failed(k))
    BY <2>1, <2>3, Counts DEF Failed
  <2>4. CASE \A p \in 1 .. 6 : One(Printed(k, p))
    <3>1. ASSUME NEW p \in 1 .. 6
          PROVE  CountOf(Pairs[k], Rows[p], "pass") = 1
      <4>1. One(Row(Pairs[k], Rows[p], "pass"))
        BY <2>4 DEF Printed
      <4> QED BY <2>1, <4>1, Counts
    <3> QED BY <2>2, <3>1
  <2> QED BY <2>1, <2>3, <2>4 DEF Whole
<1> QED BY <1>1, MatrixInvariant, PTL
=============================================================================
