---------------------------- MODULE OpeningProofs ----------------------------
(***************************************************************************)
(* Theorems about module Opening, for any scheme whose scripts fit (the    *)
(* assumption ScriptsAssumption), whatever its steps compute and whatever  *)
(* the verifier reads.                                                     *)
(***************************************************************************)
EXTENDS Opening, TLAPS

---------------------------------------------------------------------------
(* Sequences whose elements have no common type.                           *)

IsSeq(s) == s \in Seq({s[i] : i \in DOMAIN s})

LEMMA SeqFacts ==
  ASSUME NEW s, IsSeq(s)
  PROVE  Len(s) \in Nat /\ DOMAIN s = 1 .. Len(s)
<1> DEFINE S == {s[i] : i \in DOMAIN s}
<1>1. s \in Seq(S)
  BY DEF IsSeq
<1> HIDE DEF S
<1> QED BY <1>1

LEMMA AppendFacts ==
  ASSUME NEW s, IsSeq(s), NEW x
  PROVE  /\ IsSeq(Append(s, x))
         /\ DOMAIN Append(s, x) = 1 .. Len(s) + 1 /\ Len(Append(s, x)) = Len(s) + 1
         /\ \A i \in 1 .. Len(s) : Append(s, x)[i] = s[i]
         /\ Append(s, x)[Len(s) + 1] = x
<1> DEFINE S == {s[i] : i \in DOMAIN s} \cup {x}
           t == Append(s, x)
           T == {t[i] : i \in DOMAIN t}
<1>1. s \in Seq(S) /\ x \in S
  <2>1. s \in Seq({s[i] : i \in DOMAIN s})
    BY DEF IsSeq
  <2> DEFINE R == {s[i] : i \in DOMAIN s}
  <2>2. s \in Seq(R) /\ R \subseteq S
    BY <2>1
  <2> HIDE DEF R, S
  <2>3. s \in Seq(S)
    BY <2>2
  <2> QED BY <2>3 DEF S
<1> HIDE DEF S
<1>2. /\ Len(s) \in Nat /\ t \in Seq(S)
      /\ DOMAIN t = 1 .. Len(s) + 1 /\ Len(t) = Len(s) + 1
      /\ \A i \in 1 .. Len(s) : t[i] = s[i]
      /\ t[Len(s) + 1] = x
  BY <1>1
<1> HIDE DEF t
<1>3. \A i \in 1 .. Len(t) : t[i] \in T
  BY <1>2
<1> HIDE DEF T
<1>4. t \in Seq(T)
  BY <1>2, <1>3
<1> QED BY <1>2, <1>4 DEF t, T, IsSeq

Contains(s, x) == \E i \in DOMAIN s : s[i] = x

LEMMA AppendContains ==
  ASSUME NEW s, IsSeq(s), NEW x
  PROVE  /\ \A y : Contains(s, y) => Contains(Append(s, x), y)
         /\ Contains(Append(s, x), x)
<1>1. Len(s) \in Nat /\ DOMAIN s = 1 .. Len(s)
  BY SeqFacts
<1>2. /\ DOMAIN Append(s, x) = 1 .. Len(s) + 1
      /\ \A i \in 1 .. Len(s) : Append(s, x)[i] = s[i]
      /\ Append(s, x)[Len(s) + 1] = x
  BY AppendFacts
<1>3. \A i \in DOMAIN s : i \in DOMAIN Append(s, x)
  BY <1>1, <1>2
<1>4. Len(s) + 1 \in DOMAIN Append(s, x)
  BY <1>1, <1>2
<1> QED BY <1>1, <1>2, <1>3, <1>4 DEF Contains

LEMMA NewIsSeq ==
  ASSUME NEW label
  PROVE  IsSeq(new(label).log)
<1> DEFINE x == <<label>>
           t == <<x>>
<1>1. new(label).log = t
  BY DEF new
<1> HIDE DEF x
<1>2. t \in Seq({x}) /\ DOMAIN t = {1} /\ t[1] = x
  OBVIOUS
<1>3. {t[i] : i \in DOMAIN t} = {x}
  BY <1>2
<1> QED BY <1>1, <1>2, <1>3 DEF IsSeq

---------------------------------------------------------------------------
(* Scripts.                                                                *)

LEMMA KnownFirst ==
  ASSUME NEW steps, IsSeq(steps)
  PROVE  KnownBefore(steps, 1) = {}
<1>1. DOMAIN steps = 1 .. Len(steps) /\ Len(steps) \in Nat
  BY SeqFacts
<1> QED BY <1>1 DEF KnownBefore, Where

LEMMA KnownNext ==
  ASSUME NEW steps, IsSeq(steps), NEW p \in 1 .. Len(steps)
  PROVE  /\ steps[p][1] \in Produces =>
              KnownBefore(steps, p + 1) = KnownBefore(steps, p) \cup {steps[p][2]}
         /\ steps[p][1] \notin Produces => KnownBefore(steps, p + 1) = KnownBefore(steps, p)
<1>1. DOMAIN steps = 1 .. Len(steps) /\ Len(steps) \in Nat
  BY SeqFacts
<1>2. \A k \in Where(steps, Produces) : k < p + 1 <=> k < p \/ k = p
  BY <1>1 DEF Where
<1>3. p \in Where(steps, Produces) <=> steps[p][1] \in Produces
  BY <1>1 DEF Where
<1> QED BY <1>1, <1>2, <1>3 DEF KnownBefore

\* What is known before a step is known before every later one.
LEMMA KnownGrows ==
  ASSUME NEW steps, IsSeq(steps), NEW i \in Nat, NEW j \in Nat, i <= j
  PROVE  KnownBefore(steps, i) \subseteq KnownBefore(steps, j)
<1>1. DOMAIN steps = 1 .. Len(steps) /\ Len(steps) \in Nat
  BY SeqFacts
<1>2. \A k \in Where(steps, Produces) : k < i => k < j
  BY <1>1 DEF Where
<1> QED BY <1>2 DEF KnownBefore

\* At the end everything is known.
LEMMA KnownAtEnd ==
  ASSUME NEW steps, IsSeq(steps), NEW p \in Nat, p > Len(steps)
  PROVE  KnownBefore(steps, p) = Labels(steps, Produces)
<1>1. DOMAIN steps = 1 .. Len(steps) /\ Len(steps) \in Nat
  BY SeqFacts
<1>2. \A k \in Where(steps, Produces) : k < p
  BY <1>1 DEF Where
<1> QED BY <1>2 DEF KnownBefore, Labels

LEMMA Fitting ==
  ASSUME scheme \in Scheme, asked \in Asked(scheme), claimed \in Claimed(scheme, asked)
  PROVE  LET written == ProverScript(scheme, asked)
             read == VerifierScript(scheme, claimed)
         IN  /\ IsSeq(written) /\ Where(written, {"check"}) = {} /\ DrawsAnew(written)
             /\ IsSeq(read) /\ DrawsAnew(read) /\ BindsInOrder(scheme, read)
             /\ Labels(read, Exchanged) \subseteq Labels(written, Produces)
BY ScriptsAssumption DEF IsSeq

---------------------------------------------------------------------------
(* Where the calls are and what the running party knows.                   *)

Control ==
  /\ scheme \in Scheme /\ asked \in Asked(scheme) /\ claimed \in Claimed(scheme, asked)
  /\ phase \in {"open", "opened", "refused", "forge", "verify", "done"}
  /\ phase = "open" => script = ProverScript(scheme, asked)
  /\ Verified => script = VerifierScript(scheme, claimed)
  /\ phase = "open" \/ Verified =>
       /\ pc \in 1 .. Len(script) + 1
       /\ env = [l \in DOMAIN env |-> env[l]]
       /\ DOMAIN env = KnownBefore(script, pc)
  /\ tries \in Nat /\ tries < Tries(scheme)
  /\ replaced \in Nat /\ replaced <= MaxReplaced
  /\ refused \in Nat /\ refused <= MaxRefused
  /\ phase \in {"open", "refused", "forge"} => proof = Nothing
  /\ \/ proof = Nothing
     \/ Labels(ProverScript(scheme, asked), Produces) \subseteq DOMAIN proof
LEMMA ControlInit == Init => Control
<1> SUFFICES ASSUME Init PROVE Control
  OBVIOUS
<1>1. /\ scheme \in Scheme /\ asked \in Asked(scheme) /\ claimed \in Claimed(scheme, asked)
      /\ phase \in {"open", "forge"} /\ pc = 1 /\ tries = 0 /\ env = Nothing
      /\ proof = Nothing /\ replaced = 0 /\ refused = 0
      /\ phase = "open" => script = ProverScript(scheme, asked)
  BY DEF Init
<1>2. /\ MaxReplaced \in Nat /\ MaxRefused \in Nat /\ Tries(scheme) \in Nat \ {0}
  BY <1>1, OpeningAssumption
<1>3. DOMAIN env = {} /\ env = [l \in DOMAIN env |-> env[l]]
  BY <1>1 DEF Nothing
<1>4. phase = "open" => KnownBefore(script, 1) = {} /\ 1 \in 1 .. Len(script) + 1
  BY <1>1, Fitting, KnownFirst, SeqFacts
<1> QED BY <1>1, <1>2, <1>3, <1>4 DEF Control, Verified

LEMMA DoingFacts ==
  ASSUME Control, NEW operations, Doing(operations)
  PROVE  /\ phase \in {"open", "verify"} /\ IsSeq(script)
         /\ Len(script) \in Nat /\ DOMAIN script = 1 .. Len(script)
         /\ pc \in 1 .. Len(script) /\ script[pc][1] \in operations
         /\ phase = "open" => script[pc][1] # "check"
<1>1. /\ phase \in {"open", "verify"} /\ IsSeq(script) /\ pc \in 1 .. Len(script) + 1
      /\ pc <= Len(script) /\ script[pc][1] \in operations
      /\ phase = "open" => Where(script, {"check"}) = {}
  BY Fitting DEF Control, Doing, Verified
<1>2. Len(script) \in Nat /\ DOMAIN script = 1 .. Len(script)
  BY <1>1, SeqFacts
<1> QED BY <1>1, <1>2 DEF Where

\* The next step is behind; nothing new is known.
LEMMA ControlMoves ==
  ASSUME Control, NEW operations, Doing(operations), operations \cap Produces = {},
         pc' = pc + 1, UNCHANGED <<inputs, script, phase, tries, env, proof, counts>>
  PROVE  Control'
<1>1. /\ phase \in {"open", "verify"} /\ IsSeq(script)
      /\ Len(script) \in Nat /\ pc \in 1 .. Len(script) /\ script[pc][1] \notin Produces
  BY DoingFacts
<1>2. KnownBefore(script, pc + 1) = KnownBefore(script, pc)
  BY <1>1, KnownNext
<1>3. /\ pc' \in 1 .. Len(script') + 1
      /\ env' = [l \in DOMAIN env' |-> env'[l]]
      /\ DOMAIN env' = KnownBefore(script', pc')
  BY <1>1, <1>2 DEF Control, Verified
<1> QED BY <1>1, <1>3 DEF Control, Verified, inputs, counts

\* A call ends where it is.
LEMMA ControlStops ==
  ASSUME Control, phase \in {"open", "verify"},
         phase' = IF phase = "open" THEN "refused" ELSE "done",
         UNCHANGED <<inputs, script, pc, tries, env, proof, replaced>>,
         refused' \in Nat, refused' <= MaxRefused
  PROVE  Control'
BY DEF Control, Verified, inputs

\* Something is known under the label of the step, as before or for the
\* first time.
LEMMA KnowFacts ==
  ASSUME NEW e, NEW l, NEW v
  PROVE  /\ DOMAIN Know(e, l, v) = DOMAIN e \cup {l}
         /\ Know(e, l, v)[l] = v
         /\ \A k \in DOMAIN e : k # l => Know(e, l, v)[k] = e[k]
         /\ Know(e, l, v) = [k \in DOMAIN Know(e, l, v) |-> Know(e, l, v)[k]]
BY DEF Know

LEMMA ControlKnows ==
  ASSUME Control, Doing(Produces), NEW v, env' = Know(env, Label, v), pc' = pc + 1,
         UNCHANGED <<inputs, script, phase, proof>>,
         tries' \in Nat, tries' < Tries(scheme),
         replaced' \in Nat, replaced' <= MaxReplaced, refused' \in Nat, refused' <= MaxRefused
  PROVE  Control'
<1>1. /\ phase \in {"open", "verify"} /\ IsSeq(script)
      /\ Len(script) \in Nat /\ pc \in 1 .. Len(script) /\ script[pc][1] \in Produces
  BY DoingFacts
<1>2. KnownBefore(script, pc + 1) = KnownBefore(script, pc) \cup {script[pc][2]}
  BY <1>1, KnownNext
<1>3. DOMAIN env = KnownBefore(script, pc)
  BY <1>1 DEF Control, Verified
<1>4. /\ DOMAIN env' = DOMAIN env \cup {script[pc][2]}
      /\ env' = [k \in DOMAIN env' |-> env'[k]]
  <2> DEFINE l == script[pc][2]
  <2>1. env' = Know(env, l, v)
    BY DEF Label
  <2> HIDE DEF l
  <2>2. /\ DOMAIN Know(env, l, v) = DOMAIN env \cup {l}
        /\ Know(env, l, v) = [k \in DOMAIN Know(env, l, v) |-> Know(env, l, v)[k]]
    BY DEF Know
  <2> QED BY <2>1, <2>2 DEF l
<1>5. /\ pc' \in 1 .. Len(script') + 1
      /\ DOMAIN env' = KnownBefore(script', pc')
  BY <1>1, <1>2, <1>3, <1>4
<1> QED BY <1>1, <1>4, <1>5 DEF Control, Verified, inputs

LEMMA ControlExchange ==
  ASSUME Control, Exchange
  PROVE  Control'
<1>1. PICK m \in {Expected} \cup Alternatives(Expected) :
        /\ env' = Know(env, Label, m)
        /\ replaced' = IF m = Expected THEN replaced ELSE replaced + 1
  BY DEF Exchange
<1>2. /\ Doing({"bind", "carry", "peek"}) /\ pc' = pc + 1
      /\ UNCHANGED <<inputs, script, phase, tries, proof, oracle, refused, result>>
  BY DEF Exchange
<1>3. Doing(Produces)
  BY <1>2 DEF Doing, Produces, Exchanged
<1>4. m # Expected => replaced < MaxReplaced
  BY <1>1 DEF Alternatives
<1>5. replaced' \in Nat /\ replaced' <= MaxReplaced
  BY <1>1, <1>4, OpeningAssumption DEF Control
<1> QED BY <1>1, <1>2, <1>3, <1>5, ControlKnows DEF Control

\* What one draw does to the counter, the transcript and the oracle.
LEMMA DrawnFacts ==
  ASSUME Control, NEW c, Drawn(c), UNCHANGED replaced
  PROVE  /\ refused' \in Nat /\ refused' <= MaxRefused
         /\ transcript' = append(transcript, Label, c)
         /\ LET query == Query(transcript, Label)
            IN  /\ query \in DOMAIN oracle' /\ oracle'[query] = c
                /\ \A q \in DOMAIN oracle : q \in DOMAIN oracle' /\ oracle'[q] = oracle[q]
<1>1. MaxRefused \in Nat /\ refused \in Nat /\ refused <= MaxRefused
  BY OpeningAssumption DEF Control
<1>2. /\ refused' \in {refused, refused + 1}
      /\ refused' <= MaxRefused \/ refused' <= refused
  BY DEF Drawn
<1> DEFINE query == Query(transcript, Label)
<1>3. /\ c \in Answers(oracle, query) /\ oracle' = Record(oracle, query, c)
      /\ transcript' = append(transcript, Label, c)
  BY DEF Drawn
<1>4. query \in DOMAIN oracle => c = oracle[query]
  BY <1>3 DEF Answers
<1> HIDE DEF query
<1>5. /\ query \in DOMAIN oracle' /\ oracle'[query] = c
      /\ \A q \in DOMAIN oracle : q \in DOMAIN oracle' /\ oracle'[q] = oracle[q]
  BY <1>3, <1>4 DEF Record
<1> QED BY <1>1, <1>2, <1>3, <1>5 DEF query

LEMMA ControlNext ==
  ASSUME Control, [Next]_vars
  PROVE  Control'
<1>1. CASE Absorb
  <2>1. {"absorb"} \cap Produces = {}
    BY DEF Produces, Exchanged
  <2> QED BY <1>1, <2>1, ControlMoves DEF Absorb
<1>2. CASE Renew
  <2>1. {"renew"} \cap Produces = {}
    BY DEF Produces, Exchanged
  <2> QED BY <1>2, <2>1, ControlMoves DEF Renew
<1>3. CASE Pass
  <2>1. Conditions \cap Produces = {}
    BY DEF Produces, Exchanged, Conditions
  <2> QED BY <1>3, <2>1, ControlMoves DEF Pass
<1>4. CASE Refuse
  <2>1. /\ Doing(Conditions) /\ UNCHANGED <<inputs, script, pc, tries, env, proof, counts>>
        /\ phase \in {"open", "verify"}
    BY <1>4 DEF Refuse, Doing
  <2>2. script[pc][1] = "check" => phase = "verify"
    BY <2>1, DoingFacts
  <2>3. phase' = IF phase = "open" THEN "refused" ELSE "done"
    BY <1>4, <2>1, <2>2 DEF Refuse, Fail, Doing
  <2> QED BY <2>1, <2>3, ControlStops DEF Control, counts
<1>5. CASE Exchange
  BY <1>5, ControlExchange
<1>6. CASE DrawUsed
  <2>1. PICK c \in Challenge : Drawn(c) /\ env' = Know(env, Label, c)
    BY <1>6 DEF DrawUsed
  <2>2. /\ Doing({"draw"}) /\ pc' = pc + 1 /\ tries' = 0
        /\ UNCHANGED <<inputs, script, phase, proof, replaced, result>>
    BY <1>6 DEF DrawUsed
  <2>3. refused' \in Nat /\ refused' <= MaxRefused
    BY <2>1, <2>2, DrawnFacts
  <2>4. Doing(Produces)
    BY <2>2 DEF Doing, Produces
  <2>5. tries' \in Nat /\ tries' < Tries(scheme)
    BY <2>2, OpeningAssumption DEF Control
  <2> QED BY <2>1, <2>2, <2>3, <2>4, <2>5, ControlKnows DEF Control
<1>7. CASE DrawAgain
  <2>1. PICK c \in Challenge : Drawn(c)
    BY <1>7 DEF DrawAgain
  <2>2. /\ phase \in {"open", "verify"} /\ tries + 1 < Tries(scheme) /\ tries' = tries + 1
        /\ UNCHANGED <<inputs, script, phase, pc, env, proof, replaced, result>>
    BY <1>7 DEF DrawAgain, Doing
  <2>3. refused' \in Nat /\ refused' <= MaxRefused
    BY <2>1, <2>2, DrawnFacts
  <2> QED BY <2>2, <2>3 DEF Control, Verified, inputs
<1>8. CASE DrawFailed
  <2>1. PICK c \in Challenge : Drawn(c)
    BY <1>8 DEF DrawFailed
  <2>2. /\ phase \in {"open", "verify"} /\ Fail
        /\ UNCHANGED <<inputs, script, pc, tries, env, proof, replaced>>
    BY <1>8 DEF DrawFailed, Doing
  <2>3. refused' \in Nat /\ refused' <= MaxRefused
    BY <2>1, <2>2, DrawnFacts
  <2> QED BY <2>2, <2>3, ControlStops DEF Fail
<1>9. CASE OpenReturns
  <2>1. /\ phase = "open" /\ pc > Len(script) /\ phase' = "opened" /\ proof' = env
        /\ UNCHANGED <<inputs, script, pc, tries, env, counts>>
    BY <1>9 DEF OpenReturns
  <2>2. script = ProverScript(scheme, asked) /\ IsSeq(script) /\ pc \in Nat
    BY <2>1, Fitting, SeqFacts DEF Control
  <2>3. DOMAIN proof' = Labels(ProverScript(scheme, asked), Produces)
    BY <2>1, <2>2, KnownAtEnd DEF Control
  <2> QED BY <2>1, <2>3 DEF Control, Verified, inputs, counts
<1>10. CASE VerifyBegins
  <2>1. /\ phase' = "verify" /\ script' = VerifierScript(scheme, claimed) /\ pc' = 1
        /\ env' = Nothing /\ UNCHANGED <<inputs, tries, proof, counts>>
    BY <1>10 DEF VerifyBegins
  <2>2. IsSeq(script') /\ Len(script') \in Nat
    BY <2>1, Fitting, SeqFacts DEF Control
  <2>3. KnownBefore(script', 1) = {}
    BY <2>2, KnownFirst
  <2>4. DOMAIN env' = {} /\ env' = [l \in DOMAIN env' |-> env'[l]]
    BY <2>1 DEF Nothing
  <2> QED BY <2>1, <2>2, <2>3, <2>4 DEF Control, Verified, inputs, counts
<1>11. CASE VerifyReturns
  BY <1>11 DEF VerifyReturns, Control, Verified, inputs, counts
<1>12. CASE UNCHANGED vars
  BY <1>12 DEF vars, Control, Verified
<1> QED BY <1>1, <1>2, <1>3, <1>4, <1>5, <1>6, <1>7, <1>8, <1>9, <1>10, <1>11, <1>12 DEF Next

LEMMA ControlAlways == Spec => []Control
<1>1. Init => Control
  BY ControlInit
<1>2. Control /\ [Next]_vars => Control'
  BY ControlNext
<1> QED BY <1>1, <1>2, PTL DEF Spec

\* For every scheme whose scripts fit, a party knows exactly what the steps
\* behind it have produced, repeats no draw too often, and finds in a proof
\* every message of its script (Opening, TypeOK).
THEOREM OpeningTypeCorrect == Spec => []TypeOK
<1>1. Control => TypeOK
  <2> SUFFICES ASSUME Control PROVE TypeOK
    OBVIOUS
  <2>1. Verified => Labels(script, Exchanged) \subseteq Labels(ProverScript(scheme, asked), Produces)
    BY Fitting DEF Control
  <2>2. {script[i][2] : i \in Positions(Exchanged)} = Labels(script, Exchanged)
    BY DEF Labels, Positions
  <2> QED BY <2>1, <2>2 DEF Control, TypeOK, Verified
<1> QED BY <1>1, ControlAlways, PTL

---------------------------------------------------------------------------
(* What the verifier has absorbed, and what it has asked the hash.         *)

\* Everything the steps behind absorbed over the running transcript is in it.
Absorbed ==
  /\ IsSeq(transcript.log)
  /\ \A j \in Where(script, {"bind", "absorb"}) :
       (j < pc /\ SameTranscript(script, j, pc)) => Contains(transcript.log, Entry(j))

\* query was answered by the challenge of draw d.
AskedFor(query, d) ==
  /\ query \in DOMAIN oracle
  /\ oracle[query] = env[script[d][2]]
  /\ query[Len(query)] = <<script[d][2]>>
  /\ \A j \in Where(script, {"bind", "absorb"}) :
       (j < d /\ SameTranscript(script, j, d)) => Contains(query, Entry(j))

Answered ==
  \A d \in Where(script, {"draw"}) : d < pc => \E query : AskedFor(query, d)

BindInv == Verified => Absorbed /\ Answered

\* What is known stays known as it is.
Kept == \A l \in DOMAIN env : l \in DOMAIN env' /\ env'[l] = env[l]

\* A party with the steps of its script.
Runs == phase = "open" \/ Verified

LEMMA RunsFacts ==
  ASSUME Control, Runs
  PROVE  /\ IsSeq(script) /\ Len(script) \in Nat /\ DOMAIN script = 1 .. Len(script)
         /\ pc \in 1 .. Len(script) + 1 /\ DOMAIN env = KnownBefore(script, pc)
         /\ env = [l \in DOMAIN env |-> env[l]]
         /\ DrawsAnew(script)
<1>1. IsSeq(script) /\ DrawsAnew(script)
  BY Fitting DEF Control, Runs
<1> QED BY <1>1, SeqFacts DEF Control, Runs

LEMMA VerifyFacts ==
  ASSUME Control, Verified
  PROVE  /\ IsSeq(script) /\ Len(script) \in Nat /\ DOMAIN script = 1 .. Len(script)
         /\ pc \in 1 .. Len(script) + 1 /\ DOMAIN env = KnownBefore(script, pc)
         /\ env = [l \in DOMAIN env |-> env[l]]
         /\ DrawsAnew(script) /\ BindsInOrder(scheme, script)
<1>1. BindsInOrder(scheme, script)
  BY Fitting DEF Control
<1> QED BY <1>1, RunsFacts DEF Runs

\* What a step did depends on nothing that is read or drawn later.
LEMMA StepKept ==
  ASSUME Control, Runs, Kept, UNCHANGED <<inputs, script>>,
         NEW st, NEW j \in DOMAIN script, j <= pc
  PROVE  /\ Before(script, env, j)' = Before(script, env, j)
         /\ \A c : UsableAt(script, st, env, j, c)' <=> UsableAt(script, st, env, j, c)
         /\ j < pc /\ script[j][1] \in Produces => env'[script[j][2]] = env[script[j][2]]
         /\ j < pc => EntryOf(script, st, env, j)' = EntryOf(script, st, env, j)
<1>1. /\ j \in 1 .. Len(script) /\ Len(script) \in Nat /\ pc \in Nat /\ IsSeq(script)
      /\ DOMAIN env = KnownBefore(script, pc)
  BY RunsFacts
<1>2. KnownBefore(script, j) \subseteq DOMAIN env
  BY <1>1, KnownGrows
<1>3. \A k \in KnownBefore(script, j) : env'[k] = env[k]
  BY <1>2 DEF Kept
<1>4. scheme' = scheme /\ script' = script
  BY DEF inputs
<1>5. Before(script, env, j)' = Before(script, env, j)
  <2>1. [k \in KnownBefore(script, j) |-> env'[k]] = [k \in KnownBefore(script, j) |-> env[k]]
    BY <1>3
  <2> QED BY <1>4, <2>1 DEF Before
<1>6. \A c : UsableAt(script, st, env, j, c)' <=> UsableAt(script, st, env, j, c)
  BY <1>4, <1>5 DEF UsableAt
<1>7. j < pc /\ script[j][1] \in Produces => env'[script[j][2]] = env[script[j][2]]
  BY <1>1 DEF KnownBefore, Where, Kept
<1>8. j < pc => EntryOf(script, st, env, j)' = EntryOf(script, st, env, j)
  <2>1. Content(st, Before(script, env, j), script[j][2])'
          = Content(st, Before(script, env, j), script[j][2])
    BY <1>4, <1>5 DEF Content
  <2>2. "bind" \in Produces
    BY DEF Produces, Exchanged
  <2> QED BY <1>4, <1>7, <2>1, <2>2 DEF EntryOf
<1> QED BY <1>5, <1>6, <1>7, <1>8

LEMMA EntryKept ==
  ASSUME Control, Verified, Kept, UNCHANGED <<inputs, script>>,
         NEW j \in Where(script, {"bind", "absorb"}), j < pc
  PROVE  Entry(j)' = Entry(j)
<1>1. PICK st : st = claimed
  OBVIOUS
<1>2. j \in DOMAIN script /\ j <= pc /\ claimed' = claimed
  BY VerifyFacts DEF Where, inputs
<1>3. EntryOf(script, st, env, j)' = EntryOf(script, st, env, j)
  BY <1>2, StepKept DEF Runs
<1> QED BY <1>1, <1>2, <1>3 DEF Entry, EntryOf, Content, Before

LEMMA AbsorbedKept ==
  ASSUME Control, Verified, Absorbed, Kept, UNCHANGED <<inputs, script>>,
         pc' = pc \/ pc' = pc + 1, IsSeq(transcript'.log),
         \A y : Contains(transcript.log, y) => Contains(transcript'.log, y),
         NEW p, p = pc,
         (pc' = p + 1 /\ p \in Where(script, {"bind", "absorb"}))
           => Contains(transcript'.log, Entry(p)')
  PROVE  Absorbed'
<1>1. script' = script /\ pc \in Nat /\ Where(script, {"bind", "absorb"}) \subseteq Nat
  BY VerifyFacts DEF Where
<1> SUFFICES ASSUME NEW j \in Where(script, {"bind", "absorb"}), j < pc',
                    SameTranscript(script, j, pc')
             PROVE  Contains(transcript'.log, Entry(j)')
  BY <1>1 DEF Absorbed
<1>2. CASE j < pc
  <2>1. SameTranscript(script, j, pc)
    BY <1>1, <1>2, VerifyFacts DEF SameTranscript, Where
  <2>2. Contains(transcript.log, Entry(j))
    BY <1>2, <2>1 DEF Absorbed
  <2>3. Entry(j)' = Entry(j)
    BY <1>2, EntryKept
  <2> QED BY <2>2, <2>3
<1>3. CASE ~ j < pc
  <2>1. j = p /\ pc' = p + 1
    BY <1>1, <1>3
  <2> QED BY <2>1
<1> QED BY <1>2, <1>3

LEMMA AnsweredKept ==
  ASSUME Control, Verified, Answered, Kept, UNCHANGED <<inputs, script>>,
         pc' = pc \/ pc' = pc + 1,
         \A q \in DOMAIN oracle : q \in DOMAIN oracle' /\ oracle'[q] = oracle[q],
         NEW p, p = pc,
         (pc' = p + 1 /\ p \in Where(script, {"draw"})) => \E query : AskedFor(query, p)'
  PROVE  Answered'
<1>1. /\ script' = script /\ pc \in Nat /\ Where(script, {"draw"}) \subseteq Nat
      /\ Where(script, {"bind", "absorb"}) \subseteq Nat
  BY VerifyFacts DEF Where
<1> SUFFICES ASSUME NEW d \in Where(script, {"draw"}), d < pc'
             PROVE  \E query : AskedFor(query, d)'
  BY <1>1 DEF Answered
<1>2. CASE d < pc
  <2>1. PICK query : AskedFor(query, d)
    BY <1>2 DEF Answered
  <2>2. script[d][2] \in DOMAIN env
    BY <1>2, VerifyFacts DEF KnownBefore, Where, Produces
  <2>3. oracle'[query] = env'[script[d][2]] /\ query \in DOMAIN oracle'
    BY <2>1, <2>2 DEF AskedFor, Kept
  <2>4. ASSUME NEW j \in Where(script, {"bind", "absorb"}), j < d, SameTranscript(script, j, d)
        PROVE  Contains(query, Entry(j)')
    <3>1. Contains(query, Entry(j))
      BY <2>1, <2>4 DEF AskedFor
    <3>2. j < pc
      BY <1>1, <1>2, <2>4
    <3>3. Entry(j)' = Entry(j)
      BY <3>2, EntryKept
    <3> QED BY <3>1, <3>3
  <2>5. AskedFor(query, d)'
    BY <1>1, <2>1, <2>3, <2>4 DEF AskedFor
  <2> QED BY <2>5
<1>3. CASE ~ d < pc
  <2>1. d = p /\ pc' = p + 1
    BY <1>1, <1>3
  <2> QED BY <2>1
<1> QED BY <1>2, <1>3

\* A step that leaves the transcript and the oracle alone.
LEMMA BindQuiet ==
  ASSUME Control, Verified, Absorbed, Answered,
         UNCHANGED <<inputs, script, transcript, oracle>>, Kept,
         \/ pc' = pc
         \/ pc' = pc + 1 /\ script[pc][1] \notin {"bind", "absorb", "draw"}
  PROVE  Absorbed' /\ Answered'
<1>1. pc' = pc + 1 => pc \notin Where(script, {"bind", "absorb"}) /\ pc \notin Where(script, {"draw"})
  BY VerifyFacts DEF Where
<1>2. IsSeq(transcript'.log) /\ transcript'.log = transcript.log
  BY DEF Absorbed
<1>3. PICK p : p = pc
  OBVIOUS
<1>4. Absorbed'
  BY <1>1, <1>2, <1>3, AbsorbedKept
<1>5. Answered'
  BY <1>1, <1>3, AnsweredKept
<1> QED BY <1>4, <1>5

LEMMA BindAbsorb ==
  ASSUME Control, Verified, Absorbed, Answered, Absorb
  PROVE  Absorbed' /\ Answered'
<1>1. /\ Doing({"absorb"}) /\ pc' = pc + 1
      /\ transcript' = append(transcript, Label, Content(Statement, env, Label))
      /\ UNCHANGED <<inputs, script, phase, env, oracle>>
  BY DEF Absorb
<1>2. PICK p : p = pc
  OBVIOUS
<1>3. /\ script[p][1] = "absorb" /\ p \in 1 .. Len(script) /\ DOMAIN script = 1 .. Len(script)
      /\ phase = "verify" /\ Len(script) \in Nat
  BY <1>1, <1>2, DoingFacts DEF Verified
<1>4. Entry(p)' = <<Label, Content(Statement, env, Label)>>
  <2>1. env = [l \in KnownBefore(script, p) |-> env[l]]
    BY <1>2, VerifyFacts
  <2>2. /\ scheme' = scheme /\ claimed' = claimed /\ script' = script /\ env' = env
        /\ Label = script[p][2] /\ Statement = claimed
    BY <1>1, <1>2, <1>3 DEF inputs, Label, Statement
  <2>3. Entry(p)' = <<script[p][2], Content(claimed, env, script[p][2])>>
    BY <1>3, <2>1, <2>2 DEF Entry, EntryOf, Before, Content
  <2> QED BY <2>2, <2>3
<1>5. /\ IsSeq(transcript'.log)
      /\ \A y : Contains(transcript.log, y) => Contains(transcript'.log, y)
      /\ Contains(transcript'.log, Entry(p)')
  <2> DEFINE x == <<Label, Content(Statement, env, Label)>>
  <2>1. transcript'.log = Append(transcript.log, x)
    BY <1>1 DEF append
  <2>2. Entry(p)' = x
    BY <1>4
  <2> HIDE DEF x
  <2> QED BY <2>1, <2>2, AppendFacts, AppendContains DEF Absorbed
<1>6. Kept
  BY <1>1 DEF Kept
<1>7. p \notin Where(script, {"draw"})
  BY <1>3 DEF Where
<1>8. Absorbed'
  BY <1>1, <1>2, <1>5, <1>6, AbsorbedKept
<1>9. Answered'
  BY <1>1, <1>2, <1>6, <1>7, AnsweredKept
<1> QED BY <1>8, <1>9

\* A label known before is read as it was.
LEMMA BindExchange ==
  ASSUME Control, Verified, Absorbed, Answered, Exchange
  PROVE  Absorbed' /\ Answered'
<1>1. PICK m \in {Expected} \cup Alternatives(Expected) :
        /\ env' = Know(env, Label, m)
        /\ transcript' = IF Doing({"bind"}) THEN append(transcript, Label, m) ELSE transcript
  BY DEF Exchange
<1>2. /\ Doing({"bind", "carry", "peek"}) /\ pc' = pc + 1
      /\ UNCHANGED <<inputs, script, phase, oracle>>
  BY DEF Exchange
<1>3. PICK p : p = pc
  OBVIOUS
<1>4. /\ script[p][1] \in {"bind", "carry", "peek"} /\ p \in 1 .. Len(script)
      /\ DOMAIN script = 1 .. Len(script) /\ Len(script) \in Nat
  BY <1>2, <1>3, DoingFacts
<1>5. /\ DOMAIN env' = DOMAIN env \cup {Label} /\ env'[Label] = m
      /\ \A k \in DOMAIN env : k # Label => env'[k] = env[k]
  BY <1>1 DEF Know
<1>6. Label \in DOMAIN env => m = env[Label]
  BY <1>1 DEF Expected, Alternatives
<1>7. Kept
  BY <1>5, <1>6 DEF Kept
<1>8. p \notin Where(script, {"draw"})
  BY <1>4 DEF Where
<1>9. Answered'
  BY <1>2, <1>3, <1>7, <1>8, AnsweredKept
<1>10. CASE script[p][1] = "bind"
  <2>1. transcript'.log = Append(transcript.log, <<Label, m>>)
    BY <1>1, <1>2, <1>3, <1>10 DEF Doing, append
  <2>2. Entry(p)' = <<Label, m>>
    BY <1>2, <1>3, <1>5, <1>10 DEF Entry, EntryOf, Label
  <2>3. /\ IsSeq(transcript'.log)
        /\ \A y : Contains(transcript.log, y) => Contains(transcript'.log, y)
        /\ Contains(transcript'.log, Entry(p)')
    <3> DEFINE x == <<Label, m>>
    <3>1. transcript'.log = Append(transcript.log, x) /\ Entry(p)' = x
      BY <2>1, <2>2
    <3> HIDE DEF x
    <3> QED BY <3>1, AppendFacts, AppendContains DEF Absorbed
  <2>4. Absorbed'
    BY <1>2, <1>3, <1>7, <2>3, AbsorbedKept
  <2> QED BY <1>9, <2>4
<1>11. CASE script[p][1] # "bind"
  <2>1. transcript'.log = transcript.log
    BY <1>1, <1>3, <1>11 DEF Doing
  <2>2. p \notin Where(script, {"bind", "absorb"})
    BY <1>4, <1>11 DEF Where
  <2>3. IsSeq(transcript'.log)
    BY <2>1 DEF Absorbed
  <2>4. Absorbed'
    BY <1>2, <1>3, <1>7, <2>1, <2>2, <2>3, AbsorbedKept
  <2> QED BY <1>9, <2>4
<1> QED BY <1>10, <1>11

\* The challenge of a draw that was not used leaves everything known as it is.
LEMMA BindDrawn ==
  ASSUME Control, Verified, Absorbed, Answered, Doing({"draw"}), NEW c, Drawn(c), Kept,
         UNCHANGED <<inputs, script, replaced>>,
         pc' = pc \/ (pc' = pc + 1 /\ env'[Label] = c)
  PROVE  Absorbed' /\ Answered'
<1>1. PICK p : p = pc
  OBVIOUS
<1>2. /\ script[p][1] = "draw" /\ p \in 1 .. Len(script)
      /\ DOMAIN script = 1 .. Len(script) /\ Len(script) \in Nat
  BY <1>1, DoingFacts
<1> DEFINE x == <<Label, c>>
           y == <<Label>>
<1>3. PICK query : query = Query(transcript, Label)
  OBVIOUS
<1>4. /\ transcript'.log = Append(transcript.log, x)
      /\ query \in DOMAIN oracle' /\ oracle'[query] = c
      /\ \A q \in DOMAIN oracle : q \in DOMAIN oracle' /\ oracle'[q] = oracle[q]
  BY <1>3, DrawnFacts DEF append
<1>5. query = Append(transcript.log, y) /\ y = <<script[p][2]>>
  BY <1>3, <1>1 DEF Query, Label
<1> HIDE DEF x, y
<1>6. /\ IsSeq(transcript.log) /\ IsSeq(transcript'.log) /\ Len(transcript.log) \in Nat
      /\ \A z : Contains(transcript.log, z) => Contains(transcript'.log, z)
      /\ \A z : Contains(transcript.log, z) => Contains(query, z)
      /\ query[Len(query)] = y
  BY <1>4, <1>5, SeqFacts, AppendFacts, AppendContains DEF Absorbed
<1>7. p \notin Where(script, {"bind", "absorb"})
  BY <1>2 DEF Where
<1>8. Absorbed'
  BY <1>1, <1>6, <1>7, AbsorbedKept
<1>9. ASSUME pc' = p + 1
      PROVE  AskedFor(query, p)'
  <2>1. env'[script[p][2]] = c
    BY <1>1, <1>2, <1>9 DEF Label
  <2>2. ASSUME NEW j \in Where(script, {"bind", "absorb"}), j < p, SameTranscript(script, j, p)
        PROVE  Contains(query, Entry(j)')
    <3>1. Contains(transcript.log, Entry(j))
      BY <1>1, <2>2 DEF Absorbed
    <3>2. Entry(j)' = Entry(j)
      BY <1>1, <2>2, EntryKept
    <3> QED BY <1>6, <3>1, <3>2
  <2>3. script' = script
    OBVIOUS
  <2>4. oracle'[query] = env'[script'[p][2]]
    BY <1>4, <2>1, <2>3
  <2>5. query[Len(query)] = <<script'[p][2]>>
    BY <1>5, <1>6, <2>3
  <2>6. \A j \in Where(script', {"bind", "absorb"}) :
          (j < p /\ SameTranscript(script', j, p)) => Contains(query, Entry(j)')
    BY <2>2, <2>3
  <2> QED BY <1>4, <2>4, <2>5, <2>6 DEF AskedFor
<1>10. Answered'
  BY <1>1, <1>4, <1>9, AnsweredKept
<1> QED BY <1>8, <1>10

\* A draw has a name of its own.
LEMMA DrawIsFresh ==
  ASSUME Control, Verified, NEW d \in Where(script, {"draw"})
  PROVE  /\ script[d][2] \notin KnownBefore(script, d)
         /\ script[d][2] \in DOMAIN env => d < pc
<1>1. /\ BindsInOrder(scheme, script) /\ DOMAIN env = KnownBefore(script, pc) /\ IsSeq(script)
      /\ pc \in Nat /\ d \in Nat
  BY VerifyFacts DEF Where
<1>2. script[d][2] \notin KnownBefore(script, d)
  BY VerifyFacts DEF DrawsAnew
<1>3. ASSUME ~ d < pc
      PROVE  script[d][2] \notin DOMAIN env
  <2>1. pc <= d
    BY <1>1, <1>3
  <2> QED BY <1>1, <1>2, <2>1, KnownGrows
<1> QED BY <1>2, <1>3

\* Only VerifyBegins makes a verifier.
LEMMA VerifiedBefore ==
  ASSUME Control, [Next]_vars, ~ VerifyBegins, Verified'
  PROVE  Verified
<1>1. CASE Refuse
  <2>1. Doing(Conditions)
    BY <1>1 DEF Refuse
  <2>2. phase \in {"open", "verify"} /\ (phase = "open" => script[pc][1] # "check")
    BY <2>1, DoingFacts
  <2>3. phase = "open" => phase' = "refused"
    BY <1>1, <2>2 DEF Refuse, Fail, Doing
  <2> QED BY <2>2, <2>3 DEF Verified
<1>2. CASE DrawFailed
  BY <1>2 DEF DrawFailed, Fail, Doing, Verified
<1>3. CASE ~ Refuse /\ ~ DrawFailed
  BY <1>3 DEF Next, vars, Verified, Absorb, Renew, Pass, Exchange, DrawUsed, DrawAgain,
         OpenReturns, VerifyReturns
<1> QED BY <1>1, <1>2, <1>3

LEMMA BindNext ==
  ASSUME Control, BindInv, [Next]_vars
  PROVE  BindInv'
<1>1. CASE VerifyBegins
  <2>1. script' = VerifierScript(scheme, claimed) /\ pc' = 1 /\ transcript' = new(scheme)
    BY <1>1 DEF VerifyBegins
  <2>2. IsSeq(script')
    BY <2>1, Fitting DEF Control
  <2>3. DOMAIN script' = 1 .. Len(script') /\ Len(script') \in Nat
    BY <2>2, SeqFacts
  <2>4. /\ \A j \in Where(script', {"bind", "absorb"}) : ~ j < pc'
        /\ \A d \in Where(script', {"draw"}) : ~ d < pc'
    BY <2>1, <2>3 DEF Where
  <2>5. IsSeq(transcript'.log)
    BY <2>1, NewIsSeq
  <2> QED BY <2>4, <2>5 DEF BindInv, Absorbed, Answered
<1> SUFFICES ASSUME ~ VerifyBegins, Verified' PROVE Absorbed' /\ Answered'
  BY <1>1 DEF BindInv
<1>2. Verified
  BY VerifiedBefore
<1>3. Absorbed /\ Answered
  BY <1>2 DEF BindInv
<1>4. UNCHANGED env => Kept
  BY DEF Kept
<1>5. CASE Absorb
  BY <1>2, <1>3, <1>5, BindAbsorb
<1>6. CASE Renew
  <2>1. /\ Doing({"renew"}) /\ pc' = pc + 1 /\ transcript' = new(Label)
        /\ UNCHANGED <<inputs, script, env, oracle>>
    BY <1>6 DEF Renew
  <2>2. PICK p : p = pc
    OBVIOUS
  <2>3. /\ script[p][1] = "renew" /\ p \in 1 .. Len(script) /\ DOMAIN script = 1 .. Len(script)
        /\ Len(script) \in Nat
    BY <2>1, <2>2, DoingFacts
  <2>4. p \notin Where(script, {"draw"}) /\ p \in Where(script, {"renew"})
    BY <2>3 DEF Where
  <2>5. Answered'
    BY <1>2, <1>3, <1>4, <2>1, <2>2, <2>4, AnsweredKept
  <2>6. \A j \in Where(script, {"bind", "absorb"}) : j < p + 1 => ~ SameTranscript(script, j, p + 1)
    BY <2>3, <2>4 DEF SameTranscript, Where
  <2>7. IsSeq(transcript'.log)
    BY <2>1, NewIsSeq
  <2>8. script' = script /\ pc' = p + 1
    BY <2>1, <2>2
  <2> QED BY <2>5, <2>6, <2>7, <2>8 DEF Absorbed
<1>7. CASE Pass
  <2>1. Doing(Conditions) /\ pc' = pc + 1 /\ UNCHANGED <<inputs, script, env, transcript, oracle>>
    BY <1>7 DEF Pass
  <2>2. script[pc][1] \notin {"bind", "absorb", "draw"}
    BY <2>1 DEF Doing, Conditions
  <2> QED BY <1>2, <1>3, <1>4, <2>1, <2>2, BindQuiet
<1>8. CASE Refuse \/ VerifyReturns \/ UNCHANGED vars
  <2>1. pc' = pc /\ UNCHANGED <<inputs, script, env, transcript, oracle>>
    BY <1>8 DEF Refuse, VerifyReturns, vars, inputs
  <2> QED BY <1>2, <1>3, <1>4, <2>1, BindQuiet
<1>9. CASE Exchange
  BY <1>2, <1>3, <1>9, BindExchange
<1>10. CASE DrawUsed
  <2>1. PICK c \in Challenge : Drawn(c) /\ env' = Know(env, Label, c)
    BY <1>10 DEF DrawUsed
  <2>2. Doing({"draw"}) /\ pc' = pc + 1 /\ UNCHANGED <<inputs, script, replaced>>
    BY <1>10 DEF DrawUsed
  <2>3. PICK p : p = pc
    OBVIOUS
  <2>4. /\ script[p][1] = "draw" /\ p \in 1 .. Len(script) /\ DOMAIN script = 1 .. Len(script)
    BY <2>2, <2>3, DoingFacts
  <2>5. p \in Where(script, {"draw"})
    BY <2>4 DEF Where
  <2>6. Label \notin DOMAIN env
    BY <1>2, <2>3, <2>5, DrawIsFresh, VerifyFacts DEF Label
  <2>7. env'[Label] = c /\ Kept
    BY <2>1, <2>6 DEF Know, Kept
  <2> QED BY <1>2, <1>3, <2>1, <2>2, <2>7, BindDrawn
<1>11. CASE DrawAgain
  <2>1. PICK c \in Challenge : Drawn(c)
    BY <1>11 DEF DrawAgain
  <2>2. Doing({"draw"}) /\ pc' = pc /\ UNCHANGED <<inputs, script, replaced, env>>
    BY <1>11 DEF DrawAgain
  <2> QED BY <1>2, <1>3, <1>4, <2>1, <2>2, BindDrawn
<1>12. CASE DrawFailed
  <2>1. PICK c \in Challenge : Drawn(c)
    BY <1>12 DEF DrawFailed
  <2>2. Doing({"draw"}) /\ pc' = pc /\ UNCHANGED <<inputs, script, replaced, env>>
    BY <1>12 DEF DrawFailed
  <2> QED BY <1>2, <1>3, <1>4, <2>1, <2>2, BindDrawn
<1>13. CASE OpenReturns
  BY <1>2, <1>13 DEF OpenReturns, Verified
<1> QED BY <1>5, <1>6, <1>7, <1>8, <1>9, <1>10, <1>11, <1>12, <1>13 DEF Next

\* At the end of verify: the query that answered a draw contains everything
\* absorbed before it, and BindsInOrder says that this is everything the
\* draw must depend on.
LEMMA BoundAtEnd ==
  ASSUME Control, BindInv
  PROVE  DrawsBind
<1> SUFFICES ASSUME phase = "done",
                    NEW d \in {i \in Positions({"draw"}) : script[i][2] \in DOMAIN env}
             PROVE  \E query \in DOMAIN oracle :
                      LET absorbed == {j \in Positions({"bind", "absorb"}) :
                                         j < d /\ \E i \in DOMAIN query : query[i] = Entry(j)}
                      IN  /\ oracle[query] = env[script[d][2]]
                          /\ query[Len(query)] = <<script[d][2]>>
                          /\ \A l \in Bound(scheme, script[d][2]) :
                               \E j \in absorbed : script[j][2] = l
                          /\ \A i \in Positions(Exchanged) :
                               (i < d /\ SameTranscript(script, i, d)) =>
                                 \E j \in absorbed :
                                   /\ script[i][2] \in {script[j][2], Carried(scheme, script[j][2])}
                                   /\ Entry(j)[2] = env[script[i][2]]
  BY DEF DrawsBind
<1>1. Verified /\ d \in Where(script, {"draw"}) /\ script[d][2] \in DOMAIN env
  BY DEF Verified, Positions
<1>2. d < pc /\ script[d][2] \notin KnownBefore(script, d)
  BY <1>1, DrawIsFresh
<1>3. PICK query : AskedFor(query, d)
  BY <1>1, <1>2 DEF BindInv, Answered
<1>4. /\ BindsInOrder(scheme, script) /\ DOMAIN script = 1 .. Len(script)
      /\ DOMAIN env = KnownBefore(script, pc) /\ IsSeq(script)
  BY <1>1, VerifyFacts
<1> DEFINE absorbed == {j \in Positions({"bind", "absorb"}) :
                          j < d /\ \E i \in DOMAIN query : query[i] = Entry(j)}
<1>5. \A j \in Where(script, {"bind", "absorb"}) :
        (j < d /\ SameTranscript(script, j, d)) => j \in absorbed
  BY <1>3 DEF AskedFor, Contains, Positions
<1>6. \A l \in Bound(scheme, script[d][2]) : \E j \in absorbed : script[j][2] = l
  <2> SUFFICES ASSUME NEW l \in Bound(scheme, script[d][2])
               PROVE  \E j \in absorbed : script[j][2] = l
    OBVIOUS
  <2>1. PICK j \in Where(script, {"absorb"}) :
          j < d /\ SameTranscript(script, j, d) /\ script[j][2] = l
    BY <1>1, <1>4 DEF BindsInOrder
  <2>2. j \in Where(script, {"bind", "absorb"})
    BY DEF Where
  <2> QED BY <1>5, <2>1, <2>2
<1>7. ASSUME NEW i \in Positions(Exchanged), i < d, SameTranscript(script, i, d)
      PROVE  \E j \in absorbed :
               /\ script[i][2] \in {script[j][2], Carried(scheme, script[j][2])}
               /\ Entry(j)[2] = env[script[i][2]]
  <2>1. CASE script[i][1] = "bind"
    <3>1. i \in absorbed
      BY <1>5, <1>7, <2>1 DEF Positions, Where
    <3>2. Entry(i)[2] = env[script[i][2]]
      BY <2>1 DEF Entry, EntryOf
    <3> QED BY <3>1, <3>2
  <2>2. CASE script[i][1] = "carry"
    <3>1. i \in Where(script, {"carry"})
      BY <1>7, <2>2 DEF Positions, Where
    <3>2. PICK j \in Where(script, {"absorb"}) :
            /\ j < d /\ SameTranscript(script, j, d)
            /\ i < j /\ Carried(scheme, script[j][2]) = script[i][2]
      BY <1>1, <1>4, <1>7, <3>1 DEF BindsInOrder
    <3>3. j \in absorbed
      BY <1>5, <3>2 DEF Where
    <3>4. script[i][2] \in KnownBefore(script, j)
      BY <1>7, <3>1, <3>2 DEF KnownBefore, Where, Produces, Exchanged
    <3> DEFINE before == [k \in KnownBefore(script, j) |-> env[k]]
    <3>5. script[i][2] \in DOMAIN before /\ before[script[i][2]] = env[script[i][2]]
      BY <3>4
    <3> HIDE DEF before
    <3>6. Content(claimed, before, script[j][2]) = env[script[i][2]]
      BY <3>2, <3>5 DEF Content
    <3>7. script[j][1] = "absorb"
      BY <3>2 DEF Where
    <3>8. Entry(j)[2] = env[script[i][2]]
      BY <3>6, <3>7 DEF Entry, EntryOf, Before, before
    <3> QED BY <3>2, <3>3, <3>8
  <2> QED BY <1>7, <2>1, <2>2 DEF Positions, Where, Exchanged
<1>8. /\ query \in DOMAIN oracle /\ oracle[query] = env[script[d][2]]
      /\ query[Len(query)] = <<script[d][2]>>
  BY <1>3 DEF AskedFor
<1> HIDE DEF absorbed
<1>9. /\ \A i \in Positions(Exchanged) :
           (i < d /\ SameTranscript(script, i, d)) =>
             \E j \in absorbed :
               /\ script[i][2] \in {script[j][2], Carried(scheme, script[j][2])}
               /\ Entry(j)[2] = env[script[i][2]]
  BY <1>7
<1> QED BY <1>6, <1>8, <1>9 DEF absorbed

\* For every scheme whose scripts fit, whatever the verifier reads: the hash
\* was asked for every challenge with the whole statement and every message
\* read before it in the query (Opening, DrawsBind).
THEOREM DrawsBindAlways == Spec => []DrawsBind
<1>1. Init => BindInv
  BY DEF Init, BindInv, Verified
<1>2. Control /\ BindInv /\ [Next]_vars => BindInv'
  BY BindNext
<1>3. Control /\ BindInv => DrawsBind
  BY BoundAtEnd
<1> QED BY <1>1, <1>2, <1>3, ControlAlways, PTL DEF Spec

---------------------------------------------------------------------------
(* The way the prover went: which logs it had before which of its steps    *)
(* that use the transcript.  It is a set of pairs of such a step and a log *)
(* and holds, for every refused challenge, the log with that challenge.    *)

Onward(way, steps, i, log) == \A k : Ahead(steps, i, k) => <<k, log>> \in way

\* From log at step k on, the hash says where the way goes.
Continues(way, steps, st, e, k, log) ==
  LET l == steps[k][2]
      query == Append(log, <<l>>)
      c == oracle[query]
  IN  /\ steps[k][1] \in {"bind", "absorb"} =>
           Onward(way, steps, k + 1, Append(log, EntryOf(steps, st, e, k)))
      /\ steps[k][1] = "renew" => Onward(way, steps, k + 1, new(l).log)
      /\ steps[k][1] = "draw" =>
           /\ query \in DOMAIN oracle /\ c \in Challenge
           /\ UsableAt(steps, st, e, k, c) =>
                c = e[l] /\ Onward(way, steps, k + 1, Append(log, <<l, c>>))
           /\ ~ UsableAt(steps, st, e, k, c) => <<k, Append(log, <<l, c>>)>> \in way

\* Where the draw at step k refused what the hash answered.
Refused(steps, st, e, k, log) ==
  /\ steps[k][1] = "draw"
  /\ ~ UsableAt(steps, st, e, k, oracle[Append(log, <<steps[k][2]>>)])

\* The way of the prover that is under way.
Walked(way) ==
  /\ Onward(way, script, 1, new(scheme).log)
  /\ Onward(way, script, pc, transcript.log)
  /\ \A k, log : <<k, log>> \in way =>
       /\ k \in Where(script, Speaks)
       /\ \/ Ahead(script, pc, k) /\ log = transcript.log
          \/ /\ Continues(way, script, asked, env, k, log)
             /\ k < pc \/ (k = pc /\ Refused(script, asked, env, k, log))

\* The whole way of a prover that knew e in the end.
Way(way, steps, st, e) ==
  /\ Onward(way, steps, 1, new(scheme).log)
  /\ \A k, log : <<k, log>> \in way =>
       k \in Where(steps, Speaks) /\ Continues(way, steps, st, e, k, log)

WayInv ==
  /\ phase = "open" => IsSeq(transcript.log) /\ \E way : Walked(way)
  /\ phase = "opened" => \E way : Way(way, ProverScript(scheme, asked), asked, proof)

OracleKept == \A q \in DOMAIN oracle : q \in DOMAIN oracle' /\ oracle'[q] = oracle[q]

LEMMA OnwardGrows ==
  ASSUME NEW way, NEW more, way \subseteq more, NEW steps, NEW i, NEW log,
         Onward(way, steps, i, log)
  PROVE  Onward(more, steps, i, log)
BY DEF Onward

\* What was answered before stays so: the whole way.
LEMMA ContinuesKept ==
  ASSUME NEW way, NEW steps, NEW st, NEW e, NEW k, NEW log,
         OracleKept, scheme' = scheme, Continues(way, steps, st, e, k, log)
  PROVE  Continues(way, steps, st, e, k, log)'
<1>1. EntryOf(steps, st, e, k)' = EntryOf(steps, st, e, k)
  BY DEF EntryOf, Content
<1>2. \A c : UsableAt(steps, st, e, k, c)' <=> UsableAt(steps, st, e, k, c)
  BY DEF UsableAt
<1>3. steps[k][1] = "draw" =>
        LET query == Append(log, <<steps[k][2]>>)
        IN  query \in DOMAIN oracle /\ query \in DOMAIN oracle' /\ oracle'[query] = oracle[query]
  BY DEF Continues, OracleKept
<1> QED BY <1>1, <1>2, <1>3 DEF Continues

LEMMA WayKept ==
  ASSUME NEW way, NEW steps, NEW st, NEW e, OracleKept, scheme' = scheme,
         Way(way, steps, st, e)
  PROVE  Way(way, steps, st, e)'
<1>1. \A k, log : <<k, log>> \in way =>
        k \in Where(steps, Speaks) /\ Continues(way, steps, st, e, k, log)'
  BY ContinuesKept DEF Way
<1> QED BY <1>1 DEF Way

\* The same while the prover is under way and gets to know more.
LEMMA WalkedContinues ==
  ASSUME Control, phase = "open", Kept, OracleKept, UNCHANGED <<inputs, script>>,
         NEW way, NEW more, way \subseteq more, NEW k \in Where(script, Speaks), NEW log,
         Continues(way, script, asked, env, k, log),
         k < pc \/ (k = pc /\ Refused(script, asked, env, k, log))
  PROVE  /\ Continues(more, script, asked, env, k, log)'
         /\ Refused(script, asked, env, k, log) => Refused(script, asked, env, k, log)'
<1>1. PICK st : st = asked
  OBVIOUS
<1>2. script' = script /\ scheme' = scheme /\ asked' = asked /\ Runs
  BY DEF inputs, Runs
<1>3. k \in DOMAIN script /\ k <= pc /\ k \in Nat
  BY <1>2, RunsFacts DEF Where
<1>4. /\ \A c : UsableAt(script, st, env, k, c)' <=> UsableAt(script, st, env, k, c)
      /\ k < pc /\ script[k][1] \in Produces => env'[script[k][2]] = env[script[k][2]]
      /\ k < pc => EntryOf(script, st, env, k)' = EntryOf(script, st, env, k)
  BY <1>2, <1>3, StepKept
<1>5. PICK steps : steps = script
  OBVIOUS
<1>6. Refused(script, asked, env, k, log) => script[k][1] = "draw"
  BY DEF Refused
<1> DEFINE l == script[k][2]
           query == Append(log, <<l>>)
<1>7. script[k][1] = "draw" => query \in DOMAIN oracle' /\ oracle'[query] = oracle[query]
  BY DEF Continues, OracleKept
<1>8. ASSUME script[k][1] = "draw"
      PROVE  /\ query \in DOMAIN oracle' /\ oracle'[query] \in Challenge
             /\ UsableAt(script, asked, env, k, oracle[query])' =>
                  /\ oracle'[query] = env'[l]
                  /\ Onward(more, script, k + 1, Append(log, <<l, oracle'[query]>>))
             /\ ~ UsableAt(script, asked, env, k, oracle[query])' =>
                  <<k, Append(log, <<l, oracle'[query]>>)>> \in more
             /\ UsableAt(script, asked, env, k, oracle[query])' <=> UsableAt(script, asked, env, k, oracle[query])
  <2>1. UsableAt(script, asked, env, k, oracle[query])' <=> UsableAt(script, asked, env, k, oracle[query])
    <3>1. PICK c : c = oracle[query] /\ c = oracle'[query]
      BY <1>7, <1>8
    <3>2. UsableAt(script, st, env, k, c)' <=> UsableAt(script, st, env, k, c)
      BY <1>4
    <3> QED BY <1>1, <1>2, <3>1, <3>2 DEF UsableAt
  <2>2. UsableAt(script, asked, env, k, oracle[query]) => k < pc /\ env'[l] = env[l]
    BY <1>4, <1>8 DEF Refused, Produces
  <2>3. Onward(way, script, k + 1, Append(log, <<l, oracle[query]>>))
          => Onward(more, script, k + 1, Append(log, <<l, oracle[query]>>))
    BY DEF Onward
  <2> QED BY <1>7, <1>8, <2>1, <2>2, <2>3 DEF Continues
<1>9. ASSUME script[k][1] # "draw"
      PROVE  EntryOf(script, asked, env, k)' = EntryOf(script, asked, env, k)
  <2>1. k < pc
    BY <1>6, <1>9
  <2>2. EntryOf(script, st, env, k)' = EntryOf(script, st, env, k)
    BY <1>4, <2>1
  <2> QED BY <1>1, <1>2, <2>2 DEF EntryOf, Content, Before
<1>10. Continues(more, script, asked, env, k, log)'
  <2>1. CASE script[k][1] = "draw"
    BY <1>2, <1>7, <1>8, <2>1 DEF Continues
  <2>2. CASE script[k][1] \in {"bind", "absorb"}
    <3>1. Onward(way, script, k + 1, Append(log, EntryOf(script, asked, env, k)))
      BY <2>2 DEF Continues
    <3>2. Onward(more, script, k + 1, Append(log, EntryOf(script, asked, env, k)'))
      BY <1>9, <2>2, <3>1, OnwardGrows
    <3> QED BY <1>2, <2>2, <3>2 DEF Continues
  <2>3. CASE script[k][1] = "renew"
    <3>1. Onward(more, script, k + 1, new(script[k][2]).log)
      BY <2>3, OnwardGrows DEF Continues
    <3> QED BY <1>2, <2>3, <3>1 DEF Continues
  <2> QED BY <1>2, <2>1, <2>2, <2>3 DEF Where, Speaks
<1>11. Refused(script, asked, env, k, log) => Refused(script, asked, env, k, log)'
  <2>1. SUFFICES ASSUME Refused(script, asked, env, k, log)
                 PROVE  Refused(script, asked, env, k, log)'
    OBVIOUS
  <2>2. script[k][1] = "draw" /\ ~ UsableAt(script, asked, env, k, oracle[query])
    BY <2>1 DEF Refused
  <2>3. ~ UsableAt(script, asked, env, k, oracle[query])'
    BY <1>8, <2>2
  <2> QED BY <1>2, <2>2, <2>3 DEF Refused, UsableAt
<1> QED BY <1>10, <1>11

---------------------------------------------------------------------------
(* What a step of either party does to its transcript.                     *)

LEMMA DoingRuns ==
  ASSUME Control, NEW operations, Doing(operations), NEW p, p = pc
  PROVE  /\ Runs /\ p \in DOMAIN script /\ p \in Nat /\ script[p][1] \in operations
         /\ Label = script[p][2] /\ Before(script, env, p) = env
         /\ \A c : UsableAt(script, Statement, env, p, c)
                     <=> Usable(scheme, Statement, env, Label, c)
<1>1. /\ Runs /\ p \in DOMAIN script /\ p \in Nat /\ script[p][1] \in operations
      /\ Label = script[p][2]
  BY DoingFacts DEF Runs, Verified, Label
<1>2. Before(script, env, p) = env
  BY <1>1, RunsFacts DEF Before
<1> QED BY <1>1, <1>2 DEF UsableAt

LEMMA AbsorbEntry ==
  ASSUME Control, Absorb, NEW p, p = pc
  PROVE  transcript'.log = Append(transcript.log, EntryOf(script, Statement, env, p)')
<1>1. /\ Doing({"absorb"})
      /\ transcript' = append(transcript, Label, Content(Statement, env, Label))
      /\ UNCHANGED <<inputs, script, phase, env>>
  BY DEF Absorb
<1>2. script[p][1] = "absorb" /\ Label = script[p][2] /\ Before(script, env, p) = env
  BY <1>1, DoingRuns
<1>3. script' = script /\ env' = env /\ scheme' = scheme /\ Statement' = Statement
  BY <1>1 DEF inputs, Statement
<1>4. EntryOf(script, Statement, env, p)' = <<Label, Content(Statement, env, Label)>>
  BY <1>2, <1>3 DEF EntryOf, Content, Before
<1> QED BY <1>1, <1>4 DEF append

LEMMA ExchangeEntry ==
  ASSUME Control, Exchange, NEW p, p = pc
  PROVE  /\ Kept
         /\ script[p][1] = "bind" =>
              transcript'.log = Append(transcript.log, EntryOf(script, Statement, env, p)')
         /\ script[p][1] # "bind" => transcript' = transcript
<1>1. PICK m \in {Expected} \cup Alternatives(Expected) :
        /\ env' = Know(env, Label, m)
        /\ transcript' = IF Doing({"bind"}) THEN append(transcript, Label, m) ELSE transcript
  BY DEF Exchange
<1>2. Doing({"bind", "carry", "peek"}) /\ UNCHANGED <<inputs, script, phase>>
  BY DEF Exchange
<1>3. Label = script[p][2] /\ (Doing({"bind"}) <=> script[p][1] = "bind")
  BY <1>2, DoingRuns DEF Doing
<1>4. /\ DOMAIN env' = DOMAIN env \cup {Label} /\ env'[Label] = m
      /\ \A k \in DOMAIN env : k # Label => env'[k] = env[k]
  BY <1>1 DEF Know
<1>5. Label \in DOMAIN env => m = env[Label]
  BY <1>1 DEF Expected, Alternatives
<1>6. Kept
  BY <1>4, <1>5 DEF Kept
<1>7. script[p][1] = "bind" => EntryOf(script, Statement, env, p)' = <<Label, m>>
  BY <1>2, <1>3, <1>4 DEF EntryOf
<1> QED BY <1>1, <1>3, <1>6, <1>7 DEF append

LEMMA DrawEntry ==
  ASSUME Control, Doing({"draw"}), NEW c \in Challenge, Drawn(c), UNCHANGED replaced,
         NEW p, p = pc, NEW query, query = Append(transcript.log, <<script[p][2]>>)
  PROVE  /\ OracleKept /\ query \in DOMAIN oracle' /\ oracle'[query] = c
         /\ transcript'.log = Append(transcript.log, <<script[p][2], c>>)
<1>1. Label = script[p][2]
  BY DoingRuns
<1>2. query = Query(transcript, Label)
  BY <1>1 DEF Query
<1>3. /\ transcript' = append(transcript, Label, c)
      /\ query \in DOMAIN oracle' /\ oracle'[query] = c
      /\ \A q \in DOMAIN oracle : q \in DOMAIN oracle' /\ oracle'[q] = oracle[q]
  BY <1>2, DrawnFacts
<1>4. transcript'.log = Append(transcript.log, <<script[p][2], c>>)
  BY <1>1, <1>3 DEF append
<1> QED BY <1>3, <1>4 DEF OracleKept

LEMMA DrawUsedKnows ==
  ASSUME Control, Doing({"draw"}), NEW c, env' = Know(env, Label, c), NEW p, p = pc
  PROVE  Kept /\ env'[script[p][2]] = c
<1>1. Runs /\ p \in DOMAIN script /\ script[p][1] = "draw" /\ Label = script[p][2]
  BY DoingRuns
<1>2. Label \notin DOMAIN env
  BY <1>1, RunsFacts DEF DrawsAnew, Where
<1> QED BY <1>1, <1>2 DEF Know, Kept

---------------------------------------------------------------------------
(* The prover's way.                                                       *)

\* The first speaking step from the next step on.
LEMMA AheadNext ==
  ASSUME NEW steps, IsSeq(steps), NEW p \in Nat
  PROVE  /\ p \in Where(steps, Speaks) => \A k : Ahead(steps, p, k) <=> k = p
         /\ p \notin Where(steps, Speaks) =>
              \A k : Ahead(steps, p + 1, k) <=> Ahead(steps, p, k)
<1>1. \A n \in Where(steps, Speaks) : n \in Nat
  BY SeqFacts DEF Where
<1>2. ASSUME p \in Where(steps, Speaks), NEW k
      PROVE  Ahead(steps, p, k) <=> k = p
  <2>1. ASSUME Ahead(steps, p, k)
        PROVE  k = p
    <3>1. k \in Nat /\ p <= k /\ (p < p \/ k <= p)
      BY <1>1, <1>2, <2>1 DEF Ahead
    <3> QED BY <3>1
  <2>2. \A n \in Where(steps, Speaks) : n < p \/ p <= n
    BY <1>1
  <2>3. Ahead(steps, p, p)
    BY <1>2, <2>2 DEF Ahead
  <2> QED BY <2>1, <2>3
<1>3. ASSUME p \notin Where(steps, Speaks), NEW k
      PROVE  Ahead(steps, p + 1, k) <=> Ahead(steps, p, k)
  <2>1. \A n \in Where(steps, Speaks) : n < p + 1 <=> n < p
    BY <1>1, <1>3
  <2>2. \A n \in Where(steps, Speaks) : p + 1 <= n <=> p <= n
    BY <1>1, <1>3
  <2> QED BY <2>1, <2>2 DEF Ahead
<1> QED BY <1>2, <1>3

LEMMA WalkOn ==
  ASSUME Control, phase = "open", Kept, OracleKept, UNCHANGED <<inputs, script>>,
         NEW way, Walked(way), NEW p, p = pc, NEW log, log = transcript.log,
         NEW on, on = transcript'.log, NEW more,
         more = way \cup {<<k, on>> : k \in {i \in Where(script, Speaks) : Ahead(script, pc', i)}},
         p \notin Where(script, Speaks) => pc' = p + 1 /\ on = log,
         p \in Where(script, Speaks) =>
           /\ Continues(more, script, asked, env, p, log)'
           /\ pc' = p + 1 \/ (pc' = p /\ Refused(script, asked, env, p, log)')
  PROVE  Walked(more)'
<1>1. IsSeq(script) /\ p \in Nat /\ script' = script /\ scheme' = scheme
  BY RunsFacts DEF Runs, inputs
<1>2. way \subseteq more
  OBVIOUS
<1>3. Onward(more, script, 1, new(scheme).log)
  BY <1>2, OnwardGrows DEF Walked
<1>4. Onward(more, script, pc', on)
  BY DEF Onward, Ahead
<1>5. ASSUME NEW k, NEW a, <<k, a>> \in more
      PROVE  /\ k \in Where(script, Speaks)
             /\ \/ Ahead(script, pc', k) /\ a = on
                \/ /\ Continues(more, script, asked, env, k, a)'
                   /\ k < pc' \/ (k = pc' /\ Refused(script, asked, env, k, a)')
  <2>1. CASE <<k, a>> \notin way
    BY <1>5, <2>1
  <2>2. CASE <<k, a>> \in way /\ Ahead(script, p, k) /\ a = log
    <3>1. k \in Where(script, Speaks)
      BY <2>2 DEF Ahead
    <3>2. CASE p \notin Where(script, Speaks)
      BY <1>1, <2>2, <3>1, <3>2, AheadNext
    <3>3. CASE p \in Where(script, Speaks)
      <4>1. k = p
        BY <1>1, <2>2, <3>3, AheadNext
      <4> QED BY <1>1, <2>2, <3>1, <3>3, <4>1
    <3> QED BY <3>2, <3>3
  <2>3. CASE <<k, a>> \in way /\ ~ (Ahead(script, p, k) /\ a = log)
    <3>1. /\ k \in Where(script, Speaks) /\ Continues(way, script, asked, env, k, a)
          /\ k < pc \/ (k = pc /\ Refused(script, asked, env, k, a))
      BY <2>3 DEF Walked
    <3>2. /\ Continues(more, script, asked, env, k, a)'
          /\ Refused(script, asked, env, k, a) => Refused(script, asked, env, k, a)'
      BY <1>2, <3>1, WalkedContinues
    <3>3. k \in Nat
      BY <1>1, <3>1, SeqFacts DEF Where
    <3> QED BY <1>1, <3>1, <3>2, <3>3
  <2> QED BY <2>1, <2>2, <2>3
<1> QED BY <1>1, <1>3, <1>4, <1>5 DEF Walked

\* The set that WalkOn adds.
Further(steps, i, on) == {<<k, on>> : k \in {n \in Where(steps, Speaks) : Ahead(steps, i, n)}}

LEMMA FurtherOn ==
  ASSUME NEW way, NEW steps, NEW i, NEW on
  PROVE  Onward(way \cup Further(steps, i, on), steps, i, on)
BY DEF Onward, Further, Ahead

LEMMA WalkStep ==
  ASSUME Control, phase = "open", phase' = "open", IsSeq(transcript.log),
         NEW way, Walked(way), [Next]_vars
  PROVE  IsSeq(transcript'.log) /\ \E more : Walked(more)'
<1>1. PICK p, log, on : p = pc /\ log = transcript.log /\ on = transcript'.log
  OBVIOUS
<1>2. PICK st : st = asked
  OBVIOUS
<1>3. Runs /\ Statement = asked /\ IsSeq(script) /\ p \in Nat
  BY <1>1, RunsFacts DEF Runs, Statement
<1> DEFINE more == way \cup Further(script, pc', on)
<1>4. PICK rest : rest = more
  OBVIOUS
<1>5. rest = way \cup {<<k, on>> : k \in {i \in Where(script, Speaks) : Ahead(script, pc', i)}}
  BY <1>4 DEF Further
<1>6. Onward(rest, script, pc', on)
  BY <1>4, FurtherOn
<1> HIDE DEF more
<1>7. CASE Absorb
  <2>1. /\ Doing({"absorb"}) /\ pc' = pc + 1 /\ UNCHANGED <<inputs, script, phase, env, oracle>>
        /\ transcript' = append(transcript, Label, Content(Statement, env, Label))
    BY <1>7 DEF Absorb
  <2>2. p \in DOMAIN script /\ script[p][1] = "absorb"
    BY <1>1, <2>1, DoingRuns
  <2>3. Kept /\ OracleKept
    BY <2>1 DEF Kept, OracleKept
  <2>4. on = Append(log, EntryOf(script, asked, env, p)')
    <3>1. Statement' = asked'
      BY <2>1 DEF Statement
    <3>2. EntryOf(script, Statement, env, p)' = EntryOf(script, asked, env, p)'
      BY <3>1 DEF EntryOf
    <3> QED BY <1>1, <1>7, <3>2, AbsorbEntry
  <2>5. Continues(rest, script, asked, env, p, log)'
    BY <1>1, <1>6, <2>1, <2>2, <2>4 DEF Continues
  <2>6. p \in Where(script, Speaks) /\ pc' = p + 1
    BY <1>1, <2>1, <2>2 DEF Where, Speaks
  <2>7. Walked(rest)'
    BY <1>1, <1>5, <2>1, <2>3, <2>5, <2>6, WalkOn
  <2>8. IsSeq(transcript'.log)
    <3> DEFINE x == <<Label, Content(Statement, env, Label)>>
    <3>1. transcript'.log = Append(transcript.log, x)
      BY <2>1 DEF append
    <3> HIDE DEF x
    <3> QED BY <3>1, AppendFacts
  <2> QED BY <2>7, <2>8
<1>8. CASE Renew
  <2>1. /\ Doing({"renew"}) /\ pc' = pc + 1 /\ UNCHANGED <<inputs, script, env, oracle>>
        /\ transcript' = new(Label)
    BY <1>8 DEF Renew
  <2>2. p \in DOMAIN script /\ script[p][1] = "renew" /\ Label = script[p][2]
    BY <1>1, <2>1, DoingRuns
  <2>3. Kept /\ OracleKept
    BY <2>1 DEF Kept, OracleKept
  <2>4. Continues(rest, script, asked, env, p, log)'
    BY <1>1, <1>6, <2>1, <2>2 DEF Continues
  <2>5. p \in Where(script, Speaks) /\ pc' = p + 1
    BY <1>1, <2>1, <2>2 DEF Where, Speaks
  <2>6. Walked(rest)'
    BY <1>1, <1>5, <2>1, <2>3, <2>4, <2>5, WalkOn
  <2>7. IsSeq(transcript'.log)
    BY <2>1, NewIsSeq
  <2> QED BY <2>6, <2>7
<1>9. CASE Pass
  <2>1. /\ Doing(Conditions) /\ pc' = pc + 1
        /\ UNCHANGED <<inputs, script, env, transcript, oracle>>
    BY <1>9 DEF Pass
  <2>2. p \notin Where(script, Speaks)
    BY <1>1, <2>1, DoingRuns DEF Where, Speaks, Conditions
  <2>3. Kept /\ OracleKept
    BY <2>1 DEF Kept, OracleKept
  <2>4. pc' = p + 1 /\ on = log /\ IsSeq(transcript'.log)
    BY <1>1, <2>1
  <2> QED BY <1>1, <1>5, <2>1, <2>2, <2>3, <2>4, WalkOn
<1>10. CASE Exchange
  <2>1. /\ Doing({"bind", "carry", "peek"}) /\ pc' = pc + 1
        /\ UNCHANGED <<inputs, script, phase, oracle>>
    BY <1>10 DEF Exchange
  <2>2. p \in DOMAIN script /\ script[p][1] \in {"bind", "carry", "peek"}
    BY <1>1, <2>1, DoingRuns
  <2>3. Kept /\ OracleKept
    BY <1>1, <1>10, <2>1, ExchangeEntry DEF OracleKept
  <2>4. CASE script[p][1] = "bind"
    <3>1. on = Append(log, EntryOf(script, asked, env, p)')
      <4>1. Statement' = asked'
        BY <2>1 DEF Statement
      <4>2. EntryOf(script, Statement, env, p)' = EntryOf(script, asked, env, p)'
        BY <4>1 DEF EntryOf
      <4> QED BY <1>1, <1>10, <2>4, <4>2, ExchangeEntry
    <3>2. Continues(rest, script, asked, env, p, log)'
      BY <1>1, <1>6, <2>1, <2>4, <3>1 DEF Continues
    <3>3. p \in Where(script, Speaks) /\ pc' = p + 1
      BY <1>1, <2>1, <2>2, <2>4 DEF Where, Speaks
    <3>4. Walked(rest)'
      BY <1>1, <1>5, <2>1, <2>3, <3>2, <3>3, WalkOn
    <3>5. IsSeq(transcript'.log)
      <4> DEFINE x == EntryOf(script, asked, env, p)'
      <4>1. transcript'.log = Append(transcript.log, x)
        BY <1>1, <3>1
      <4> HIDE DEF x
      <4> QED BY <4>1, AppendFacts
    <3> QED BY <3>4, <3>5
  <2>5. CASE script[p][1] # "bind"
    <3>1. p \notin Where(script, Speaks)
      BY <2>2, <2>5 DEF Where, Speaks
    <3>2. pc' = p + 1 /\ on = log /\ IsSeq(transcript'.log)
      BY <1>1, <1>10, <2>1, <2>5, ExchangeEntry
    <3> QED BY <1>1, <1>5, <2>1, <2>3, <3>1, <3>2, WalkOn
  <2> QED BY <2>4, <2>5
<1>11. ASSUME NEW c \in Challenge, Doing({"draw"}), Drawn(c),
              UNCHANGED <<inputs, script, phase, replaced>>, Kept,
              \/ pc' = pc + 1 /\ Usable(scheme, Statement, env, Label, c) /\ env'[Label] = c
              \/ pc' = pc /\ ~ Usable(scheme, Statement, env, Label, c)
       PROVE  IsSeq(transcript'.log) /\ \E further : Walked(further)'
  <2>1. /\ p \in DOMAIN script /\ script[p][1] = "draw" /\ Label = script[p][2]
        /\ UsableAt(script, Statement, env, p, c) <=> Usable(scheme, Statement, env, Label, c)
    BY <1>1, <1>11, DoingRuns
  <2>2. PICK query : query = Append(log, <<script[p][2]>>)
    OBVIOUS
  <2>3. /\ OracleKept /\ query \in DOMAIN oracle' /\ oracle'[query] = c
        /\ on = Append(log, <<script[p][2], c>>)
    BY <1>1, <1>11, <2>2, DrawEntry
  <2>4. UsableAt(script, asked, env, p, c)' <=> UsableAt(script, asked, env, p, c)
    <3> USE <1>11
    <3>1. UsableAt(script, st, env, p, c)' <=> UsableAt(script, st, env, p, c)
      <4>1. p \in DOMAIN script /\ p <= pc
        BY <1>1, <1>3, <2>1
      <4>2. UNCHANGED <<inputs, script>>
        OBVIOUS
      <4> QED BY <1>3, <4>1, <4>2, StepKept
    <3>2. asked' = asked /\ scheme' = scheme
      BY <1>11 DEF inputs
    <3> QED BY <1>2, <3>1, <3>2 DEF UsableAt
  <2>5. UsableAt(script, asked, env, p, c)' <=> Usable(scheme, Statement, env, Label, c)
    BY <1>3, <2>1, <2>4
  <2>6. p \in Where(script, Speaks)
    BY <2>1 DEF Where, Speaks
  <2>7. pc' = pc => <<p, on>> \in rest
    BY <1>1, <1>3, <1>6, <2>6, AheadNext DEF Onward
  <2>8. Continues(rest, script, asked, env, p, log)'
    BY <1>1, <1>6, <1>11, <2>1, <2>2, <2>3, <2>5, <2>7 DEF Continues
  <2>9. pc' = pc => Refused(script, asked, env, p, log)'
    <3> SUFFICES ASSUME pc' = pc PROVE Refused(script, asked, env, p, log)'
      OBVIOUS
    <3>1. ~ UsableAt(script, asked, env, p, c)'
      BY <1>1, <1>3, <1>11, <2>5
    <3> QED BY <1>11, <2>1, <2>2, <2>3, <3>1 DEF Refused, UsableAt
  <2>10. pc' = p + 1 \/ (pc' = p /\ Refused(script, asked, env, p, log)')
    BY <1>1, <1>11, <2>9
  <2>11. Walked(rest)'
    <3>1. Kept /\ UNCHANGED <<inputs, script>>
      BY <1>11
    <3>2. /\ p \notin Where(script, Speaks) => pc' = p + 1 /\ on = log
          /\ p \in Where(script, Speaks) =>
               /\ Continues(rest, script, asked, env, p, log)'
               /\ pc' = p + 1 \/ (pc' = p /\ Refused(script, asked, env, p, log)')
      BY <2>6, <2>8, <2>10
    <3>3. OracleKept
      BY <2>3
    <3> HIDE <1>11
    <3> QED BY <1>1, <1>5, <3>1, <3>2, <3>3, WalkOn
  <2>12. IsSeq(transcript'.log)
    <3> DEFINE x == <<script[p][2], c>>
    <3>1. transcript'.log = Append(transcript.log, x)
      BY <1>1, <2>3
    <3> HIDE DEF x
    <3> QED BY <3>1, AppendFacts
  <2> QED BY <2>11, <2>12
<1>12. CASE DrawUsed
  <2>1. PICK c \in Challenge :
          Usable(scheme, Statement, env, Label, c) /\ Drawn(c) /\ env' = Know(env, Label, c)
    BY <1>12 DEF DrawUsed
  <2>2. /\ Doing({"draw"}) /\ pc' = pc + 1
        /\ UNCHANGED <<inputs, script, phase, replaced>>
    BY <1>12 DEF DrawUsed
  <2>3. Kept /\ env'[Label] = c
    BY <1>1, <2>1, <2>2, DrawUsedKnows, DoingRuns
  <2> QED BY <1>11, <2>1, <2>2, <2>3
<1>13. CASE DrawAgain
  <2>1. PICK c \in Challenge : ~ Usable(scheme, Statement, env, Label, c) /\ Drawn(c)
    BY <1>13 DEF DrawAgain
  <2>2. /\ Doing({"draw"}) /\ pc' = pc
        /\ UNCHANGED <<inputs, script, phase, replaced, env>>
    BY <1>13 DEF DrawAgain
  <2>3. Kept
    BY <2>2 DEF Kept
  <2> QED BY <1>11, <2>1, <2>2, <2>3
<1>14. CASE UNCHANGED vars
  <2>1. Walked(way)' <=> Walked(way)
    BY <1>14 DEF vars, Walked, Onward, Continues, Refused, EntryOf, Before, Content, UsableAt
  <2> QED BY <1>14, <2>1 DEF vars
<1>15. CASE Refuse \/ DrawFailed \/ OpenReturns \/ VerifyBegins \/ VerifyReturns
  <2>1. Refuse => FALSE
    BY DEF Refuse, Fail
  <2>2. DrawFailed => FALSE
    BY DEF DrawFailed, Fail
  <2> QED BY <1>15, <2>1, <2>2 DEF OpenReturns, VerifyBegins, VerifyReturns
<1> QED BY <1>7, <1>8, <1>9, <1>10, <1>12, <1>13, <1>14, <1>15 DEF Next

LEMMA OracleGrows ==
  ASSUME Control, [Next]_vars
  PROVE  OracleKept
<1>1. CASE DrawUsed \/ DrawAgain \/ DrawFailed
  <2>1. PICK c \in Challenge : Drawn(c)
    BY <1>1 DEF DrawUsed, DrawAgain, DrawFailed
  <2>2. UNCHANGED replaced
    BY <1>1 DEF DrawUsed, DrawAgain, DrawFailed
  <2> QED BY <2>1, <2>2, DrawnFacts DEF OracleKept
<1>2. CASE ~ (DrawUsed \/ DrawAgain \/ DrawFailed)
  <2>1. UNCHANGED oracle
    BY <1>2 DEF Next, vars, Absorb, Renew, Pass, Refuse, Exchange, OpenReturns, VerifyBegins,
           VerifyReturns
  <2> QED BY <2>1 DEF OracleKept
<1> QED BY <1>1, <1>2

LEMMA WayNext ==
  ASSUME Control, WayInv, [Next]_vars
  PROVE  WayInv'
<1>1. ASSUME phase' = "open"
      PROVE  IsSeq(transcript'.log) /\ \E way : Walked(way)'
  <2>1. phase = "open"
    BY <1>1 DEF Next, vars, Absorb, Renew, Pass, Refuse, Exchange, DrawUsed, DrawAgain, DrawFailed,
           Fail, OpenReturns, VerifyBegins, VerifyReturns
  <2>2. PICK way : Walked(way)
    BY <2>1 DEF WayInv
  <2>3. IsSeq(transcript.log)
    BY <2>1 DEF WayInv
  <2> QED BY <1>1, <2>1, <2>2, <2>3, WalkStep
<1>2. ASSUME phase' = "opened"
      PROVE  \E way : Way(way, ProverScript(scheme, asked), asked, proof)'
  <2>1. CASE OpenReturns
    <3>1. /\ phase = "open" /\ pc > Len(script) /\ proof' = env
          /\ scheme' = scheme /\ asked' = asked /\ oracle' = oracle
      BY <2>1 DEF OpenReturns, inputs
    <3>2. PICK way : Walked(way)
      BY <3>1 DEF WayInv
    <3>3. PICK w, st, e : w = script /\ st = asked /\ e = env
      OBVIOUS
    <3>4. w = ProverScript(scheme, asked) /\ IsSeq(script) /\ pc \in Nat
      BY <3>1, <3>3, RunsFacts DEF Control, Runs
    <3>5. \A k : ~ Ahead(script, pc, k)
      BY <3>1, <3>4, SeqFacts DEF Ahead, Where
    <3>6. Way(way, w, st, e)
      BY <3>2, <3>3, <3>5 DEF Walked, Way
    <3>7. Way(way, w, st, e)'
      BY <3>1, <3>6, WayKept DEF OracleKept
    <3>8. w = ProverScript(scheme, asked)' /\ st = asked' /\ e = proof'
      BY <3>1, <3>3, <3>4
    <3> QED BY <3>7, <3>8
  <2>2. CASE ~ OpenReturns
    <3>1. phase = "opened" /\ scheme' = scheme /\ asked' = asked /\ proof' = proof
      BY <1>2, <2>2 DEF Next, vars, inputs, Absorb, Renew, Pass, Refuse, Exchange, DrawUsed,
             DrawAgain, DrawFailed, Fail, Doing, VerifyBegins, VerifyReturns
    <3>2. PICK way : Way(way, ProverScript(scheme, asked), asked, proof)
      BY <3>1 DEF WayInv
    <3>3. PICK w, st, e : w = ProverScript(scheme, asked) /\ st = asked /\ e = proof
      OBVIOUS
    <3>4. Way(way, w, st, e)'
      BY <3>1, <3>2, <3>3, OracleGrows, WayKept
    <3> QED BY <3>1, <3>3, <3>4
  <2> QED BY <2>1, <2>2
<1> QED BY <1>1, <1>2 DEF WayInv

LEMMA WayInit == Init => WayInv
<1> SUFFICES ASSUME Init PROVE WayInv
  OBVIOUS
<1>1. /\ phase \in {"open", "forge"} /\ pc = 1 /\ transcript = new(scheme)
  BY DEF Init
<1> DEFINE way == Further(script, 1, new(scheme).log)
<1>2. Walked(way)
  BY <1>1 DEF Walked, Onward, Further, Ahead
<1>3. IsSeq(transcript.log)
  BY <1>1, NewIsSeq
<1> QED BY <1>1, <1>2, <1>3 DEF WayInv

---------------------------------------------------------------------------
(* The verifier on the prover's way.                                       *)

\* Up to d everything was read as written, and computed alike.
ReadAlike(d) ==
  /\ \A i \in Positions(Exchanged) : i < d => env[script[i][2]] = proof[script[i][2]]
  /\ Alike(d)

\* As long as that is so, the verifier is on the way and draws what the
\* prover, with the script w, drew.
InStep(way, w) ==
  /\ Way(way, w, asked, proof)
  /\ \A q, j : (q = pc /\ ReadAlike(q) /\ Ahead(script, q, j))
                 => <<Partner(w, script, j), transcript.log>> \in way
  /\ \A d \in Where(script, {"draw"}) :
       (d < pc /\ ReadAlike(d)) => env[script[d][2]] = proof[script[d][2]]

AgreeInv ==
  \A w : (Verified /\ proof # Nothing /\ w = ProverScript(scheme, asked) /\ KeepStep(w, script))
           => \E way : InStep(way, w)

\* What was alike up to a later step was alike before.
LEMMA ReadBack ==
  ASSUME Control, Verified, Kept, UNCHANGED <<inputs, script, proof>>,
         NEW d \in Nat, d <= pc, NEW more \in Nat, d <= more, ReadAlike(more)'
  PROVE  ReadAlike(d)
<1>1. /\ scheme' = scheme /\ asked' = asked /\ claimed' = claimed
      /\ script' = script /\ proof' = proof
  BY DEF inputs
<1>2. pc \in Nat /\ \A operations : Where(script, operations) \subseteq DOMAIN script \cap Nat
  BY VerifyFacts DEF Where
<1>3. PICK w, st, cl : w = ProverScript(scheme, asked) /\ st = asked /\ cl = claimed
  OBVIOUS
<1>4. PICK e : e = proof
  OBVIOUS
<1>5. ASSUME NEW i \in Positions(Exchanged), i < d
      PROVE  env[script[i][2]] = proof[script[i][2]]
  <2>1. i \in Where(script, Exchanged) /\ i \in DOMAIN script /\ i \in Nat
    BY <1>2, <1>5 DEF Positions
  <2>2. script[i][1] \in Produces /\ i < pc /\ i < more
    BY <1>2, <1>5, <2>1 DEF Where, Produces
  <2>3. env'[script[i][2]] = env[script[i][2]]
    <3>1. script[i][2] \in DOMAIN env
      BY <2>1, <2>2, VerifyFacts DEF KnownBefore, Where
    <3> QED BY <3>1 DEF Kept
  <2>4. env'[script[i][2]] = proof[script[i][2]]
    BY <1>1, <2>1, <2>2 DEF ReadAlike, Positions
  <2> QED BY <2>3, <2>4
<1>6. ASSUME NEW j \in Positions({"bind", "absorb"}), j < d
      PROVE  Entry(j) = EntryOf(w, asked, proof, Partner(w, script, j))
  <2>1. j \in Where(script, {"bind", "absorb"}) /\ j \in Nat /\ j < pc /\ j < more
    BY <1>2, <1>6 DEF Positions
  <2>2. PICK k : k = Partner(w, script, j)
    OBVIOUS
  <2>3. Entry(j)' = EntryOf(w, asked, proof, k)'
    BY <1>1, <1>3, <2>1, <2>2 DEF ReadAlike, Alike, Positions
  <2>4. EntryOf(w, asked, proof, k)' = EntryOf(w, asked, proof, k)
    BY <1>1 DEF EntryOf, Content, Before
  <2> QED BY <2>1, <2>2, <2>3, <2>4, EntryKept
<1>7. ASSUME NEW j \in Positions({"draw"}), NEW c \in Challenge, j <= d
      PROVE  UsableAt(script, claimed, env, j, c) <=> UsableAt(w, asked, proof, Partner(w, script, j), c)
  <2>1. j \in Where(script, {"draw"}) /\ j \in DOMAIN script /\ j \in Nat /\ j <= pc /\ j <= more
    BY <1>2, <1>7 DEF Positions
  <2>2. PICK k : k = Partner(w, script, j)
    OBVIOUS
  <2>3. UsableAt(script, claimed, env, j, c)' <=> UsableAt(w, asked, proof, k, c)'
    BY <1>1, <1>3, <2>1, <2>2 DEF ReadAlike, Alike, Positions
  <2>4. UsableAt(w, asked, proof, k, c)' <=> UsableAt(w, asked, proof, k, c)
    BY <1>1 DEF UsableAt, Before
  <2>5. UsableAt(script, cl, env, j, c)' <=> UsableAt(script, cl, env, j, c)
    <3>1. UNCHANGED <<inputs, script>>
      OBVIOUS
    <3> QED BY <2>1, <3>1, StepKept DEF Runs
  <2>6. UsableAt(script, claimed, env, j, c)' <=> UsableAt(script, claimed, env, j, c)
    BY <1>1, <1>3, <2>5 DEF UsableAt
  <2> QED BY <2>2, <2>3, <2>4, <2>6
<1> QED BY <1>3, <1>5, <1>6, <1>7 DEF ReadAlike, Alike

\* A step on the way: what is to be shown of the next step and of the draw.
LEMMA StepOn ==
  ASSUME Control, Verified, Kept, OracleKept, UNCHANGED <<inputs, script, proof>>,
         NEW way, NEW w, w = ProverScript(scheme, asked), InStep(way, w),
         NEW p, p = pc, NEW q, q = pc', q = p \/ q = p + 1,
         \A j : (ReadAlike(q)' /\ ReadAlike(p) /\ Ahead(script, q, j))
                  => <<Partner(w, script, j), transcript'.log>> \in way,
         (q = p + 1 /\ p \in Where(script, {"draw"}) /\ ReadAlike(p))
           => env'[script[p][2]] = proof[script[p][2]]
  PROVE  InStep(way, w)'
<1>1. /\ scheme' = scheme /\ asked' = asked /\ script' = script /\ proof' = proof
      /\ p \in Nat /\ q \in Nat
  BY VerifyFacts DEF inputs
<1>2. PICK st, e : st = asked /\ e = proof
  OBVIOUS
<1>3. Way(way, w, asked, proof)'
  <2>1. Way(way, w, st, e)'
    BY <1>1, <1>2, WayKept DEF InStep
  <2> QED BY <1>1, <1>2, <2>1
<1>4. ReadAlike(q)' => ReadAlike(p)
  BY <1>1, ReadBack
<1>5. ASSUME NEW r, NEW j, r = pc', ReadAlike(r)', Ahead(script', r, j)
      PROVE  <<Partner(w, script', j), transcript'.log>> \in way
  BY <1>1, <1>4, <1>5
<1>6. ASSUME NEW d \in Where(script', {"draw"}), d < pc', ReadAlike(d)'
      PROVE  env'[script'[d][2]] = proof'[script'[d][2]]
  <2>1. d \in Where(script, {"draw"}) /\ d \in Nat /\ d <= p
    BY <1>1, <1>6, VerifyFacts DEF Where
  <2>2. ReadAlike(d)
    BY <1>1, <1>6, <2>1, ReadBack
  <2>3. CASE d < p
    <3>1. env[script[d][2]] = proof[script[d][2]]
      BY <2>1, <2>2, <2>3 DEF InStep
    <3>2. script[d][2] \in DOMAIN env
      BY <2>1, <2>3, VerifyFacts DEF KnownBefore, Where, Produces
    <3> QED BY <1>1, <3>1, <3>2 DEF Kept
  <2>4. CASE d = p
    BY <1>1, <1>6, <2>1, <2>2, <2>4
  <2> QED BY <1>1, <2>1, <2>3, <2>4
<1> QED BY <1>3, <1>5, <1>6 DEF InStep

\* The step of the prover that the next step of the verifier repeats.
LEMMA PartnerOnWay ==
  ASSUME Control, Verified, NEW way, NEW w, InStep(way, w), KeepStep(w, script),
         NEW p, p = pc, p \in Where(script, Speaks), NEW k, k = Partner(w, script, p)
  PROVE  /\ k \in Where(w, Speaks) /\ w[k][2] = script[p][2]
         /\ w[k][1] = script[p][1] \/ {w[k][1], script[p][1]} = {"bind", "absorb"}
         /\ \A i : Ahead(script, p + 1, i) => Ahead(w, k + 1, Partner(w, script, i))
         /\ ReadAlike(p) => Continues(way, w, asked, proof, k, transcript.log)
<1>1. IsSeq(script) /\ p \in Nat
  BY VerifyFacts
<1>2. Ahead(script, p, p)
  BY <1>1, AheadNext
<1>3. /\ k \in Where(w, Speaks) /\ w[k][2] = script[p][2]
      /\ w[k][1] = script[p][1] \/ {w[k][1], script[p][1]} = {"bind", "absorb"}
      /\ \A i \in Where(script, Speaks) :
           Ahead(script, p + 1, i) => Ahead(w, k + 1, Partner(w, script, i))
  BY DEF KeepStep
<1>4. \A i : Ahead(script, p + 1, i) => i \in Where(script, Speaks)
  BY DEF Ahead
<1>5. ReadAlike(p) => <<k, transcript.log>> \in way
  BY <1>2 DEF InStep
<1>6. Way(way, w, asked, proof)
  BY DEF InStep
<1>7. ReadAlike(p) => Continues(way, w, asked, proof, k, transcript.log)
  BY <1>5, <1>6 DEF Way
<1> QED BY <1>3, <1>4, <1>7

\* A message absorbed: both absorbed the same.
LEMMA StepEntry ==
  ASSUME Control, Verified, Kept, OracleKept, UNCHANGED <<inputs, script, proof>>,
         NEW way, NEW w, w = ProverScript(scheme, asked), InStep(way, w), KeepStep(w, script),
         NEW p, p = pc, p \in Where(script, {"bind", "absorb"}), pc' = p + 1,
         transcript'.log = Append(transcript.log, Entry(p)')
  PROVE  InStep(way, w)'
<1>1. /\ scheme' = scheme /\ asked' = asked /\ claimed' = claimed
      /\ script' = script /\ proof' = proof /\ p \in Nat
  BY VerifyFacts DEF inputs
<1>2. PICK k : k = Partner(w, script, p)
  OBVIOUS
<1>3. p \in Where(script, Speaks) /\ p \notin Where(script, {"draw"})
      /\ script[p][1] \in {"bind", "absorb"}
  BY DEF Where, Speaks
<1>4. PICK log, on : log = transcript.log /\ on = transcript'.log
  OBVIOUS
<1>5. PICK q : q = p + 1
  OBVIOUS
<1>6. ASSUME ReadAlike(q)', ReadAlike(p), NEW j, Ahead(script, q, j)
      PROVE  <<Partner(w, script, j), on>> \in way
  <2>1. /\ w[k][1] \in {"bind", "absorb"} /\ Continues(way, w, asked, proof, k, log)
        /\ Ahead(w, k + 1, Partner(w, script, j))
    <3>1. w[k][1] = script[p][1] \/ {w[k][1], script[p][1]} = {"bind", "absorb"}
      BY <1>2, <1>3, PartnerOnWay
    <3>2. w[k][1] \in {"bind", "absorb"}
      BY <1>3, <3>1
    <3>3. Continues(way, w, asked, proof, k, log)
      BY <1>2, <1>3, <1>4, <1>6, PartnerOnWay
    <3>4. Ahead(w, k + 1, Partner(w, script, j))
      BY <1>2, <1>3, <1>5, <1>6, PartnerOnWay
    <3> QED BY <3>2, <3>3, <3>4
  <2>2. Entry(p)' = EntryOf(w, asked, proof, k)'
    BY <1>1, <1>2, <1>5, <1>6 DEF ReadAlike, Alike, Positions
  <2>3. EntryOf(w, asked, proof, k)' = EntryOf(w, asked, proof, k)
    BY <1>1 DEF EntryOf, Content, Before
  <2>4. on = Append(log, EntryOf(w, asked, proof, k))
    BY <1>4, <2>2, <2>3
  <2>5. Onward(way, w, k + 1, Append(log, EntryOf(w, asked, proof, k)))
    BY <2>1 DEF Continues
  <2> QED BY <2>1, <2>4, <2>5 DEF Onward
<1> QED BY <1>1, <1>3, <1>4, <1>5, <1>6, StepOn

LEMMA StepRenew ==
  ASSUME Control, Verified, Kept, OracleKept, UNCHANGED <<inputs, script, proof>>,
         NEW way, NEW w, w = ProverScript(scheme, asked), InStep(way, w), KeepStep(w, script),
         NEW p, p = pc, p \in Where(script, {"renew"}), pc' = p + 1,
         transcript' = new(script[p][2])
  PROVE  InStep(way, w)'
<1>1. PICK k : k = Partner(w, script, p)
  OBVIOUS
<1>2. p \in Where(script, Speaks) /\ p \notin Where(script, {"draw"}) /\ script[p][1] = "renew"
  BY DEF Where, Speaks
<1>3. PICK log, on : log = transcript.log /\ on = transcript'.log
  OBVIOUS
<1>4. PICK q : q = p + 1
  OBVIOUS
<1>5. ASSUME ReadAlike(p), NEW j, Ahead(script, q, j)
      PROVE  <<Partner(w, script, j), on>> \in way
  <2>1. /\ w[k][1] = "renew" /\ w[k][2] = script[p][2]
        /\ Continues(way, w, asked, proof, k, log)
        /\ Ahead(w, k + 1, Partner(w, script, j))
    BY <1>1, <1>2, <1>3, <1>4, <1>5, PartnerOnWay
  <2>2. Onward(way, w, k + 1, on)
    BY <1>3, <2>1 DEF Continues
  <2> QED BY <2>1, <2>2 DEF Onward
<1> QED BY <1>2, <1>3, <1>4, <1>5, StepOn

\* A draw: the hash has already answered the prover.
LEMMA StepDraw ==
  ASSUME Control, Verified, Doing({"draw"}), Kept, NEW c \in Challenge, Drawn(c),
         UNCHANGED <<inputs, script, proof, replaced>>,
         NEW way, NEW w, w = ProverScript(scheme, asked), InStep(way, w), KeepStep(w, script),
         \/ pc' = pc + 1 /\ Usable(scheme, Statement, env, Label, c) /\ env'[Label] = c
         \/ pc' = pc /\ ~ Usable(scheme, Statement, env, Label, c)
  PROVE  InStep(way, w)'
<1>1. PICK p, q, log, on : p = pc /\ q = pc' /\ log = transcript.log /\ on = transcript'.log
  OBVIOUS
<1>2. PICK k : k = Partner(w, script, p)
  OBVIOUS
<1>3. /\ p \in DOMAIN script /\ p \in Nat /\ script[p][1] = "draw" /\ Label = script[p][2]
      /\ UsableAt(script, Statement, env, p, c) <=> Usable(scheme, Statement, env, Label, c)
  BY <1>1, DoingRuns
<1>4. Statement = claimed
  BY DEF Statement, Verified
<1>5. p \in Where(script, Speaks) /\ p \in Where(script, {"draw"})
  BY <1>3 DEF Where, Speaks
<1>6. PICK query : query = Append(log, <<script[p][2]>>)
  OBVIOUS
<1>7. /\ OracleKept /\ query \in DOMAIN oracle' /\ oracle'[query] = c
      /\ on = Append(log, <<script[p][2], c>>)
  BY <1>1, <1>6, DrawEntry
<1>8. ASSUME ReadAlike(p)
      PROVE  /\ pc' = p + 1 => c = proof[script[p][2]]
             /\ \A j : Ahead(script, q, j) => <<Partner(w, script, j), on>> \in way
  <2>1. /\ w[k][1] = "draw" /\ w[k][2] = script[p][2]
        /\ Continues(way, w, asked, proof, k, log)
        /\ \A i : Ahead(script, p + 1, i) => Ahead(w, k + 1, Partner(w, script, i))
    BY <1>1, <1>2, <1>3, <1>5, <1>8, PartnerOnWay
  <2>2. query \in DOMAIN oracle /\ oracle[query] = c
    <3>1. query \in DOMAIN oracle
      BY <1>6, <2>1 DEF Continues
    <3> QED BY <1>7, <3>1 DEF OracleKept
  <2>3. /\ UsableAt(w, asked, proof, k, c) =>
             c = proof[script[p][2]] /\ Onward(way, w, k + 1, on)
        /\ ~ UsableAt(w, asked, proof, k, c) => <<k, on>> \in way
    BY <1>6, <1>7, <2>1, <2>2 DEF Continues
  <2>4. UsableAt(script, claimed, env, p, c) <=> UsableAt(w, asked, proof, k, c)
    BY <1>2, <1>3, <1>5, <1>8 DEF ReadAlike, Alike, Positions
  <2>5. CASE pc' = pc + 1
    <3>1. UsableAt(w, asked, proof, k, c)
      BY <1>1, <1>3, <1>4, <2>4, <2>5
    <3>2. q = p + 1
      BY <1>1, <2>5
    <3> QED BY <2>1, <2>3, <3>1, <3>2 DEF Onward
  <2>6. CASE pc' = pc
    <3>1. ~ UsableAt(w, asked, proof, k, c) /\ q = p
      BY <1>1, <1>3, <1>4, <2>4, <2>6
    <3>2. \A j : Ahead(script, q, j) => j = p
      <4>1. IsSeq(script)
        BY VerifyFacts
      <4> QED BY <1>3, <1>5, <3>1, <4>1, AheadNext
    <3>3. pc' # p + 1
      BY <1>1, <1>3, <3>1
    <3> QED BY <1>2, <2>3, <3>1, <3>2, <3>3
  <2> QED BY <2>5, <2>6
<1>9. (q = p + 1 /\ ReadAlike(p)) => env'[script[p][2]] = proof[script[p][2]]
  <2>1. q = p + 1 => env'[Label] = c
    BY <1>1, <1>3
  <2> QED BY <1>1, <1>3, <1>8, <2>1
<1>10. q = p \/ q = p + 1
  BY <1>1
<1>11. UNCHANGED <<inputs, script, proof>>
  OBVIOUS
<1> QED BY <1>1, <1>7, <1>8, <1>9, <1>10, <1>11, StepOn

\* A step that leaves the transcript alone.
LEMMA StepQuiet ==
  ASSUME Control, Verified, Kept, OracleKept, UNCHANGED <<inputs, script, proof>>,
         transcript' = transcript,
         NEW way, NEW w, w = ProverScript(scheme, asked), InStep(way, w),
         NEW p, p = pc, pc' = p \/ (pc' = p + 1 /\ p \notin Where(script, Speaks))
  PROVE  InStep(way, w)'
<1>1. PICK q, on : q = pc' /\ on = transcript'.log
  OBVIOUS
<1>2. p \in Nat /\ IsSeq(script)
  BY VerifyFacts
<1>3. q = p + 1 => p \notin Where(script, Speaks) /\ p \notin Where(script, {"draw"})
  BY <1>1, <1>2 DEF Where, Speaks
<1>4. ASSUME ReadAlike(p), NEW j, Ahead(script, q, j)
      PROVE  <<Partner(w, script, j), on>> \in way
  <2>1. Ahead(script, p, j)
    BY <1>1, <1>2, <1>3, <1>4, AheadNext
  <2> QED BY <1>1, <1>4, <2>1 DEF InStep
<1> QED BY <1>1, <1>3, <1>4, StepOn

LEMMA AgreeStep ==
  ASSUME Control, Verified, Verified', ~ VerifyBegins, proof # Nothing, [Next]_vars,
         NEW way, NEW w, w = ProverScript(scheme, asked), InStep(way, w), KeepStep(w, script)
  PROVE  InStep(way, w)'
<1>1. PICK p : p = pc
  OBVIOUS
<1>2. UNCHANGED env => Kept
  BY DEF Kept
<1>3. OracleKept
  BY OracleGrows
<1>4. Statement = claimed
  BY DEF Statement, Verified
<1>5. CASE Absorb
  <2>1. Doing({"absorb"}) /\ pc' = pc + 1 /\ UNCHANGED <<inputs, script, env, proof>>
    BY <1>5 DEF Absorb
  <2>2. p \in Where(script, {"bind", "absorb"})
    BY <1>1, <2>1, DoingRuns DEF Where
  <2>3. transcript'.log = Append(transcript.log, Entry(p)')
    <3>1. EntryOf(script, Statement, env, p)' = Entry(p)'
      BY DEF Statement, Verified, Entry, EntryOf
    <3> QED BY <1>1, <1>5, <3>1, AbsorbEntry
  <2>4. UNCHANGED <<inputs, script, proof>>
    BY <2>1
  <2> QED BY <1>1, <1>2, <1>3, <2>1, <2>2, <2>3, <2>4, StepEntry
<1>6. CASE Renew
  <2>1. /\ Doing({"renew"}) /\ pc' = pc + 1 /\ transcript' = new(Label)
        /\ UNCHANGED <<inputs, script, proof>> /\ UNCHANGED env
    BY <1>6 DEF Renew
  <2>2. p \in Where(script, {"renew"}) /\ Label = script[p][2]
    BY <1>1, <2>1, DoingRuns DEF Where
  <2> QED BY <1>1, <1>2, <1>3, <2>1, <2>2, StepRenew
<1>7. CASE Pass
  <2>1. /\ Doing(Conditions) /\ pc' = pc + 1 /\ transcript' = transcript
        /\ UNCHANGED <<inputs, script, proof>> /\ UNCHANGED env
    BY <1>7 DEF Pass
  <2>2. p \notin Where(script, Speaks)
    BY <1>1, <2>1, DoingRuns DEF Where, Speaks, Conditions
  <2> QED BY <1>1, <1>2, <1>3, <2>1, <2>2, StepQuiet
<1>8. CASE Refuse \/ VerifyReturns \/ UNCHANGED vars
  <2>1. /\ pc' = pc /\ transcript' = transcript
        /\ UNCHANGED <<inputs, script, proof>> /\ UNCHANGED env
    BY <1>8 DEF Refuse, VerifyReturns, vars, inputs
  <2> QED BY <1>1, <1>2, <1>3, <2>1, StepQuiet
<1>9. CASE Exchange
  <2>1. /\ Doing({"bind", "carry", "peek"}) /\ pc' = pc + 1
        /\ UNCHANGED <<inputs, script, proof>>
    BY <1>9 DEF Exchange
  <2>2. p \in DOMAIN script /\ script[p][1] \in {"bind", "carry", "peek"} /\ Kept
    BY <1>1, <1>9, <2>1, DoingRuns, ExchangeEntry
  <2>3. CASE script[p][1] = "bind"
    <3>1. p \in Where(script, {"bind", "absorb"})
      BY <2>2, <2>3 DEF Where
    <3>2. transcript'.log = Append(transcript.log, Entry(p)')
      <4>1. EntryOf(script, Statement, env, p)' = Entry(p)'
        BY DEF Statement, Verified, Entry, EntryOf
      <4> QED BY <1>1, <1>9, <2>3, <4>1, ExchangeEntry
    <3> QED BY <1>1, <1>3, <2>1, <2>2, <3>1, <3>2, StepEntry
  <2>4. CASE script[p][1] # "bind"
    <3>1. p \notin Where(script, Speaks)
      BY <2>2, <2>4 DEF Where, Speaks
    <3>2. transcript' = transcript
      BY <1>1, <1>9, <2>4, ExchangeEntry
    <3> QED BY <1>1, <1>3, <2>1, <2>2, <3>1, <3>2, StepQuiet
  <2> QED BY <2>3, <2>4
<1>10. CASE DrawUsed
  <2>1. PICK c \in Challenge :
          Usable(scheme, Statement, env, Label, c) /\ Drawn(c) /\ env' = Know(env, Label, c)
    BY <1>10 DEF DrawUsed
  <2>2. Doing({"draw"}) /\ pc' = pc + 1 /\ UNCHANGED <<inputs, script, proof, replaced>>
    BY <1>10 DEF DrawUsed
  <2>3. Kept /\ env'[Label] = c
    BY <1>1, <2>1, <2>2, DrawUsedKnows, DoingRuns
  <2> QED BY <2>1, <2>2, <2>3, StepDraw
<1>11. CASE DrawAgain \/ DrawFailed
  <2>1. PICK c \in Challenge : ~ Usable(scheme, Statement, env, Label, c) /\ Drawn(c)
    BY <1>11 DEF DrawAgain, DrawFailed
  <2>2. /\ Doing({"draw"}) /\ pc' = pc /\ UNCHANGED <<inputs, script, proof, replaced>>
        /\ UNCHANGED env
    BY <1>11 DEF DrawAgain, DrawFailed
  <2> QED BY <1>2, <2>1, <2>2, StepDraw
<1>12. CASE OpenReturns
  BY <1>12 DEF OpenReturns, Verified
<1> QED BY <1>5, <1>6, <1>7, <1>8, <1>9, <1>10, <1>11, <1>12 DEF Next

\* verify begins where open began.
LEMMA AgreeBegins ==
  ASSUME Control, WayInv, VerifyBegins, proof # Nothing,
         NEW w, w = ProverScript(scheme, asked), KeepStep(w, script')
  PROVE  \E way : InStep(way, w)'
<1>1. /\ phase \in {"opened", "forge"} /\ script' = VerifierScript(scheme, claimed) /\ pc' = 1
      /\ transcript' = new(scheme) /\ UNCHANGED <<inputs, proof, oracle>>
  BY DEF VerifyBegins
<1>2. phase = "opened"
  BY <1>1 DEF Control
<1>3. PICK way : Way(way, w, asked, proof)
  BY <1>2 DEF WayInv
<1>4. PICK st, e : st = asked /\ e = proof
  OBVIOUS
<1>5. /\ scheme' = scheme /\ asked' = asked /\ claimed' = claimed /\ proof' = proof
      /\ OracleKept
  BY <1>1 DEF inputs, OracleKept
<1>6. Way(way, w, asked, proof)'
  <2>1. Way(way, w, st, e)'
    BY <1>3, <1>4, <1>5, WayKept
  <2> QED BY <1>4, <1>5, <2>1
<1>7. ASSUME NEW j, Ahead(script', 1, j)
      PROVE  <<Partner(w, script', j), transcript'.log>> \in way
  <2>1. j \in Where(script', Speaks)
    BY <1>7 DEF Ahead
  <2>2. Ahead(w, 1, Partner(w, script', j))
    BY <1>7, <2>1 DEF KeepStep
  <2> QED BY <1>1, <1>3, <2>2 DEF Way, Onward
<1>8. \A d \in Where(script', {"draw"}) : ~ d < pc'
  <2>1. IsSeq(script')
    BY <1>1, Fitting DEF Control
  <2> QED BY <1>1, <2>1, SeqFacts DEF Where
<1> QED BY <1>1, <1>6, <1>7, <1>8 DEF InStep

LEMMA AgreeNext ==
  ASSUME Control, WayInv, AgreeInv, [Next]_vars
  PROVE  AgreeInv'
<1> SUFFICES ASSUME NEW w, Verified', proof' # Nothing, w = ProverScript(scheme, asked)',
                    KeepStep(w, script')
             PROVE  \E way : InStep(way, w)'
  BY DEF AgreeInv
<1>1. CASE VerifyBegins
  <2>1. scheme' = scheme /\ asked' = asked /\ proof' = proof
    BY <1>1 DEF VerifyBegins, inputs
  <2> QED BY <1>1, <2>1, AgreeBegins
<1>2. CASE ~ VerifyBegins
  <2>1. Verified
    BY <1>2, VerifiedBefore
  <2>2. scheme' = scheme /\ asked' = asked /\ proof' = proof /\ script' = script
    BY <1>2, <2>1 DEF Next, vars, inputs, Verified, Absorb, Renew, Pass, Refuse, Exchange, DrawUsed,
           DrawAgain, DrawFailed, OpenReturns, VerifyReturns
  <2>3. PICK way : InStep(way, w)
    BY <2>1, <2>2 DEF AgreeInv
  <2>4. KeepStep(w, script)
    BY <2>2
  <2> QED BY <1>2, <2>1, <2>2, <2>3, <2>4, AgreeStep
<1> QED BY <1>1, <1>2

\* A draw before which all was intact is a draw behind, up to which all was
\* read as written.
LEMMA AgreeAtEnd ==
  ASSUME Control, AgreeInv
  PROVE  ComputeAlike => DrawsAgree
<1> SUFFICES ASSUME ComputeAlike, NEW d \in Intact
             PROVE  env[script[d][2]] = proof[script[d][2]]
  BY DEF DrawsAgree
<1>1. /\ d \in Where(script, {"draw"}) /\ Verified /\ proof # Nothing
      /\ script[d][2] \in DOMAIN env
      /\ \A i \in Positions(Exchanged) : i < d => env[script[i][2]] = proof[script[i][2]]
  BY DEF Intact, Positions, Verified
<1>2. KeepStep(ProverScript(scheme, asked), script) /\ ReadAlike(d)
  BY <1>1 DEF ComputeAlike, ReadAlike
<1>3. d < pc
  BY <1>1, DrawIsFresh
<1> QED BY <1>1, <1>2, <1>3 DEF AgreeInv, InStep

\* For every scheme whose scripts fit, and any hash: a verifier that has read
\* what the prover wrote, and computes what it absorbs as the prover did,
\* draws the prover's challenges, although each of the two asks the hash on
\* its own and either may have had to draw again (Opening, DrawsAgree).
THEOREM DrawsAgreeAlways == Spec => [](ComputeAlike => DrawsAgree)
<1>1. Init => WayInv /\ AgreeInv
  BY WayInit DEF Init, AgreeInv, Verified
<1>2. Control /\ WayInv /\ AgreeInv /\ [Next]_vars => WayInv' /\ AgreeInv'
  BY WayNext, AgreeNext
<1>3. Control /\ AgreeInv => (ComputeAlike => DrawsAgree)
  BY AgreeAtEnd
<1> QED BY <1>1, <1>2, <1>3, ControlAlways, PTL DEF Spec
=============================================================================
