--------------------------- MODULE SumCheckProofs ---------------------------
(***************************************************************************)
(* Theorems about the modules SumCheck and ZeroCheck, for every field,     *)
(* polynomial, message set and challenge set.  SumCheck: its types, the    *)
(* refinement of the interactive protocol, both transcripts, which hold    *)
(* exactly what their party has sent or received and drawn, so that equal  *)
(* messages meet equal challenges and no challenge comes before its        *)
(* message, completeness, and the luck a false claim needs.  ZeroCheck:    *)
(* both sides draw the same r, a true sub-claim about a polynomial that    *)
(* does not vanish needs luck, and a polynomial that vanishes is proved.   *)
(***************************************************************************)
EXTENDS ZeroCheck, FieldLemmas

---------------------------------------------------------------------------
(* Sequences whose elements are of no particular set: the messages.        *)

IsSeq(s) == s \in Seq({s[k] : k \in DOMAIN s})

\* Whatever is a sequence over some set is one over its own elements.
LEMMA SeqIsSeq ==
  ASSUME NEW S, NEW s \in Seq(S)
  PROVE  IsSeq(s) /\ Len(s) \in Nat /\ DOMAIN s = 1 .. Len(s)
<1> DEFINE R == {s[k] : k \in DOMAIN s}
<1>1. Len(s) \in Nat /\ DOMAIN s = 1 .. Len(s) /\ s \in [1 .. Len(s) -> S]
  BY LenProperties
<1>2. s \in [1 .. Len(s) -> R]
  BY <1>1
<1>3. s \in Seq(R)
  BY <1>1, <1>2, SMTT(20)
<1> QED BY <1>1, <1>3 DEF IsSeq

\* An appended element goes to the end and leaves the others in place.
LEMMA AppendIsSeq ==
  ASSUME NEW s, IsSeq(s), NEW e
  PROVE  /\ IsSeq(Append(s, e))
         /\ Len(s) \in Nat
         /\ Len(Append(s, e)) = Len(s) + 1
         /\ DOMAIN s = 1 .. Len(s)
         /\ DOMAIN Append(s, e) = 1 .. Len(s) + 1
         /\ Append(s, e)[Len(s) + 1] = e
         /\ \A k \in 1 .. Len(s) : Append(s, e)[k] = s[k]
<1> DEFINE S == {s[k] : k \in DOMAIN s} \cup {e}
<1>1. s \in Seq(S) /\ e \in S
  BY SeqMonotonic DEF IsSeq
<1> HIDE DEF S
<1>2. Append(s, e) \in Seq(S)
  BY <1>1
<1>3. IsSeq(Append(s, e)) /\ DOMAIN Append(s, e) = 1 .. Len(Append(s, e))
  BY <1>2, SeqIsSeq
<1>4. Len(s) \in Nat /\ DOMAIN s = 1 .. Len(s) /\ Len(Append(s, e)) = Len(s) + 1
  BY <1>1, LenProperties
<1>5. Append(s, e)[Len(s) + 1] = e
  BY <1>1, <1>4
<1>6. \A k \in 1 .. Len(s) : Append(s, e)[k] = s[k]
  BY <1>1, <1>4
<1> QED BY <1>3, <1>4, <1>5, <1>6
---------------------------------------------------------------------------
(* The inductive invariant: shapes of the state, and where each phase is.  *)

AuxInfo == [num_variables : Nat, max_degree : Nat]

\* What the assumptions say of each of Polynomials, and what is true of the
\* f_hat of ZeroCheck as well.
IsPolynomial(p) ==
  /\ p.aux_info \in AuxInfo
  /\ p.mles \in Seq(Table(p.aux_info.num_variables))
  /\ p.products \in Seq([coefficient : Field, factors : Seq(1 .. Len(p.mles))])
  /\ p.aux_info.max_degree < P
  /\ \A k \in DOMAIN p.products : Len(p.products[k].factors) <= p.aux_info.max_degree

VerifierShape ==
  /\ verifier_state =
       [round |-> verifier_state.round, finished |-> verifier_state.finished,
        num_vars |-> verifier_state.num_vars,
        max_degree |-> verifier_state.max_degree,
        polynomials_received |-> verifier_state.polynomials_received,
        challenges |-> verifier_state.challenges]
  /\ verifier_state.round \in Nat
  /\ verifier_state.finished \in BOOLEAN
  /\ IsSeq(Received)
  /\ verifier_state.challenges \in Seq(Challenge)

ProverShape ==
  /\ proof = [point |-> proof.point, proofs |-> proof.proofs]
  /\ prover_state =
       [round |-> prover_state.round, challenges |-> prover_state.challenges,
        mles |-> prover_state.mles]
  /\ prover_state.round \in Nat
  /\ IsSeq(proof.proofs)
  /\ proof.point \in Seq(Challenge)
  /\ prover_state.challenges \in Seq(Challenge)
  /\ challenge \in Seq(Challenge)
  /\ Len(challenge) = IF prover_state.round = 0 THEN 0 ELSE 1

Shape ==
  /\ IsPolynomial(poly)
  /\ aux_info \in AuxInfo
  /\ \A query \in DOMAIN oracle : oracle[query] \in Challenge
  /\ ProverShape
  /\ VerifierShape

\* What each phase has already done, and what it has not touched yet.
Progress ==
  /\ phase = "prove" => prover_state.round = 0
  /\ phase \in {"prove", "proving"} => proof.point = <<>>
  /\ phase = "proving" =>
       /\ poly.aux_info.num_variables > 0
       /\ Len(prover_state.challenges) =
            IF prover_state.round = 0 THEN 0 ELSE prover_state.round - 1
  /\ phase # "proving" => prover_state.challenges = proof.point
  /\ phase \in {"prove", "proving", "proved", "forge"} => Received = <<>>
  /\ phase # "done" => result = Running

ControlInv == Shape /\ Progress /\ TypeOK

LEMMA InputTypes ==
  ASSUME NEW p \in Polynomials, NEW a \in AuxInfos(p)
  PROVE  Phases(p) \subseteq {"prove", "forge"} /\ IsPolynomial(p) /\ a \in AuxInfo
BY InputAssumption, DegreeAssumption DEF IsPolynomial, AuxInfo

LEMMA ShapeTypes ==
  ASSUME Shape
  PROVE  /\ poly.aux_info.num_variables \in Nat /\ poly.aux_info.max_degree \in Nat
         /\ aux_info.num_variables \in Nat /\ aux_info.max_degree \in Nat
BY DEF Shape, IsPolynomial, AuxInfo

LEMMA InitControl == Init => ControlInv
<1> SUFFICES ASSUME Init PROVE ControlInv
  OBVIOUS
<1> USE DEF Init
<1>1. IsSeq(<<>>) /\ <<>> \in Seq(Challenge) /\ Len(<<>>) = 0
  BY SeqIsSeq, EmptySeq
<1>2. /\ poly.aux_info.num_variables \in Nat
      /\ aux_info.num_variables \in Nat
  BY InputTypes DEF IsPolynomial, AuxInfo
<1>3. Shape
  BY <1>1, InputTypes DEF Shape, ProverShape, VerifierShape, Received, prover_init,
              verifier_init, NoAnswers
<1>4. Progress /\ TypeOK
  BY <1>1, <1>2, InputTypes DEF Progress, TypeOK, Received, prover_init, verifier_init
<1> QED BY <1>3, <1>4 DEF ControlInv

\* A draw returns a challenge, and recording it keeps every answer one.
LEMMA DrawIsChallenge ==
  ASSUME NEW o, \A query \in DOMAIN o : o[query] \in Challenge,
         NEW q, NEW c \in Answers(o, q)
  PROVE  /\ c \in Challenge
         /\ \A query \in DOMAIN Record(o, q, c) :
              Record(o, q, c)[query] \in Challenge
BY DEF Answers, Record

LEMMA StepControl == ControlInv /\ [Next]_vars => ControlInv'
<1> SUFFICES ASSUME ControlInv, [Next]_vars PROVE ControlInv'
  OBVIOUS
<1> USE DEF ControlInv, Shape, ProverShape, VerifierShape, Progress, TypeOK,
            Received
<1>0. /\ poly.aux_info.num_variables \in Nat
      /\ aux_info.num_variables \in Nat
  BY ShapeTypes
<1>1. CASE ProveBegin
  <2>1. /\ phase = "prove" /\ phase' \in {"proving", "done"}
        /\ phase' = "proving" => result' = result /\ poly.aux_info.num_variables # 0
        /\ UNCHANGED <<inputs, prover_state, challenge, proof, verifierVars, oracle>>
    BY <1>1 DEF ProveBegin
  <2>2. Shape'
    BY <2>1 DEF inputs, verifierVars
  <2>3. Progress'
    BY <1>0, <2>1 DEF inputs, verifierVars
  <2>4. TypeOK'
    BY <2>1 DEF inputs, verifierVars
  <2> QED BY <2>2, <2>3, <2>4
<1>2. CASE ProveRound
  <2>1. /\ phase = "proving" /\ phase' = "proving"
        /\ UNCHANGED <<inputs, verifierVars, result>>
        /\ Accepts(poly, prover_state, challenge)
    BY <1>2 DEF ProveRound
  <2>2. PICK msg, q, c :
          /\ c \in Answers(oracle, q)
          /\ prover_state' = ProverRound(poly, prover_state, challenge)
          /\ proof' = [proof EXCEPT !.proofs = Append(@, msg)]
          /\ challenge' = <<c>>
          /\ oracle' = Record(oracle, q, c)
    BY <1>2 DEF ProveRound
  <2>3. /\ c \in Challenge
        /\ \A query \in DOMAIN oracle' : oracle'[query] \in Challenge
    BY <2>2, DrawIsChallenge
  <2>4. /\ proof' = [point |-> proof'.point, proofs |-> proof'.proofs]
        /\ proof'.point = proof.point
        /\ proof'.proofs = Append(proof.proofs, msg)
    BY <2>2
  <2>5. IsSeq(proof'.proofs) /\ Len(proof'.proofs) = Len(proof.proofs) + 1
    BY <2>4, AppendIsSeq
  <2>6. /\ prover_state'.round = prover_state.round + 1
        /\ prover_state'.challenges = prover_state.challenges \o challenge
        /\ prover_state' =
             [round |-> prover_state'.round,
              challenges |-> prover_state'.challenges,
              mles |-> prover_state'.mles]
    BY <2>2 DEF ProverRound
  <2>7. /\ prover_state'.challenges \in Seq(Challenge)
        /\ Len(prover_state'.challenges)
             = Len(prover_state.challenges) + Len(challenge)
    <3>1. /\ prover_state.challenges \in Seq(Challenge)
          /\ challenge \in Seq(Challenge)
      OBVIOUS
    <3> QED BY ONLY <2>6, <3>1, ConcatProperties
  <2>8. challenge' \in Seq(Challenge) /\ Len(challenge') = 1 /\ challenge' # <<>>
    BY <2>2, <2>3
  <2>9. Shape' /\ Progress'
    BY <2>1, <2>3, <2>4, <2>5, <2>6, <2>7, <2>8 DEF inputs, verifierVars
  <2>10. TypeOK'
    BY <1>0, <2>1, <2>4, <2>5, <2>6, <2>7, <2>8, SMTT(20)
       DEF inputs, verifierVars, Accepts, Active
  <2> QED BY <2>9, <2>10
<1>3. CASE ProveEnd
  <2>1. /\ prover_state'.challenges = prover_state.challenges \o challenge
        /\ prover_state'.round = prover_state.round
        /\ prover_state' =
             [round |-> prover_state'.round,
              challenges |-> prover_state'.challenges,
              mles |-> prover_state'.mles]
        /\ proof'.proofs = proof.proofs
        /\ proof'.point = prover_state'.challenges
        /\ proof' = [point |-> proof'.point, proofs |-> proof'.proofs]
    BY <1>3 DEF ProveEnd
  <2>2. /\ prover_state'.challenges \in Seq(Challenge)
        /\ Len(prover_state'.challenges)
             = Len(prover_state.challenges) + Len(challenge)
    BY <2>1, ConcatProperties, SMTT(20)
  <2>3. prover_state.round > 0
    BY <1>0, <1>3 DEF ProveEnd, Active
  <2>4. Len(prover_state'.challenges) = prover_state.round
    BY <1>3, <2>2, <2>3 DEF ProveEnd
  <2> QED BY <1>0, <1>3, <2>1, <2>2, <2>3, <2>4
          DEF ProveEnd, inputs, verifierVars
<1>4. CASE VerifyBegin
  BY <1>0, <1>4 DEF VerifyBegin, inputs, proverVars
<1>5. ASSUME NEW m \in Message, VerifyRound(m)
      PROVE  ControlInv'
  <2>1. /\ phase = "verifying" /\ phase' = "verifying" /\ Looping
        /\ UNCHANGED <<inputs, proverVars, result>>
    BY <1>5 DEF VerifyRound
  <2>2. PICK q, c :
          /\ c \in Answers(oracle, q)
          /\ verifier_state' = VerifierRound(verifier_state, m, c)
          /\ oracle' = Record(oracle, q, c)
    BY <1>5 DEF VerifyRound
  <2>3. /\ c \in Challenge
        /\ \A query \in DOMAIN oracle' : oracle'[query] \in Challenge
    BY <2>2, DrawIsChallenge
  <2>4. /\ verifier_state'.polynomials_received = Append(Received, m)
        /\ verifier_state'.challenges = Append(verifier_state.challenges, c)
        /\ verifier_state'.finished
             = (verifier_state.round = verifier_state.num_vars)
        /\ verifier_state'.round =
             IF verifier_state.round = verifier_state.num_vars
             THEN verifier_state.round ELSE verifier_state.round + 1
        /\ verifier_state'.num_vars = verifier_state.num_vars
        /\ verifier_state'.max_degree = verifier_state.max_degree
        /\ verifier_state' =
             [round |-> verifier_state'.round,
              finished |-> verifier_state'.finished,
              num_vars |-> verifier_state'.num_vars,
              max_degree |-> verifier_state'.max_degree,
              polynomials_received |-> verifier_state'.polynomials_received,
              challenges |-> verifier_state'.challenges]
    BY <2>2 DEF VerifierRound
  <2>5. IsSeq(Received') /\ Len(Received') = Len(Received) + 1
    BY <2>4, AppendIsSeq
  <2>6. /\ verifier_state'.challenges \in Seq(Challenge)
        /\ Len(verifier_state'.challenges) = Len(verifier_state.challenges) + 1
    BY <2>3, <2>4, AppendProperties
  <2>7. Len(Received) \in Nat /\ Len(Received) < aux_info.num_variables
    BY <1>0, <2>1, AppendIsSeq DEF Looping, Iteration, IsSeq
  <2>8. Shape' /\ Progress'
    BY <2>1, <2>3, <2>4, <2>5, <2>6, SMTT(20) DEF inputs, proverVars
  <2>9. TypeOK'
    <3>1. /\ ~ verifier_state.finished
          /\ verifier_state.round = Len(Received) + 1
          /\ verifier_state.num_vars = aux_info.num_variables
          /\ Len(verifier_state.challenges) = Len(Received)
          /\ aux_info' = aux_info
      BY <2>1, <2>7 DEF inputs
    <3>2. verifier_state'.finished <=>
            Len(Received') = aux_info'.num_variables
      BY ONLY <1>0, <2>4, <2>5, <2>7, <3>1, Zenon
    <3>3. /\ ~ verifier_state'.finished =>
               verifier_state'.round = Len(Received') + 1
          /\ Len(Received') <= aux_info'.num_variables
          /\ Len(Received') > 0
          /\ Len(verifier_state'.challenges) = Len(Received')
      BY ONLY <1>0, <2>4, <2>5, <2>6, <2>7, <3>1, <3>2
    <3> QED BY <2>1, <2>4, <3>1, <3>2, <3>3 DEF inputs, proverVars
  <2> QED BY <2>8, <2>9
<1>6. CASE VerifyIncomplete
  BY <1>0, <1>6 DEF VerifyIncomplete, inputs, proverVars, verifierVars
<1>7. CASE VerifyEnd
  BY <1>0, <1>7 DEF VerifyEnd, inputs, proverVars, verifierVars
<1>8. CASE UNCHANGED vars
  BY <1>8 DEF vars
<1> QED BY <1>1, <1>2, <1>3, <1>4, <1>5, <1>6, <1>7, <1>8 DEF Next

\* In every reachable state the control state of both parties is in order
\* (round counters, loop ends, number of challenges of prover.rs and
\* verifier.rs).
THEOREM TypeCorrect == Spec => []TypeOK
<1>1. Spec => []ControlInv
  BY InitControl, StepControl, PTL DEF Spec
<1>2. ControlInv => TypeOK
  BY DEF ControlInv
<1> QED BY <1>1, <1>2, PTL

---------------------------------------------------------------------------
(* The refinement of the interactive protocol.                             *)

\* A step that leaves the verifier, its inputs and the verdict alone is one
\* in which the interactive protocol does not move.
LEMMA StutterMaps ==
  ASSUME UNCHANGED <<aux_info, claimed_sum, verifier_state>>,
         Verdict' = Verdict
  PROVE  UNCHANGED Interactive!vars
<1>1. UNCHANGED <<Received, Spoilt>>
  BY DEF Received, Spoilt
<1>2. UNCHANGED Alive
  BY DEF Alive, Received
<1>3. UNCHANGED CurrentClaim
  BY <1>1, <1>2 DEF CurrentClaim
<1> QED BY <1>1, <1>2, <1>3 DEF Interactive!vars

\* Reading message m and drawing challenge c changes what the deferred
\* checks will say of the rounds so far exactly as checking m at once would.
LEMMA ReadingMaps ==
  ASSUME ControlInv, NEW m, NEW c,
         UNCHANGED <<aux_info, claimed_sum>>,
         verifier_state'.polynomials_received = Append(Received, m),
         verifier_state'.challenges = Append(verifier_state.challenges, c),
         verifier_state'.max_degree = verifier_state.max_degree
  PROVE  LET d == aux_info.max_degree
         IN  /\ Spoilt' <=> Spoilt \/ IsNode(d, c)
             /\ Alive' <=> /\ Alive
                           /\ Usable(m, d)
                           /\ Spoilt \/ Opening(m) = CurrentClaim
             /\ CurrentClaim' = IF Alive' /\ ~ Spoilt'
                                THEN interpolate_uni_poly(m, d, c)
                                ELSE NoClaim
<1> DEFINE d == aux_info.max_degree
           n == Len(Received)
           chs == verifier_state.challenges
<1>1. /\ IsSeq(Received) /\ chs \in Seq(Challenge)
      /\ Len(chs) = n /\ verifier_state.max_degree = d
  BY DEF ControlInv, Shape, VerifierShape, TypeOK
<1>2. /\ n \in Nat
      /\ DOMAIN Received = 1 .. n
      /\ DOMAIN Received' = 1 .. n + 1
      /\ Received'[n + 1] = m
      /\ \A i \in 1 .. n : Received'[i] = Received[i]
      /\ Len(Received') = n + 1
  BY <1>1, AppendIsSeq DEF Received
<1>3. /\ chs'[n + 1] = c
      /\ \A i \in 1 .. n : chs'[i] = chs[i]
  BY <1>1, SeqIsSeq, AppendIsSeq
<1>4. \A i \in 1 .. n + 1 :
        expected(verifier_state', claimed_sum', i)
          = expected(verifier_state, claimed_sum, i)
  BY <1>1, <1>2, <1>3 DEF expected, Received
<1>5. expected(verifier_state', claimed_sum', n + 2)
        = interpolate_uni_poly(m, d, c)
  BY <1>1, <1>2, <1>3 DEF expected, Received
<1> DEFINE good(i) ==
             /\ Usable(Received[i], d)
             /\ \/ \E j \in 1 .. i-1 : IsNode(d, chs[j])
                \/ Opening(Received[i]) = expected(verifier_state, claimed_sum, i)
<1>6. d' = d
  OBVIOUS
<1>7. /\ Spoilt <=> \E j \in 1 .. n : IsNode(d, chs[j])
      /\ Spoilt' <=> \E j \in 1 .. n + 1 : IsNode(d, chs'[j])
  BY <1>2, <1>6 DEF Spoilt
<1>8. /\ Alive <=> \A i \in 1 .. n : good(i)
      /\ Alive' <=> \A i \in 1 .. n + 1 : good(i)'
  BY <1>2 DEF Alive
<1>9. CurrentClaim = IF Alive /\ ~ Spoilt
                     THEN expected(verifier_state, claimed_sum, n + 1)
                     ELSE NoClaim
  BY DEF CurrentClaim
<1> HIDE DEF n, d, chs
<1>10. Spoilt' <=> Spoilt \/ IsNode(d, c)
  BY <1>2, <1>3, <1>7
<1>11. ASSUME NEW i \in 1 .. n
       PROVE  good(i)' <=> good(i)
  <2>1. Received'[i] = Received[i]
    BY <1>2
  <2>2. \A j \in 1 .. i-1 : chs'[j] = chs[j]
    BY <1>2, <1>3
  <2>3. expected(verifier_state', claimed_sum', i)
          = expected(verifier_state, claimed_sum, i)
    BY <1>2, <1>4
  <2> QED BY <1>6, <2>1, <2>2, <2>3
<1>l. PICK last \in Nat : last = n + 1
  BY <1>2
<1>12. good(last)' <=>
         /\ Usable(m, d)
         /\ \/ Spoilt
            \/ Opening(m) = expected(verifier_state, claimed_sum, n + 1)
  <2>1. (\E j \in 1 .. n : IsNode(d, chs'[j])) <=> Spoilt
    BY <1>2, <1>3, <1>7
  <2>2. last - 1 = n /\ last \in 1 .. n + 1 /\ Received'[last] = m
    BY <1>2, <1>l
  <2>3. expected(verifier_state', claimed_sum', last)
          = expected(verifier_state, claimed_sum, n + 1)
    BY <1>4, <1>l, <2>2
  <2> QED BY <1>6, <2>1, <2>2, <2>3
<1>13. Alive' <=> Alive /\ good(last)'
  <2> DEFINE goodNow(i) == good(i)
             goodNext(i) == good(i)'
  <2>1. \A i \in 1 .. n : goodNext(i) <=> goodNow(i)
    BY <1>11
  <2>2. /\ Alive <=> \A i \in 1 .. n : goodNow(i)
        /\ Alive' <=> \A i \in 1 .. n + 1 : goodNext(i)
    BY <1>8
  <2>3. 1 .. n + 1 = 1 .. n \cup {last}
    BY <1>2, <1>l
  <2> HIDE DEF goodNow, goodNext
  <2>4. Alive' <=> Alive /\ goodNext(last)
    BY <2>1, <2>2, <2>3, Zenon
  <2> QED BY <2>4 DEF goodNext
<1>14. Alive' <=>
         /\ Alive
         /\ Usable(m, d)
         /\ Spoilt \/ Opening(m) = CurrentClaim
  BY <1>9, <1>12, <1>13
<1>15. CurrentClaim' = IF Alive' /\ ~ Spoilt'
                       THEN interpolate_uni_poly(m, d, c) ELSE NoClaim
  <2>1. Len(Received') + 1 = n + 2
    BY <1>2
  <2> QED BY <1>5, <2>1 DEF CurrentClaim
<1> QED BY <1>10, <1>14, <1>15 DEF d

\* The verdict check_and_generate_subclaim reaches on the deferred checks is
\* one the interactive verifier may reach.
LEMMA VerdictMaps ==
  ASSUME ControlInv, VerifyEnd
  PROVE  Interactive!Accept \/ Interactive!Reject \/ Interactive!Abort
<1> DEFINE d == aux_info.max_degree
           n == Len(Received)
           v == verifier_state
<1>1. /\ IsSeq(Received) /\ n = aux_info.num_variables /\ n = v.num_vars
      /\ v.max_degree = d /\ Len(v.challenges) = n
      /\ v.finished <=> n > 0
      /\ result = Running
  <2>1. /\ IsSeq(Received) /\ v.num_vars = aux_info.num_variables
        /\ v.max_degree = d /\ Len(v.challenges) = n
        /\ n <= aux_info.num_variables
        /\ v.finished <=> n = aux_info.num_variables /\ n > 0
    BY DEF ControlInv, Shape, VerifierShape, TypeOK
  <2>2. aux_info.num_variables \in Nat /\ n \in Nat
    BY <2>1, ShapeTypes, SeqIsSeq DEF ControlInv, Shape, IsSeq
  <2>3. ~ (n + 1 <= aux_info.num_variables)
    BY DEF VerifyEnd, Looping, Iteration, Received
  <2>4. result = Running
    BY DEF VerifyEnd, ControlInv, Progress
  <2> QED BY <2>1, <2>2, <2>3, <2>4
<1>2. n \in Nat /\ DOMAIN Received = 1 .. n
  BY <1>1, SeqIsSeq DEF IsSeq
<1>3. /\ UNCHANGED <<aux_info, claimed_sum, verifier_state>>
      /\ phase' = "done"
      /\ result' \in check_and_generate_subclaim(v, claimed_sum)
  BY DEF VerifyEnd, inputs, verifierVars
<1>4. /\ UNCHANGED <<Received, Spoilt>>
      /\ UNCHANGED Alive
  BY <1>3 DEF Received, Spoilt, Alive
<1>5. UNCHANGED CurrentClaim
  BY <1>3, <1>4 DEF CurrentClaim
<1>6. Verdict = "none"
  BY <1>1 DEF Verdict, Running
<1>7. ASSUME result' = Err("InvalidVerifier") \/ result' = Err("InvalidProof"),
             n = 0 \/ ~ Alive
      PROVE  Interactive!Reject
  <2>1. Verdict' = "reject"
    BY <1>3, <1>7 DEF Verdict, Err
  <2> QED BY <1>1, <1>3, <1>4, <1>5, <1>6, <1>7, <2>1 DEF Interactive!Reject
<1>8. ASSUME result' = Panic, Spoilt \/ d = 0
      PROVE  Interactive!Abort
  <2>1. Verdict' = "abort"
    BY <1>8 DEF Verdict, Panic
  <2> QED BY <1>3, <1>4, <1>5, <1>6, <1>8, <2>1 DEF Interactive!Abort
<1>9. CASE n = 0
  BY <1>1, <1>3, <1>7, <1>9 DEF check_and_generate_subclaim
<1>10. CASE n > 0 /\ (Malformed(v) # {} \/ Degenerate(v) # {})
  <2>1. \/ result' = Err("InvalidVerifier") /\ Malformed(v) # {}
        \/ result' = Panic /\ Degenerate(v) # {}
    BY <1>1, <1>3, <1>10 DEF check_and_generate_subclaim, Err, Panic, Received
  <2>2. Malformed(v) # {} => ~ Alive
    BY <1>1 DEF Malformed, Alive, Usable, Received
  <2>3. Degenerate(v) # {} => Spoilt
    BY <1>1 DEF Degenerate, Spoilt, Received
  <2> QED BY <1>7, <1>8, <2>1, <2>2, <2>3
<1>11. CASE n > 0 /\ Malformed(v) = {} /\ Degenerate(v) = {}
  <2>1. \A i \in 1 .. n : WellFormed(Received[i], d) /\ ~ IsNode(d, v.challenges[i])
    BY <1>1, <1>2, <1>11 DEF Malformed, Degenerate, Received
  <2>2. ~ Spoilt
    BY <1>2, <2>1 DEF Spoilt
  <2>3. CASE d = 0
    BY <1>1, <1>3, <1>8, <1>11, <2>3 DEF check_and_generate_subclaim, Received
  <2>4. CASE d # 0
    <3>1. d > 0
      BY <2>4, ShapeTypes DEF ControlInv, Shape
    <3>2. Alive <=> Consistent(v, claimed_sum)
      <4>1. \A i \in 1 .. n : Usable(Received[i], d)
        BY <2>1, <3>1 DEF Usable
      <4>2. \A i \in 1 .. n : ~ \E j \in 1 .. i-1 : IsNode(d, v.challenges[j])
        BY <1>2, <2>1
      <4>3. Alive <=> \A i \in 1 .. n :
                       Opening(Received[i]) = expected(v, claimed_sum, i)
        BY <1>2, <4>1, <4>2 DEF Alive
      <4> QED BY <1>1, <4>3 DEF Consistent, Received
    <3>3. CASE ~ Consistent(v, claimed_sum)
      BY <1>1, <1>3, <1>7, <1>11, <2>4, <3>2, <3>3
         DEF check_and_generate_subclaim, Received
    <3>4. CASE Consistent(v, claimed_sum)
      <4>1. result' = SubClaim(v.challenges,
                               expected(v, claimed_sum, v.num_vars + 1))
        BY <1>1, <1>3, <1>11, <2>4, <3>4
           DEF check_and_generate_subclaim, Received
      <4>2. Verdict' = "accept"
        BY <4>1 DEF Verdict, SubClaim
      <4> QED BY <1>1, <1>3, <1>4, <1>5, <1>6, <1>11, <2>2, <3>2, <3>4, <4>2
              DEF Interactive!Accept
    <3> QED BY <3>3, <3>4
  <2> QED BY <2>3, <2>4
<1> QED BY <1>2, <1>9, <1>10, <1>11

LEMMA StepMaps ==
  ControlInv /\ [Next]_vars => [Interactive!Next]_(Interactive!vars)
<1> SUFFICES ASSUME ControlInv, [Next]_vars
             PROVE  [Interactive!Next]_(Interactive!vars)
  OBVIOUS
<1>1. CASE ProveBegin
  <2>1. UNCHANGED <<aux_info, claimed_sum, verifier_state>>
    BY <1>1 DEF ProveBegin, inputs, verifierVars
  <2>2. Verdict' = Verdict
    <3>1. result = Running
      BY <1>1 DEF ProveBegin, ControlInv, Progress
    <3>2. \/ result' = result
          \/ result' = Err("InvalidParameters")
      BY <1>1 DEF ProveBegin
    <3>3. Verdict = "none"
      BY <3>1 DEF Verdict, Running
    <3>4. Verdict' = "none"
      BY <3>1, <3>2 DEF Verdict, Running, Err
    <3> QED BY <3>3, <3>4
  <2> QED BY <2>1, <2>2, StutterMaps
<1>2. CASE ProveRound
  <2>1. UNCHANGED <<aux_info, claimed_sum, verifier_state, phase, result>>
    BY <1>2 DEF ProveRound, inputs, verifierVars
  <2>2. Verdict' = Verdict
    BY <2>1 DEF Verdict
  <2> QED BY <2>1, <2>2, StutterMaps
<1>3. CASE ProveEnd
  <2>1. UNCHANGED <<aux_info, claimed_sum, verifier_state, result>>
    BY <1>3 DEF ProveEnd, inputs, verifierVars
  <2>2. Verdict' = Verdict
    BY <1>3, <2>1 DEF ProveEnd, Verdict, ControlInv, Progress, Running
  <2> QED BY <2>1, <2>2, StutterMaps
<1>4. CASE VerifyBegin
  <2>1. UNCHANGED <<aux_info, claimed_sum, verifier_state, result>>
    BY <1>4 DEF VerifyBegin, inputs
  <2>2. Verdict' = Verdict
    BY <1>4, <2>1 DEF VerifyBegin, Verdict, ControlInv, Progress, Running
  <2> QED BY <2>1, <2>2, StutterMaps
<1>5. ASSUME NEW m \in Message, VerifyRound(m)
      PROVE  Interactive!Next
  <2>1. PICK q, c :
          /\ c \in Answers(oracle, q)
          /\ verifier_state' = VerifierRound(verifier_state, m, c)
    BY <1>5 DEF VerifyRound
  <2>2. c \in Challenge
    BY <2>1, DrawIsChallenge DEF ControlInv, Shape
  <2>3. /\ verifier_state'.polynomials_received = Append(Received, m)
        /\ verifier_state'.challenges = Append(verifier_state.challenges, c)
        /\ verifier_state'.max_degree = verifier_state.max_degree
    BY <2>1 DEF VerifierRound, ControlInv, Shape, VerifierShape, Received
  <2>4. /\ UNCHANGED <<aux_info, claimed_sum, result, phase>>
        /\ phase = "verifying" /\ Looping
    BY <1>5 DEF VerifyRound, inputs
  <2>5. Verdict = "none" /\ Verdict' = "none"
    BY <2>4 DEF Verdict, ControlInv, Progress, Running
  <2>6. Len(verifier_state.challenges) < aux_info.num_variables
    <3>1. /\ Len(verifier_state.challenges) = Len(Received)
          /\ verifier_state.challenges \in Seq(Challenge)
      BY DEF ControlInv, TypeOK, Shape, VerifierShape
    <3>2. aux_info.num_variables \in Nat
      BY ShapeTypes DEF ControlInv, Shape
    <3> QED BY <2>4, <3>1, <3>2, LenProperties
            DEF Looping, Iteration, Received
  <2>7. LET d == aux_info.max_degree
        IN  /\ Spoilt' <=> Spoilt \/ IsNode(d, c)
            /\ Alive' <=> /\ Alive
                          /\ Usable(m, d)
                          /\ Spoilt \/ Opening(m) = CurrentClaim
            /\ CurrentClaim' = IF Alive' /\ ~ Spoilt'
                               THEN interpolate_uni_poly(m, d, c)
                               ELSE NoClaim
    BY <2>3, <2>4, ReadingMaps
  <2>8. Interactive!Round(m, c)
    <3>0. Spoilt' \in BOOLEAN /\ Alive' \in BOOLEAN
      BY DEF Spoilt, Alive
    <3>1. Spoilt' = (Spoilt \/ IsNode(aux_info.max_degree, c))
      BY <2>7, <3>0
    <3>2. Alive' = (/\ Alive
                    /\ Usable(m, aux_info.max_degree)
                    /\ Spoilt \/ Opening(m) = CurrentClaim)
      BY <2>7, <3>0
    <3>3. CurrentClaim' =
            IF Alive' /\ ~ Spoilt'
            THEN interpolate_uni_poly(m, aux_info.max_degree, c)
            ELSE NoClaim
      BY <2>7
    <3> QED BY <2>3, <2>4, <2>5, <2>6, <3>1, <3>2, <3>3
            DEF Interactive!Round
  <2> QED BY <2>2, <2>8 DEF Interactive!Next
<1>6. CASE VerifyIncomplete
  <2>1. UNCHANGED <<aux_info, claimed_sum, verifier_state>>
    BY <1>6 DEF VerifyIncomplete, inputs, verifierVars
  <2>2. Verdict = "none" /\ Verdict' = "abort"
    BY <1>6 DEF VerifyIncomplete, Verdict, ControlInv, Progress, Running, Panic
  <2>3. UNCHANGED <<Spoilt, Alive, CurrentClaim>>
    <3>1. UNCHANGED <<Received, Spoilt>>
      BY <2>1 DEF Received, Spoilt
    <3>2. UNCHANGED Alive
      BY <2>1 DEF Received, Alive
    <3> QED BY <2>1, <3>1, <3>2 DEF CurrentClaim
  <2>4. Len(verifier_state.challenges) < aux_info.num_variables
    <3>1. /\ Len(verifier_state.challenges) = Len(Received)
          /\ verifier_state.challenges \in Seq(Challenge)
      BY DEF ControlInv, TypeOK, Shape, VerifierShape
    <3>2. aux_info.num_variables \in Nat
      BY ShapeTypes DEF ControlInv, Shape
    <3> QED BY <1>6, <3>1, <3>2, LenProperties
            DEF VerifyIncomplete, Looping, Iteration, Received
  <2> QED BY <2>1, <2>2, <2>3, <2>4 DEF Interactive!Next, Interactive!Abort
<1>7. CASE VerifyEnd
  BY <1>7, VerdictMaps DEF Interactive!Next
<1>8. CASE UNCHANGED vars
  <2>1. UNCHANGED <<aux_info, claimed_sum, verifier_state, phase, result>>
    BY <1>8 DEF vars
  <2>2. Verdict' = Verdict
    BY <2>1 DEF Verdict
  <2> QED BY <2>1, <2>2, StutterMaps
<1> QED BY <1>1, <1>2, <1>3, <1>4, <1>5, <1>6, <1>7, <1>8 DEF Next

LEMMA InitMaps == Init => Interactive!Init
<1> SUFFICES ASSUME Init PROVE Interactive!Init
  OBVIOUS
<1>1. /\ Received = <<>> /\ DOMAIN Received = {}
      /\ verifier_state.challenges = <<>>
  BY DEF Init, verifier_init, Received
<1>2. Alive /\ ~ Spoilt
  BY <1>1 DEF Alive, Spoilt
<1>3. Verdict = "none"
  BY DEF Init, Verdict, Running
<1> QED BY <1>1, <1>2, <1>3 DEF Interactive!Init

\* The non-interactive verifier, which absorbs every message unread and
\* checks them all in check_and_generate_subclaim, implements the
\* interactive one, which checks each message when it arrives.
THEOREM DeferredChecksSuffice == Spec => ImplementsInteractive
<1>1. Spec => []ControlInv
  BY InitControl, StepControl, PTL DEF Spec
<1>2. Spec => Interactive!Spec
  BY <1>1, InitMaps, StepMaps, PTL DEF Spec, Interactive!Spec
<1> QED BY <1>2 DEF ImplementsInteractive

---------------------------------------------------------------------------
(* What a transcript holds after n rounds, and what its nth challenge was  *)
(* asked of the hash.                                                      *)

\* The entries of a log, in the labels the two parties use.
AuxEntry(aux) == <<"aux info", aux>>
MessageEntry(m) == <<"prover msg", m>>
ChallengeEntry(c) == <<"Internal round", c>>
Draw == <<"Internal round">>

\* A log that went on from base: whatever a caller had put into the
\* transcript before.
Header(log, base, aux) ==
  /\ IsSeq(log) /\ IsSeq(base)
  /\ \A k \in 1 .. Len(base) : log[k] = base[k]
  /\ log[Len(base) + 1] = AuxEntry(aux)

History(log, base, aux, msgs, chs, n) ==
  /\ Header(log, base, aux)
  /\ Len(log) = Len(base) + 2*n + 1
  /\ \A i \in 1 .. n : /\ log[Len(base) + 2*i] = MessageEntry(msgs[i])
                       /\ log[Len(base) + 2*i + 1] = ChallengeEntry(chs[i])

Asks(query, base, aux, msgs, chs, n) ==
  /\ Header(query, base, aux)
  /\ Len(query) = Len(base) + 2*n + 1
  /\ \A i \in 1 .. n : query[Len(base) + 2*i] = MessageEntry(msgs[i])
  /\ \A i \in 1 .. n-1 : query[Len(base) + 2*i + 1] = ChallengeEntry(chs[i])
  /\ query[Len(base) + 2*n + 1] = Draw

\* An oracle that knows an answer keeps it, and learns the one drawn.
LEMMA RecordKeeps ==
  ASSUME NEW o, NEW q, NEW c \in Answers(o, q)
  PROVE  /\ q \in DOMAIN Record(o, q, c) /\ Record(o, q, c)[q] = c
         /\ \A p \in DOMAIN o : /\ p \in DOMAIN Record(o, q, c)
                                /\ Record(o, q, c)[p] = o[p]
BY DEF Answers, Record

\* A transcript that absorbed the aux info holds the history of no round.
LEMMA FirstHistory ==
  ASSUME NEW t, NEW base, t.log = base, IsSeq(base), NEW aux, NEW msgs, NEW chs
  PROVE  History(append(t, "aux info", aux).log, base, aux, msgs, chs, 0)
<1> DEFINE e == AuxEntry(aux)
           l == Append(base, e)
<1>1. /\ IsSeq(l) /\ Len(base) \in Nat /\ Len(l) = Len(base) + 1
      /\ l[Len(base) + 1] = e /\ \A k \in 1 .. Len(base) : l[k] = base[k]
  <2> HIDE DEF e
  <2> QED BY AppendIsSeq
<1>2. append(t, "aux info", aux).log = l
  BY DEF append, AuxEntry
<1> HIDE DEF l
<1>3. Header(l, base, aux)
  BY <1>1 DEF Header
<1>4. Len(base) + 2*0 + 1 = Len(base) + 1 /\ 1 .. 0 = {}
  BY <1>1
<1> QED BY <1>1, <1>2, <1>3, <1>4 DEF History

Extends(fam, g, n) == \A i \in 1 .. n : fam[i] = g[i]

\* What a round adds to a history is asked before its challenge is known.
LEMMA RoundHistory ==
  ASSUME NEW t, NEW base, NEW aux, NEW msgs, NEW chs, NEW n \in Nat,
         NEW m, NEW c, NEW msgs1, NEW chs1, NEW n1,
         History(t.log, base, aux, msgs, chs, n), n1 = n + 1,
         Extends(msgs1, msgs, n), Extends(chs1, chs, n),
         msgs1[n1] = m, chs1[n1] = c
  PROVE  /\ Asks(Query(append(t, "prover msg", m), "Internal round"),
                 base, aux, msgs1, chs1, n1)
         /\ History(append(append(t, "prover msg", m), "Internal round", c).log,
                    base, aux, msgs1, chs1, n1)
<1> DEFINE l0 == t.log
           l1 == Append(l0, MessageEntry(m))
           q  == Append(l1, Draw)
           l2 == Append(l1, ChallengeEntry(c))
           h  == Len(base)
<1>1. /\ IsSeq(l0) /\ IsSeq(base) /\ h \in Nat /\ Len(l0) = h + 2*n + 1
      /\ l0[h+1] = AuxEntry(aux) /\ \A k \in 1 .. h : l0[k] = base[k]
  BY LenProperties DEF History, Header, IsSeq
<1> HIDE DEF h
<1>2. /\ IsSeq(l1) /\ Len(l1) = h + 2*n + 2
      /\ l1[h + 2*n + 2] = MessageEntry(m)
      /\ \A k \in 1 .. h + 2*n + 1 : l1[k] = l0[k]
  <2> HIDE DEF l0
  <2>1. /\ IsSeq(l1) /\ Len(l1) = Len(l0) + 1 /\ l1[Len(l0) + 1] = MessageEntry(m)
        /\ \A k \in 1 .. Len(l0) : l1[k] = l0[k]
    BY <1>1, AppendIsSeq
  <2>2. Len(l0) + 1 = h + 2*n + 2
    BY <1>1
  <2> QED BY <1>1, <2>1, <2>2
<1>3. /\ IsSeq(q) /\ Len(q) = h + 2*n + 3
      /\ q[h + 2*n + 3] = Draw
      /\ \A k \in 1 .. h + 2*n + 2 : q[k] = l1[k]
  <2> HIDE DEF l1
  <2>1. /\ IsSeq(q) /\ Len(q) = Len(l1) + 1 /\ q[Len(l1) + 1] = Draw
        /\ \A k \in 1 .. Len(l1) : q[k] = l1[k]
    BY <1>2, AppendIsSeq
  <2>2. Len(l1) + 1 = h + 2*n + 3
    BY <1>1, <1>2
  <2> QED BY <1>2, <2>1, <2>2
<1>4. /\ IsSeq(l2) /\ Len(l2) = h + 2*n + 3
      /\ l2[h + 2*n + 3] = ChallengeEntry(c)
      /\ \A k \in 1 .. h + 2*n + 2 : l2[k] = l1[k]
  <2> HIDE DEF l1
  <2>1. /\ IsSeq(l2) /\ Len(l2) = Len(l1) + 1 /\ l2[Len(l1) + 1] = ChallengeEntry(c)
        /\ \A k \in 1 .. Len(l1) : l2[k] = l1[k]
    BY <1>2, AppendIsSeq
  <2>2. Len(l1) + 1 = h + 2*n + 3
    BY <1>1, <1>2
  <2> QED BY <1>2, <2>1, <2>2
<1>5. \A k \in 1 .. h + 2*n + 1 : q[k] = l0[k] /\ l2[k] = l0[k]
  <2> HIDE DEF l0, l1, q, l2
  <2>1. \A k \in 1 .. h + 2*n + 1 : k \in 1 .. h + 2*n + 2
    BY <1>1
  <2> QED BY <1>2, <1>3, <1>4, <2>1
<1>7. \A i \in 1 .. n : /\ l0[h + 2*i] = MessageEntry(msgs1[i])
                        /\ l0[h + 2*i + 1] = ChallengeEntry(chs1[i])
  BY DEF History, Extends, h
<1> HIDE DEF l0, l1, q, l2
<1>6. Header(q, base, aux) /\ Header(l2, base, aux)
  <2>1. h + 1 \in 1 .. h + 2*n + 1 /\ \A k \in 1 .. h : k \in 1 .. h + 2*n + 1
    BY <1>1
  <2>2. q[h+1] = AuxEntry(aux) /\ l2[h+1] = AuxEntry(aux)
        /\ \A k \in 1 .. h : q[k] = base[k] /\ l2[k] = base[k]
    BY <1>1, <1>5, <2>1
  <2> QED BY <1>1, <1>3, <1>4, <2>2 DEF Header, h
<1>8. \A i \in 1 .. n+1 : /\ q[h + 2*i] = MessageEntry(msgs1[i])
                          /\ l2[h + 2*i] = MessageEntry(msgs1[i])
  <2> TAKE i \in 1 .. n+1
  <2>1. CASE i \in 1 .. n
    <3>1. h + 2*i \in 1 .. h + 2*n + 1
      BY <1>1, <2>1
    <3> QED BY <1>5, <1>7, <2>1, <3>1
  <2>2. CASE i = n + 1
    <3>1. h + 2*i = h + 2*n + 2 /\ h + 2*n + 2 \in 1 .. h + 2*n + 2
      BY <1>1, <2>2
    <3> QED BY <1>2, <1>3, <1>4, <2>2, <3>1
  <2> QED BY <2>1, <2>2
<1>9. \A i \in 1 .. n : /\ q[h + 2*i + 1] = ChallengeEntry(chs1[i])
                        /\ l2[h + 2*i + 1] = ChallengeEntry(chs1[i])
  <2> TAKE i \in 1 .. n
  <2>1. h + 2*i + 1 \in 1 .. h + 2*n + 1
    BY <1>1
  <2> QED BY <1>5, <1>7, <2>1
<1>10. h + 2*(n+1) + 1 = h + 2*n + 3 /\ (n+1) - 1 = n
  BY <1>1
<1>11. Asks(q, base, aux, msgs1, chs1, n+1)
  BY <1>3, <1>6, <1>8, <1>9, <1>10 DEF Asks, h
<1>12. History(l2, base, aux, msgs1, chs1, n+1)
  <2>1. \A i \in 1 .. n+1 : l2[h + 2*i + 1] = ChallengeEntry(chs1[i])
    <3> TAKE i \in 1 .. n+1
    <3>1. CASE i \in 1 .. n
      BY <1>9, <3>1
    <3>2. CASE i = n + 1
      BY <1>4, <1>10, <3>2
    <3> QED BY <3>1, <3>2
  <2> QED BY <1>4, <1>6, <1>8, <1>10, <2>1 DEF History, h
<1> QED BY <1>11, <1>12 DEF append, Query, l0, l1, q, l2, MessageEntry, ChallengeEntry, Draw

\* Sequences are known by their elements.
LEMMA SameElements ==
  ASSUME NEW s, IsSeq(s), NEW t, IsSeq(t), Len(s) = Len(t),
         \A k \in 1 .. Len(s) : s[k] = t[k]
  PROVE  s = t
<1>1. DOMAIN s = 1 .. Len(s) /\ DOMAIN t = 1 .. Len(t)
  BY SeqIsSeq DEF IsSeq
<1>2. \A u : IsSeq(u) => u = [k \in DOMAIN u |-> u[k]]
  <2> TAKE u
  <2> HAVE IsSeq(u)
  <2> DEFINE R == {u[k] : k \in DOMAIN u}
  <2>1. u \in [1 .. Len(u) -> R]
    BY LenProperties DEF IsSeq
  <2> QED BY <2>1
<1>3. s = [k \in DOMAIN s |-> s[k]] /\ t = [k \in DOMAIN t |-> t[k]]
  BY <1>2
<1> QED BY <1>1, <1>3

\* The positions after the header, two for each round.
LEMMA RoundPositions ==
  ASSUME NEW h \in Nat, NEW n \in Nat, NEW k \in 1 .. h + 2*n + 1
  PROVE  \/ k \in 1 .. h
         \/ k = h + 1
         \/ \E i \in 1 .. n : k = h + 2*i \/ k = h + 2*i + 1
<1>1. CASE k > h + 1
  <2> DEFINE j == k - h
             i == j \div 2
  <2>1. j \in 2 .. 2*n + 1
    BY <1>1
  <2> HIDE DEF j
  <2>2. i \in 1 .. n /\ (j = 2*i \/ j = 2*i + 1)
    BY <2>1
  <2> HIDE DEF i
  <2>3. k = h + j
    BY DEF j
  <2> QED BY <2>2, <2>3
<1> QED BY <1>1

\* Two queries about the same messages after the same challenges are one.
LEMMA AsksUnique ==
  ASSUME NEW base, NEW aux, NEW n \in Nat \ {0},
         NEW q1, NEW msgs1, NEW chs1, Asks(q1, base, aux, msgs1, chs1, n),
         NEW q2, NEW msgs2, NEW chs2, Asks(q2, base, aux, msgs2, chs2, n),
         \A i \in 1 .. n : msgs1[i] = msgs2[i],
         \A i \in 1 .. n-1 : chs1[i] = chs2[i]
  PROVE  q1 = q2
<1> DEFINE h == Len(base)
<1>0. h \in Nat
  BY LenProperties DEF Asks, Header, IsSeq
<1>1. /\ IsSeq(q1) /\ Len(q1) = h + 2*n + 1 /\ \A k \in 1 .. h : q1[k] = base[k]
      /\ q1[h + 1] = AuxEntry(aux) /\ q1[h + 2*n + 1] = Draw
      /\ \A i \in 1 .. n : q1[h + 2*i] = MessageEntry(msgs1[i])
      /\ \A i \in 1 .. n-1 : q1[h + 2*i + 1] = ChallengeEntry(chs1[i])
  BY DEF Asks, Header
<1>2. /\ IsSeq(q2) /\ Len(q2) = h + 2*n + 1 /\ \A k \in 1 .. h : q2[k] = base[k]
      /\ q2[h + 1] = AuxEntry(aux) /\ q2[h + 2*n + 1] = Draw
      /\ \A i \in 1 .. n : q2[h + 2*i] = MessageEntry(msgs2[i])
      /\ \A i \in 1 .. n-1 : q2[h + 2*i + 1] = ChallengeEntry(chs2[i])
  BY DEF Asks, Header
<1> HIDE DEF h
<1>3. ASSUME NEW k \in 1 .. h + 2*n + 1
      PROVE  q1[k] = q2[k]
  <2>1. CASE k \in 1 .. h
    BY <1>1, <1>2, <2>1
  <2>2. CASE k = h + 1
    BY <1>1, <1>2, <2>2
  <2>3. ASSUME NEW i \in 1 .. n, k = h + 2*i \/ k = h + 2*i + 1
        PROVE  q1[k] = q2[k]
    <3>1. CASE k = h + 2*i
      BY <1>1, <1>2, <3>1
    <3>2. CASE k = h + 2*i + 1 /\ i # n
      <4>1. i \in 1 .. n-1
        BY <3>2
      <4>2. k = h + 2*i + 1
        BY <3>2
      <4>3. q1[h + 2*i + 1] = ChallengeEntry(chs1[i])
        BY <1>1, <4>1
      <4>4. q2[h + 2*i + 1] = ChallengeEntry(chs2[i])
        BY <1>2, <4>1
      <4>5. chs1[i] = chs2[i]
        BY <4>1
      <4> QED BY <4>2, <4>3, <4>4, <4>5
    <3>3. CASE k = h + 2*i + 1 /\ i = n
      BY <1>1, <1>2, <3>3
    <3> QED BY <2>3, <3>1, <3>2, <3>3
  <2> QED BY <1>0, <2>1, <2>2, <2>3, RoundPositions
<1> QED BY <1>1, <1>2, <1>3, SameElements

\* Two histories of the same rounds are one log.
LEMMA HistoryUnique ==
  ASSUME NEW base, NEW aux, NEW n \in Nat,
         NEW l1, NEW msgs1, NEW chs1, History(l1, base, aux, msgs1, chs1, n),
         NEW l2, NEW msgs2, NEW chs2, History(l2, base, aux, msgs2, chs2, n),
         \A i \in 1 .. n : msgs1[i] = msgs2[i] /\ chs1[i] = chs2[i]
  PROVE  l1 = l2
<1> DEFINE h == Len(base)
<1>0. h \in Nat
  BY LenProperties DEF History, Header, IsSeq
<1>1. /\ IsSeq(l1) /\ Len(l1) = h + 2*n + 1 /\ \A k \in 1 .. h : l1[k] = base[k]
      /\ l1[h + 1] = AuxEntry(aux)
      /\ \A i \in 1 .. n : /\ l1[h + 2*i] = MessageEntry(msgs1[i])
                           /\ l1[h + 2*i + 1] = ChallengeEntry(chs1[i])
  BY DEF History, Header
<1>2. /\ IsSeq(l2) /\ Len(l2) = h + 2*n + 1 /\ \A k \in 1 .. h : l2[k] = base[k]
      /\ l2[h + 1] = AuxEntry(aux)
      /\ \A i \in 1 .. n : /\ l2[h + 2*i] = MessageEntry(msgs2[i])
                           /\ l2[h + 2*i + 1] = ChallengeEntry(chs2[i])
  BY DEF History, Header
<1> HIDE DEF h
<1>3. ASSUME NEW k \in 1 .. h + 2*n + 1
      PROVE  l1[k] = l2[k]
  <2>1. ASSUME NEW i \in 1 .. n, k = h + 2*i \/ k = h + 2*i + 1
        PROVE  l1[k] = l2[k]
    <3>1. msgs1[i] = msgs2[i] /\ chs1[i] = chs2[i]
      BY <2>1
    <3>2. l1[h + 2*i] = l2[h + 2*i]
      BY <1>1, <1>2, <2>1, <3>1
    <3>3. l1[h + 2*i + 1] = l2[h + 2*i + 1]
      BY <1>1, <1>2, <2>1, <3>1
    <3> QED BY <2>1, <3>2, <3>3
  <2>2. CASE k \in 1 .. h \/ k = h + 1
    BY <1>1, <1>2, <2>2
  <2> QED BY <1>0, <2>1, <2>2, RoundPositions
<1> QED BY <1>1, <1>2, <1>3, SameElements

\* What a query is about depends on the rounds it covers only.
LEMMA AsksStable ==
  ASSUME NEW q, NEW base, NEW aux, NEW msgs1, NEW chs1, NEW msgs2, NEW chs2, NEW n,
         Asks(q, base, aux, msgs1, chs1, n),
         \A i \in 1 .. n : msgs1[i] = msgs2[i],
         \A i \in 1 .. n-1 : chs1[i] = chs2[i]
  PROVE  Asks(q, base, aux, msgs2, chs2, n)
BY DEF Asks

\* A transcript that a SumCheck called on its own begins with.
ProtocolEntry == <<"SumCheck">>
SumBase == <<ProtocolEntry>>

LEMMA SumBaseFacts ==
  /\ IsSeq(SumBase) /\ Len(SumBase) = 1 /\ SumBase[1] = ProtocolEntry
  /\ new("SumCheck").log = SumBase
<1>1. \A a : <<a>> \in Seq({a}) /\ Len(<<a>>) = 1 /\ <<a>>[1] = a
  OBVIOUS
<1>2. PICK a : a = ProtocolEntry
  OBVIOUS
<1>3. SumBase = <<a>>
  BY <1>2 DEF SumBase
<1>4. IsSeq(SumBase)
  BY <1>1, <1>3, SeqIsSeq
<1>5. new("SumCheck").log = SumBase
  BY DEF new, SumBase, ProtocolEntry
<1> QED BY <1>1, <1>2, <1>3, <1>4, <1>5

\* The messages in a query are those it was asked about, in their order.
ReadFrom(entry, read) ==
  IF entry[1] = "prover msg" THEN Append(read, entry[2]) ELSE read
NothingRead == <<>>
Reading == INSTANCE Folding WITH op <- ReadFrom, base <- NothingRead

LEMMA AsksMessages ==
  ASSUME NEW q, NEW aux, NEW msgs, NEW chs, NEW n \in Nat \ {0},
         Asks(q, SumBase, aux, msgs, chs, n),
         IsSeq(msgs), n <= Len(msgs)
  PROVE  MessagesIn(q) = SubSeq(msgs, 1, n)
<1>1. /\ IsSeq(q) /\ Len(q) = 2*n + 2 /\ q[1] = ProtocolEntry
      /\ q[2] = AuxEntry(aux) /\ q[2*n + 2] = Draw
      /\ \A i \in 1 .. n : q[2*i + 1] = MessageEntry(msgs[i])
      /\ \A i \in 1 .. n-1 : q[2*i + 2] = ChallengeEntry(chs[i])
  <2> DEFINE h == Len(SumBase)
  <2>1. h = 1 /\ SumBase[1] = ProtocolEntry
    BY SumBaseFacts
  <2>2. /\ IsSeq(q) /\ Len(q) = h + 2*n + 1 /\ \A k \in 1 .. h : q[k] = SumBase[k]
        /\ q[h + 1] = AuxEntry(aux) /\ q[h + 2*n + 1] = Draw
        /\ \A i \in 1 .. n : q[h + 2*i] = MessageEntry(msgs[i])
        /\ \A i \in 1 .. n-1 : q[h + 2*i + 1] = ChallengeEntry(chs[i])
    BY DEF Asks, Header
  <2> HIDE DEF h
  <2>3. /\ 1 \in 1 .. 1 /\ 1 + 1 = 2 /\ 1 + 2*n + 1 = 2*n + 2
        /\ \A i \in Int : 1 + 2*i = 2*i + 1 /\ 1 + 2*i + 1 = 2*i + 2
    OBVIOUS
  <2>4. IsSeq(q) /\ Len(q) = 2*n + 2 /\ q[1] = ProtocolEntry
        /\ q[2] = AuxEntry(aux) /\ q[2*n + 2] = Draw
    BY <2>1, <2>2, <2>3
  <2>5. \A i \in 1 .. n : q[2*i + 1] = MessageEntry(msgs[i])
    BY <2>1, <2>2, <2>3
  <2>6. \A i \in 1 .. n-1 : q[2*i + 2] = ChallengeEntry(chs[i])
    BY <2>1, <2>2, <2>3
  <2> QED BY <2>4, <2>5, <2>6
<1> DEFINE Reads(g) ==
      g = [k \in 0 .. Len(q) |->
             IF k = 0 THEN <<>>
             ELSE IF q[k][1] = "prover msg" THEN Append(g[k-1], q[k][2])
             ELSE g[k-1]]
    read == CHOOSE g : Reads(g)
<1>2. Reads(read)
  <2>1. Len(q) \in Nat
    BY <1>1
  <2>2. \E g : g = [k \in 0 .. Len(q) |->
                      IF k = 0 THEN NothingRead ELSE ReadFrom(q[k], g[k-1])]
    BY <2>1, Reading!RecursiveFunctionExists
  <2>3. \E g : Reads(g)
    BY <2>2 DEF ReadFrom, NothingRead
  <2> QED BY <2>3
<1>3. MessagesIn(q) = read[Len(q)]
  BY DEF MessagesIn
<1> HIDE DEF read
<1>4. /\ read[0] = <<>>
      /\ \A k \in 1 .. 2*n + 2 :
           read[k] = IF q[k][1] = "prover msg" THEN Append(read[k-1], q[k][2])
                     ELSE read[k-1]
  <2>1. \A k \in 0 .. 2*n + 2 :
          read[k] = IF k = 0 THEN <<>>
                    ELSE IF q[k][1] = "prover msg" THEN Append(read[k-1], q[k][2])
                    ELSE read[k-1]
    BY <1>1, <1>2, Zenon
  <2>2. 0 \in 0 .. 2*n + 2 /\ \A k \in 1 .. 2*n + 2 : k \in 0 .. 2*n + 2 /\ k # 0
    OBVIOUS
  <2> QED BY <2>1, <2>2, Zenon
<1>5. ASSUME NEW k \in 1 .. 2*n + 2
      PROVE  /\ \A m : q[k] = MessageEntry(m) => read[k] = Append(read[k-1], m)
             /\ q[k] = ProtocolEntry \/ q[k] = AuxEntry(aux) \/ q[k] = Draw
                  \/ (\E c : q[k] = ChallengeEntry(c))
                => read[k] = read[k-1]
  <2>1. read[k] = IF q[k][1] = "prover msg" THEN Append(read[k-1], q[k][2])
                  ELSE read[k-1]
    BY <1>4
  <2>2. /\ \A m : MessageEntry(m)[1] = "prover msg" /\ MessageEntry(m)[2] = m
        /\ ProtocolEntry[1] = "SumCheck" /\ AuxEntry(aux)[1] = "aux info"
        /\ Draw[1] = "Internal round"
        /\ \A c : ChallengeEntry(c)[1] = "Internal round"
    BY DEF MessageEntry, ProtocolEntry, AuxEntry, Draw, ChallengeEntry
  <2>3. "SumCheck" # "prover msg" /\ "aux info" # "prover msg"
          /\ "Internal round" # "prover msg"
    OBVIOUS
  <2> QED BY <2>1, <2>2, <2>3, ZenonT(30)
<1> DEFINE S == {i \in Nat : i <= n => read[2*i + 2] = SubSeq(msgs, 1, i)}
<1> HIDE DEF Reads
<1>6. SubSeq(msgs, 1, 0) = <<>>
  BY SubSeqProperties DEF IsSeq
<1>7. ASSUME NEW i \in 1 .. n
      PROVE  SubSeq(msgs, 1, i) = Append(SubSeq(msgs, 1, i-1), msgs[i])
  OBVIOUS
<1>8. 0 \in S
  <2>1. read[1] = read[0] /\ read[2] = read[1]
    <3>1. 1 \in 1 .. 2*n + 2 /\ 2 \in 1 .. 2*n + 2 /\ 1-1 = 0 /\ 2-1 = 1
      OBVIOUS
    <3> QED BY <1>1, <1>5, <3>1
  <2>2. 2*0 + 2 = 2
    OBVIOUS
  <2> QED BY <1>4, <1>6, <2>1, <2>2
<1>9. ASSUME NEW i \in Nat, i \in S
      PROVE  i + 1 \in S
  <2> SUFFICES ASSUME i + 1 \in 1 .. n
               PROVE  read[2*(i+1) + 2] = SubSeq(msgs, 1, i+1)
    OBVIOUS
  <2>1. read[2*i + 2] = SubSeq(msgs, 1, i)
    BY <1>9
  <2>2. q[2*i + 3] = MessageEntry(msgs[i+1])
    <3>1. 2*(i+1) + 1 = 2*i + 3
      OBVIOUS
    <3> QED BY <1>1, <3>1
  <2>3. read[2*i + 3] = Append(SubSeq(msgs, 1, i), msgs[i+1])
    <3>1. 2*i + 3 \in 1 .. 2*n + 2 /\ (2*i + 3) - 1 = 2*i + 2
      OBVIOUS
    <3> QED BY <1>5, <2>1, <2>2, <3>1
  <2>4. q[2*i + 4] = Draw \/ \E c : q[2*i + 4] = ChallengeEntry(c)
    <3>1. 2*(i+1) + 2 = 2*i + 4
      OBVIOUS
    <3>2. CASE i + 1 = n
      BY <1>1, <3>1, <3>2
    <3>3. CASE i + 1 # n
      <4>1. i + 1 \in 1 .. n-1
        BY <3>3
      <4> QED BY <1>1, <3>1, <4>1
    <3> QED BY <3>2, <3>3
  <2>5. read[2*i + 4] = read[2*i + 3]
    <3>1. 2*i + 4 \in 1 .. 2*n + 2 /\ (2*i + 4) - 1 = 2*i + 3
      OBVIOUS
    <3> QED BY <1>5, <2>4, <3>1
  <2>6. SubSeq(msgs, 1, i+1) = Append(SubSeq(msgs, 1, i), msgs[i+1])
    <3>1. (i+1) - 1 = i
      OBVIOUS
    <3> QED BY <1>7, <3>1
  <2>7. 2*(i+1) + 2 = 2*i + 4
    OBVIOUS
  <2> QED BY <2>3, <2>5, <2>6, <2>7
<1>10. n \in S
  <2> HIDE DEF S
  <2> QED BY <1>8, <1>9, Reading!NaturalInduction
<1> QED BY <1>1, <1>3, <1>10

---------------------------------------------------------------------------
(* The inductive invariant.                                                *)

\* The challenges prove has drawn: the last one is not yet the prover's.
Drawn ==
  IF phase = "proving" THEN prover_state.challenges \o challenge
  ELSE proof.point

Chs == verifier_state.challenges

ProverHistory(base) ==
  /\ prover_transcript = [log |-> prover_transcript.log, is_empty |-> FALSE]
  /\ History(prover_transcript.log, base, poly.aux_info, proof.proofs, Drawn,
             prover_state.round)

VerifierHistory(base) ==
  /\ verifier_transcript = [log |-> verifier_transcript.log, is_empty |-> FALSE]
  /\ History(verifier_transcript.log, base, aux_info, Received, Chs, Len(Received))

\* pbase and vbase: what the callers of prove and verify had put into the
\* two transcripts.
Histories(pbase, vbase) ==
  /\ IsSeq(pbase) /\ IsSeq(vbase)
  /\ phase = "prove" => prover_transcript.log = pbase
  /\ phase = "proving" \/ proof.proofs # <<>> => ProverHistory(pbase)
  /\ phase \in {"prove", "proving", "proved", "forge"} => verifier_transcript.log = vbase
  /\ phase = "verifying" \/ Received # <<>> => VerifierHistory(vbase)

AnswersKnown(pbase, vbase) ==
  /\ \A i \in 1 .. Len(Drawn) : \E q \in DOMAIN oracle :
       Asks(q, pbase, poly.aux_info, proof.proofs, Drawn, i) /\ oracle[q] = Drawn[i]
  /\ \A i \in 1 .. Len(Received) : \E q \in DOMAIN oracle :
       Asks(q, vbase, aux_info, Received, Chs, i) /\ oracle[q] = Chs[i]

InStep(pbase, vbase) == pbase = vbase => ChallengesAgree

TranscriptInv(pbase, vbase) ==
  ControlInv /\ Histories(pbase, vbase) /\ AnswersKnown(pbase, vbase)
    /\ InStep(pbase, vbase)

LEMMA InitTranscripts == Init => TranscriptInv(SumBase, SumBase)
<1> SUFFICES ASSUME Init PROVE TranscriptInv(SumBase, SumBase)
  OBVIOUS
<1>1. ControlInv
  BY InitControl
<1>2. phase \in {"prove", "forge"}
  BY InputAssumption DEF Init
<1>3. /\ proof.point = <<>> /\ proof.proofs = <<>> /\ Received = <<>> /\ Drawn = <<>>
      /\ prover_transcript.log = SumBase
      /\ verifier_transcript.log = SumBase
  BY <1>2, SumBaseFacts DEF Init, Received, verifier_init, Drawn
<1>4. Len(<<>>) = 0 /\ 1 .. 0 = {}
  OBVIOUS
<1>5. Histories(SumBase, SumBase)
  BY <1>2, <1>3, SumBaseFacts DEF Histories
<1>6. AnswersKnown(SumBase, SumBase) /\ ChallengesAgree
  BY <1>3, <1>4 DEF AnswersKnown, ChallengesAgree
<1> QED BY <1>1, <1>5, <1>6 DEF TranscriptInv, InStep

\* A step that draws nothing keeps what is known of the draws made.
LEMMA NothingDrawn ==
  ASSUME NEW pbase, NEW vbase, AnswersKnown(pbase, vbase), InStep(pbase, vbase),
         UNCHANGED <<poly, aux_info, proof.proofs, verifier_state, oracle, Drawn>>,
         proof'.point = proof.point \/ Received = <<>>
  PROVE  AnswersKnown(pbase, vbase)' /\ InStep(pbase, vbase)'
<1>1. UNCHANGED <<Received, Chs>>
  BY DEF Received, Chs
<1>2. AnswersKnown(pbase, vbase)'
  BY <1>1 DEF AnswersKnown
<1>3. CASE Received = <<>>
  <2>1. 1 .. Len(Received') = {}
    BY <1>1, <1>3
  <2> QED BY <1>2, <2>1 DEF InStep, ChallengesAgree
<1>4. CASE proof'.point = proof.point
  <2>1. SameAux' = SameAux
    BY DEF SameAux
  <2> QED BY <1>1, <1>2, <1>4, <2>1 DEF InStep, ChallengesAgree
<1> QED BY <1>3, <1>4

\* The histories of parties that do nothing stay.
LEMMA HistoryStays ==
  ASSUME NEW base
  PROVE  /\ /\ ProverHistory(base)
            /\ UNCHANGED <<poly, proof.proofs, Drawn, prover_state.round, prover_transcript>>
            => ProverHistory(base)'
         /\ /\ VerifierHistory(base)
            /\ UNCHANGED <<aux_info, verifier_state, verifier_transcript>>
            => VerifierHistory(base)'
BY DEF ProverHistory, VerifierHistory, Received, Chs

LEMMA StepTranscripts ==
  ASSUME NEW pbase, NEW vbase, TranscriptInv(pbase, vbase), [Next]_vars
  PROVE  TranscriptInv(pbase, vbase)'
<1>0. ControlInv /\ ControlInv'
  BY StepControl DEF TranscriptInv
<1>a. /\ IsSeq(proof.proofs) /\ prover_state.round = Len(proof.proofs)
      /\ prover_state.challenges \in Seq(Challenge)
      /\ challenge \in Seq(Challenge) /\ proof.point \in Seq(Challenge)
      /\ IsSeq(Received) /\ Chs \in Seq(Challenge)
      /\ Len(Chs) = Len(Received)
      /\ prover_state.round \in Nat
  BY <1>0 DEF ControlInv, Shape, ProverShape, VerifierShape, TypeOK, Chs
<1>b. Histories(pbase, vbase) /\ AnswersKnown(pbase, vbase) /\ InStep(pbase, vbase)
  BY DEF TranscriptInv
<1>c. phase = "proving" => /\ Drawn \in Seq(Challenge)
                           /\ Len(Drawn) = prover_state.round
  <2>1. phase = "proving" =>
          Len(prover_state.challenges) + Len(challenge) = prover_state.round
    BY <1>0, <1>a DEF ControlInv, Shape, ProverShape, Progress
  <2>2. /\ prover_state.challenges \o challenge \in Seq(Challenge)
        /\ Len(prover_state.challenges \o challenge)
             = Len(prover_state.challenges) + Len(challenge)
    BY <1>a, ConcatProperties
  <2> QED BY <2>1, <2>2 DEF Drawn
<1>1. CASE ProveBegin
  <2>1. /\ phase = "prove" /\ phase' \in {"proving", "done"}
        /\ UNCHANGED <<inputs, prover_state, challenge, proof, verifierVars, oracle>>
        /\ prover_transcript' =
             append(prover_transcript, "aux info", poly.aux_info)
    BY <1>1 DEF ProveBegin
  <2>2. prover_state.round = 0 /\ proof.point = <<>> /\ challenge = <<>>
          /\ prover_state.challenges = <<>>
    BY <1>0, <2>1 DEF ControlInv, Progress, TypeOK
  <2>3. Drawn = <<>> /\ Drawn' = <<>>
    <3>1. <<>> \o <<>> = <<>>
      OBVIOUS
    <3> QED BY <2>1, <2>2, <3>1 DEF Drawn
  <2>4. AnswersKnown(pbase, vbase)' /\ InStep(pbase, vbase)'
    BY <1>b, <2>1, <2>3, NothingDrawn DEF inputs, verifierVars
  <2>5. Histories(pbase, vbase)'
    <3>1. ProverHistory(pbase)'
      <4>1. prover_transcript.log = pbase /\ IsSeq(pbase)
        BY <1>b, <2>1 DEF Histories
      <4>2. History(append(prover_transcript, "aux info", poly.aux_info).log, pbase,
                    poly.aux_info, proof.proofs, Drawn', 0)
        BY <4>1, FirstHistory
      <4>3. prover_transcript' = [log |-> prover_transcript'.log, is_empty |-> FALSE]
        BY <2>1 DEF append
      <4> QED BY <2>1, <2>2, <4>2, <4>3 DEF ProverHistory, inputs
    <3>2. Received' = Received /\ Received = <<>>
      BY <1>0, <2>1 DEF ControlInv, Progress, Received, verifierVars
    <3> QED BY <1>b, <2>1, <3>1, <3>2 DEF Histories, verifierVars
  <2> QED BY <1>0, <2>4, <2>5 DEF TranscriptInv
<1>2. CASE ProveRound
  <2> DEFINE n == prover_state.round
  <2>1. /\ phase = "proving" /\ phase' = "proving"
        /\ UNCHANGED <<inputs, verifierVars, result>>
    BY <1>2 DEF ProveRound
  <2>2. PICK msg, q, c :
          /\ q = Query(append(prover_transcript, "prover msg", msg),
                       "Internal round")
          /\ c \in Answers(oracle, q)
          /\ prover_state' = ProverRound(poly, prover_state, challenge)
          /\ proof' = [proof EXCEPT !.proofs = Append(@, msg)]
          /\ challenge' = <<c>>
          /\ prover_transcript' = append(append(prover_transcript, "prover msg", msg),
                     "Internal round", c)
          /\ oracle' = Record(oracle, q, c)
    BY <1>2 DEF ProveRound
  <2>3. /\ prover_state'.round = n + 1
        /\ prover_state'.challenges = prover_state.challenges \o challenge
        /\ proof'.proofs = Append(proof.proofs, msg)
        /\ proof'.point = proof.point
    BY <1>0, <2>2 DEF ProverRound, ControlInv, Shape, ProverShape
  <2>4. Drawn' = Drawn \o <<c>> /\ c \in Challenge
    BY <1>0, <2>1, <2>2, <2>3, DrawIsChallenge DEF Drawn, ControlInv, Shape
  <2>5. /\ Len(Drawn') = n + 1 /\ Drawn'[n + 1] = c
        /\ \A i \in 1 .. n : Drawn'[i] = Drawn[i]
    <3>1. Drawn \in Seq(Challenge) /\ Len(Drawn) = n
      BY <1>c, <2>1
    <3> HIDE DEF n
    <3> QED BY <2>4, <3>1
  <2>6. /\ Len(proof'.proofs) = n + 1 /\ proof'.proofs[n + 1] = msg
        /\ \A i \in 1 .. n : proof'.proofs[i] = proof.proofs[i]
    BY <1>a, <2>3, AppendIsSeq
  <2>7. /\ Asks(q, pbase, poly.aux_info, proof'.proofs, Drawn', n + 1)
        /\ History(prover_transcript'.log, pbase, poly.aux_info, proof'.proofs, Drawn', n + 1)
    <3>1. History(prover_transcript.log, pbase, poly.aux_info, proof.proofs, Drawn, n)
      BY <1>b, <2>1 DEF Histories, ProverHistory
    <3>2. n \in Nat
      BY <1>a
    <3> HIDE DEF n
    <3> DEFINE t1 == append(prover_transcript, "prover msg", msg)
    <3>3. /\ Asks(Query(t1, "Internal round"), pbase, poly.aux_info, proof'.proofs,
                  Drawn', n + 1)
          /\ History(append(t1, "Internal round", c).log, pbase, poly.aux_info,
                     proof'.proofs, Drawn', n + 1)
      <4>1. PICK n1 : n1 = n + 1
        OBVIOUS
      <4>2. Extends(proof'.proofs, proof.proofs, n) /\ Extends(Drawn', Drawn, n)
        BY <2>5, <2>6 DEF Extends
      <4> QED BY <4>1, <4>2, <2>5, <2>6, <3>1, <3>2, RoundHistory
    <3> QED BY <2>2, <3>3
  <2>8. /\ q \in DOMAIN oracle' /\ oracle'[q] = c
        /\ \A p \in DOMAIN oracle : p \in DOMAIN oracle' /\ oracle'[p] = oracle[p]
    <3>1. c \in Answers(oracle, q) /\ oracle' = Record(oracle, q, c)
      BY <2>2
    <3> QED BY <3>1, RecordKeeps
  <2>9. ASSUME NEW i \in 1 .. Len(Drawn')
        PROVE  \E p \in DOMAIN oracle' :
                 Asks(p, pbase, poly.aux_info, proof'.proofs, Drawn', i) /\ oracle'[p] = Drawn'[i]
    <3>1. CASE i = n + 1
      BY <2>5, <2>7, <2>8, <3>1
    <3>2. CASE i \in 1 .. n
      <4>1. PICK p \in DOMAIN oracle :
              Asks(p, pbase, poly.aux_info, proof.proofs, Drawn, i) /\ oracle[p] = Drawn[i]
        BY <1>b, <1>c, <2>1, <3>2 DEF AnswersKnown
      <4>2. p \in DOMAIN oracle' /\ oracle'[p] = Drawn'[i]
        BY <2>5, <2>8, <3>2, <4>1
      <4>3. /\ \A j \in 1 .. i : proof.proofs[j] = proof'.proofs[j]
            /\ \A j \in 1 .. i-1 : Drawn[j] = Drawn'[j]
        BY <1>a, <2>5, <2>6, <3>2
      <4>4. Asks(p, pbase, poly.aux_info, proof'.proofs, Drawn', i)
        BY <4>1, <4>3, AsksStable
      <4> QED BY <4>2, <4>4
    <3> QED BY <1>a, <2>5, <3>1, <3>2
  <2>10. Received' = Received /\ Received = <<>> /\ Len(Received) = 0
    BY <1>0, <2>1 DEF ControlInv, Progress, Received, verifierVars
  <2>11. AnswersKnown(pbase, vbase)'
    <3>1. 1 .. Len(Received') = {}
      BY <2>10
    <3> QED BY <2>1, <2>9, <3>1 DEF AnswersKnown, inputs
  <2>12. InStep(pbase, vbase)'
    <3>1. 1 .. Len(Received') = {}
      BY <2>10
    <3> QED BY <3>1 DEF InStep, ChallengesAgree
  <2>13. Histories(pbase, vbase)'
    <3>1. ProverHistory(pbase)'
      <4>1. prover_transcript' = [log |-> prover_transcript'.log, is_empty |-> FALSE]
        BY <2>2 DEF append
      <4> QED BY <2>1, <2>3, <2>7, <4>1 DEF ProverHistory, inputs
    <3> QED BY <1>b, <2>1, <2>10, <3>1 DEF Histories, verifierVars
  <2> QED BY <1>0, <2>11, <2>12, <2>13 DEF TranscriptInv
<1>3. CASE ProveEnd
  <2>1. /\ phase = "proving" /\ phase' = "proved"
        /\ UNCHANGED <<inputs, verifierVars, oracle>>
        /\ proof'.proofs = proof.proofs
        /\ proof'.point = prover_state.challenges \o challenge
    BY <1>0, <1>3 DEF ProveEnd, ControlInv, Shape, ProverShape
  <2>2. Drawn' = Drawn
    BY <2>1 DEF Drawn
  <2>3. Received = <<>>
    BY <1>0, <2>1 DEF ControlInv, Progress
  <2>4. AnswersKnown(pbase, vbase)' /\ InStep(pbase, vbase)'
    BY <1>b, <2>1, <2>2, <2>3, NothingDrawn DEF inputs, verifierVars
  <2>5. Histories(pbase, vbase)'
    <3>1. UNCHANGED <<prover_state.round, prover_transcript>>
      BY <1>0, <1>3 DEF ProveEnd, ControlInv, Shape, ProverShape
    <3>2. ProverHistory(pbase)'
      BY <1>b, <2>1, <2>2, <3>1, HistoryStays DEF Histories, inputs
    <3>3. Received' = Received
      BY <2>1 DEF Received, verifierVars
    <3> QED BY <1>b, <2>1, <2>3, <3>2, <3>3 DEF Histories, verifierVars
  <2> QED BY <1>0, <2>4, <2>5 DEF TranscriptInv
<1>4. CASE VerifyBegin
  <2>1. /\ phase \in {"proved", "forge"} /\ phase' = "verifying"
        /\ UNCHANGED <<inputs, proverVars, verifier_state, oracle>>
        /\ verifier_transcript' = append(verifier_transcript, "aux info", aux_info)
    BY <1>4 DEF VerifyBegin
  <2>2. Received = <<>> /\ Received' = Received /\ Chs' = Chs
    BY <1>0, <2>1 DEF ControlInv, Progress, Received, Chs
  <2>3. Drawn' = Drawn
    BY <2>1 DEF Drawn, proverVars
  <2>4. AnswersKnown(pbase, vbase)' /\ InStep(pbase, vbase)'
    BY <1>b, <2>1, <2>2, <2>3, NothingDrawn DEF inputs, proverVars
  <2>5. Histories(pbase, vbase)'
    <3>1. VerifierHistory(vbase)'
      <4>1. verifier_transcript.log = vbase /\ IsSeq(vbase)
        BY <1>b, <2>1 DEF Histories
      <4>2. History(append(verifier_transcript, "aux info", aux_info).log, vbase,
                    aux_info, Received, Chs, 0)
        BY <4>1, FirstHistory
      <4>3. verifier_transcript' = [log |-> verifier_transcript'.log, is_empty |-> FALSE]
        BY <2>1 DEF append
      <4>4. Len(Received) = 0
        BY <2>2
      <4> QED BY <2>1, <2>2, <4>2, <4>3, <4>4 DEF VerifierHistory, inputs
    <3>2. proof.proofs # <<>> => ProverHistory(pbase)'
      BY <1>b, <2>1, <2>3, HistoryStays DEF Histories, inputs, proverVars
    <3> QED BY <1>b, <2>1, <3>1, <3>2 DEF Histories, proverVars
  <2> QED BY <1>0, <2>4, <2>5 DEF TranscriptInv
<1>5. ASSUME NEW m \in Message, VerifyRound(m)
      PROVE  TranscriptInv(pbase, vbase)'
  <2> DEFINE n == Len(Received)
  <2>1. /\ phase = "verifying" /\ phase' = "verifying"
        /\ UNCHANGED <<inputs, proverVars, result>>
    BY <1>5 DEF VerifyRound
  <2>2. PICK q, c :
          /\ q = Query(append(verifier_transcript, "prover msg", m),
                       "Internal round")
          /\ c \in Answers(oracle, q)
          /\ verifier_state' = VerifierRound(verifier_state, m, c)
          /\ verifier_transcript' = append(append(verifier_transcript, "prover msg", m),
                     "Internal round", c)
          /\ oracle' = Record(oracle, q, c)
    BY <1>5 DEF VerifyRound
  <2>3. Received' = Append(Received, m) /\ Chs' = Append(Chs, c)
    BY <1>0, <2>2
       DEF VerifierRound, ControlInv, Shape, VerifierShape, Received, Chs
  <2>4. n \in Nat /\ DOMAIN Received = 1 .. n /\ c \in Challenge
    BY <1>0, <1>a, <2>2, SeqIsSeq, DrawIsChallenge DEF IsSeq, ControlInv, Shape
  <2>5. /\ Len(Received') = n + 1 /\ Received'[n + 1] = m
        /\ \A i \in 1 .. n : Received'[i] = Received[i]
    BY <1>a, <2>3, AppendIsSeq
  <2>6. /\ Chs'[n + 1] = c
        /\ \A i \in 1 .. n : Chs'[i] = Chs[i]
    BY <1>a, <2>3, SeqIsSeq, AppendIsSeq
  <2>7. /\ Asks(q, vbase, aux_info, Received', Chs', n + 1)
        /\ History(verifier_transcript'.log, vbase, aux_info, Received', Chs', n + 1)
    <3>1. History(verifier_transcript.log, vbase, aux_info, Received, Chs, n)
      BY <1>b, <2>1 DEF Histories, VerifierHistory
    <3> HIDE DEF n
    <3> DEFINE t1 == append(verifier_transcript, "prover msg", m)
    <3>2. /\ Asks(Query(t1, "Internal round"), vbase, aux_info, Received', Chs', n + 1)
          /\ History(append(t1, "Internal round", c).log, vbase, aux_info, Received',
                     Chs', n + 1)
      <4>1. PICK n1 : n1 = n + 1
        OBVIOUS
      <4>2. Extends(Received', Received, n) /\ Extends(Chs', Chs, n)
        BY <2>5, <2>6 DEF Extends
      <4> QED BY <4>1, <4>2, <2>4, <2>5, <2>6, <3>1, RoundHistory
    <3> QED BY <2>2, <3>2
  <2>8. /\ q \in DOMAIN oracle' /\ oracle'[q] = c
        /\ \A p \in DOMAIN oracle : p \in DOMAIN oracle' /\ oracle'[p] = oracle[p]
    <3>1. c \in Answers(oracle, q) /\ oracle' = Record(oracle, q, c)
      BY <2>2
    <3> QED BY <3>1, RecordKeeps
  <2>9. ASSUME NEW i \in 1 .. Len(Received')
        PROVE  \E p \in DOMAIN oracle' :
                 Asks(p, vbase, aux_info, Received', Chs', i) /\ oracle'[p] = Chs'[i]
    <3>1. CASE i = n + 1
      BY <2>6, <2>7, <2>8, <3>1
    <3>2. CASE i \in 1 .. n
      <4>1. PICK p \in DOMAIN oracle :
              Asks(p, vbase, aux_info, Received, Chs, i) /\ oracle[p] = Chs[i]
        BY <1>b, <3>2 DEF AnswersKnown
      <4>2. p \in DOMAIN oracle' /\ oracle'[p] = Chs'[i]
        BY <2>6, <2>8, <3>2, <4>1
      <4>3. /\ \A j \in 1 .. i : Received[j] = Received'[j]
            /\ \A j \in 1 .. i-1 : Chs[j] = Chs'[j]
        BY <2>4, <2>5, <2>6, <3>2
      <4>4. Asks(p, vbase, aux_info, Received', Chs', i)
        BY <4>1, <4>3, AsksStable
      <4> QED BY <4>2, <4>4
    <3> QED BY <2>4, <2>5, <3>1, <3>2
  <2>10. /\ Drawn' = Drawn /\ Drawn = proof.point
         /\ UNCHANGED <<poly, aux_info, proof>>
    BY <2>1 DEF Drawn, inputs, proverVars
  <2>11. ASSUME NEW i \in 1 .. Len(Drawn)
         PROVE  \E p \in DOMAIN oracle' :
                  Asks(p, pbase, poly.aux_info, proof.proofs, Drawn, i)
                    /\ oracle'[p] = Drawn[i]
    BY <1>b, <2>8 DEF AnswersKnown
  <2>12. AnswersKnown(pbase, vbase)'
    BY <2>9, <2>10, <2>11 DEF AnswersKnown
  <2>13. InStep(pbase, vbase)'
    <3> SUFFICES ASSUME pbase = vbase, ChallengesAgree, SameAux, NEW i \in 1 .. n + 1, i <= Len(proof.point),
                        \A j \in 1 .. i : Received'[j] = proof.proofs[j]
                 PROVE  Chs'[i] = proof.point[i]
      BY <1>b, <2>5, <2>10 DEF InStep, ChallengesAgree, SameAux, Chs
    <3>1. CASE i \in 1 .. n
      <4>1. \A j \in 1 .. i : Received[j] = proof.proofs[j]
        BY <2>4, <2>5, <3>1
      <4> QED BY <2>6, <3>1, <4>1 DEF ChallengesAgree, Chs
    <3>2. CASE i = n + 1
      <4>1. ASSUME NEW j \in 1 .. n
            PROVE  Chs'[j] = proof.point[j]
        <5>1. /\ j <= Len(proof.point)
              /\ \A k \in 1 .. j : Received[k] = proof.proofs[k]
          <6>1. Len(proof.point) \in Nat
            BY <1>a, LenProperties
          <6> QED BY <2>4, <2>5, <3>2, <6>1
        <5> QED BY <2>6, <5>1 DEF ChallengesAgree, Chs
      <4>2. PICK p \in DOMAIN oracle' :
              /\ Asks(p, pbase, poly.aux_info, proof.proofs, Drawn, i)
              /\ oracle'[p] = Drawn[i]
        <5>1. i \in 1 .. Len(Drawn)
          BY <1>a, <2>10, LenProperties
        <5> QED BY <2>11, <5>1
      <4>3. p = q
        <5>1. i \in Nat \ {0} /\ poly.aux_info = aux_info
          BY DEF SameAux
        <5>2. Asks(q, vbase, aux_info, Received', Chs', i)
          BY <2>7, <3>2
        <5>3. \A j \in 1 .. i-1 : Chs'[j] = Drawn[j]
          BY <2>4, <2>10, <3>2, <4>1
        <5> QED BY <4>2, <5>1, <5>2, <5>3, AsksUnique
      <4> QED BY <2>6, <2>8, <2>10, <3>2, <4>2, <4>3
    <3> QED BY <2>4, <3>1, <3>2
  <2>14. Histories(pbase, vbase)'
    <3>1. VerifierHistory(vbase)'
      <4>1. verifier_transcript' = [log |-> verifier_transcript'.log, is_empty |-> FALSE]
        BY <2>2 DEF append
      <4> QED BY <2>5, <2>7, <2>10, <4>1 DEF VerifierHistory
    <3>2. proof.proofs # <<>> => ProverHistory(pbase)'
      BY <1>b, <2>1, <2>10, HistoryStays DEF Histories, proverVars
    <3> QED BY <1>b, <2>1, <2>10, <3>1, <3>2 DEF Histories
  <2> QED BY <1>0, <2>12, <2>13, <2>14 DEF TranscriptInv
<1>6. ASSUME VerifyIncomplete \/ VerifyEnd
      PROVE  TranscriptInv(pbase, vbase)'
  <2>1. /\ phase = "verifying" /\ phase' = "done"
        /\ UNCHANGED <<inputs, proverVars, verifierVars, oracle>>
    BY <1>6 DEF VerifyIncomplete, VerifyEnd
  <2>2. Drawn' = Drawn
    BY <2>1 DEF Drawn, proverVars
  <2>3. AnswersKnown(pbase, vbase)' /\ InStep(pbase, vbase)'
    BY <1>b, <2>1, <2>2, NothingDrawn DEF inputs, proverVars, verifierVars
  <2>4. Histories(pbase, vbase)'
    <3>1. VerifierHistory(vbase)'
      BY <1>b, <2>1, HistoryStays DEF Histories, inputs, verifierVars
    <3>2. proof.proofs # <<>> => ProverHistory(pbase)'
      BY <1>b, <2>1, <2>2, HistoryStays DEF Histories, inputs, proverVars
    <3> QED BY <1>b, <2>1, <3>1, <3>2 DEF Histories, proverVars
  <2> QED BY <1>0, <2>3, <2>4 DEF TranscriptInv
<1>7. CASE UNCHANGED vars
  <2>1. Drawn' = Drawn
    BY <1>7 DEF Drawn, vars
  <2>2. AnswersKnown(pbase, vbase)' /\ InStep(pbase, vbase)'
    BY <1>b, <1>7, <2>1, NothingDrawn DEF vars
  <2>3. Histories(pbase, vbase)'
    <3>1. VerifierHistory(vbase) => VerifierHistory(vbase)'
      BY <1>7, HistoryStays DEF vars
    <3>2. ProverHistory(pbase) => ProverHistory(pbase)'
      BY <1>7, <2>1, HistoryStays DEF vars
    <3> QED BY <1>b, <1>7, <3>1, <3>2 DEF Histories, vars, Received
  <2> QED BY <1>0, <2>2, <2>3 DEF TranscriptInv
<1> QED BY <1>1, <1>2, <1>3, <1>4, <1>5, <1>6, <1>7 DEF Next

SumTranscripts == TranscriptInv(SumBase, SumBase)

LEMMA TranscriptsInvariant == Spec => []SumTranscripts
<1>1. Init => SumTranscripts
  BY InitTranscripts DEF SumTranscripts
<1>2. SumTranscripts /\ [Next]_vars => SumTranscripts'
  BY StepTranscripts DEF SumTranscripts
<1> QED BY <1>1, <1>2, PTL DEF Spec

\* In every reachable state the verifier's challenges are the prover's, as
\* far as the verifier read what the prover wrote (mod.rs: both parties
\* absorb the same entries in the same order before each draw).
THEOREM ChallengesAgreeAlways == Spec => []ChallengesAgree
<1>1. SumTranscripts => ChallengesAgree
  BY DEF SumTranscripts, TranscriptInv, InStep
<1> QED BY <1>1, TranscriptsInvariant, PTL

\* In every reachable state each challenge of the verifier answers a query
\* that holds the messages of its own and of all earlier rounds, so no
\* message was chosen after the challenge that tests it (mod.rs: verify
\* absorbs the message before verify_round_and_update_state draws).
THEOREM ChallengesBindMessagesAlways == Spec => []ChallengesBindMessages
<1>1. SumTranscripts => ChallengesBindMessages
  <2> SUFFICES ASSUME TranscriptInv(SumBase, SumBase), NEW i \in 1 .. Len(Received)
               PROVE  \E query \in DOMAIN oracle :
                        /\ oracle[query] = verifier_state.challenges[i]
                        /\ MessagesIn(query) = SubSeq(Received, 1, i)
    BY DEF ChallengesBindMessages, SumTranscripts
  <2>1. IsSeq(Received) /\ Len(Received) \in Nat
    BY SeqIsSeq DEF TranscriptInv, ControlInv, Shape, VerifierShape, IsSeq
  <2>2. PICK q \in DOMAIN oracle :
          Asks(q, SumBase, aux_info, Received, Chs, i) /\ oracle[q] = Chs[i]
    BY DEF TranscriptInv, AnswersKnown
  <2>3. i \in Nat \ {0} /\ i <= Len(Received)
    BY <2>1
  <2>4. MessagesIn(q) = SubSeq(Received, 1, i)
    BY <2>1, <2>2, <2>3, AsksMessages
  <2> QED BY <2>2, <2>4 DEF Chs
<1> QED BY <1>1, TranscriptsInvariant, PTL

---------------------------------------------------------------------------
(* The polynomial and its partial sums.                                    *)

LEMMA EvaluateType ==
  ASSUME NEW p, IsPolynomial(p), NEW x \in Seq(Field)
  PROVE  evaluate(p, x) \in Field
<1> DEFINE n == p.aux_info.num_variables
<1>1. /\ n \in Nat
      /\ p.mles \in Seq(Table(n))
      /\ p.products \in Seq([coefficient : Field, factors : Seq(1 .. Len(p.mles))])
  BY DEF IsPolynomial, AuxInfo
<1>p. \A k \in DOMAIN p.products :
        p.products[k] \in [coefficient : Field, factors : Seq(1 .. Len(p.mles))]
  <2> DEFINE R == [coefficient : Field, factors : Seq(1 .. Len(p.mles))]
             s == p.products
  <2>1. s \in Seq(R)
    BY <1>1
  <2> HIDE DEF R, s
  <2>2. \A k \in DOMAIN s : s[k] \in R
    BY <2>1
  <2> QED BY <2>2 DEF R, s
<1>2. DOMAIN x = 1 .. Len(x) /\ Len(x) \in Nat /\ \A i \in 1 .. Len(x) : x[i] \in Field
  OBVIOUS
<1>3. ASSUME NEW b
      PROVE  Basis(b, x) \in Field
  <2> DEFINE fam == [i \in DOMAIN x |-> IF Bit(b, i-1) = 1 THEN x[i] ELSE 1 -- x[i]]
  <2>1. IsFiniteSet(DOMAIN fam)
    BY <1>2, FS_Interval
  <2>2. \A i \in DOMAIN fam : fam[i] \in Field
    BY <1>2, FieldClosed
  <2>3. Basis(b, x) = FProd(fam)
    BY DEF Basis
  <2> HIDE DEF fam
  <2> QED BY <2>1, <2>2, <2>3, FProdType
<1>4. ASSUME NEW t \in Table(n)
      PROVE  Extension(t, x) \in Field
  <2> DEFINE fam == [b \in DOMAIN t |-> t[b] ** Basis(b, x)]
  <2>1. IsFiniteSet(DOMAIN t) /\ \A b \in DOMAIN t : t[b] \in Field
    <3>1. 2^n \in Nat
      BY <1>1, TwoToThe
    <3>2. 2^n - 1 \in Int
      BY <3>1
    <3>3. DOMAIN t = Index(n) /\ \A b \in Index(n) : t[b] \in Field
      BY DEF Table
    <3>4. IsFiniteSet(Index(n))
      BY <3>2, FS_Interval DEF Index
    <3> QED BY <3>3, <3>4, Zenon
  <2>2. IsFiniteSet(DOMAIN fam) /\ \A b \in DOMAIN fam : fam[b] \in Int
    BY <1>3, <2>1, FieldClosed
  <2>3. Extension(t, x) = FSum(fam)
    BY DEF Extension
  <2> HIDE DEF fam
  <2> QED BY <2>2, <2>3, FSumType
<1>5. ASSUME NEW k \in DOMAIN p.products
      PROVE  FProd([j \in DOMAIN p.products[k].factors |->
                      Extension(p.mles[p.products[k].factors[j]], x)]) \in Field
  <2> DEFINE fs == p.products[k].factors
             fam == [j \in DOMAIN fs |-> Extension(p.mles[fs[j]], x)]
  <2>1. fs \in Seq(1 .. Len(p.mles))
    BY <1>p
  <2>2. DOMAIN fs = 1 .. Len(fs) /\ Len(fs) \in Nat
        /\ \A j \in DOMAIN fs : fs[j] \in 1 .. Len(p.mles)
    <3> HIDE DEF fs
    <3> QED BY <2>1
  <2>3. \A j \in DOMAIN fs : p.mles[fs[j]] \in Table(n)
    BY <1>1, <2>2, SMTT(20)
  <2>4. IsFiniteSet(DOMAIN fam) /\ \A j \in DOMAIN fam : fam[j] \in Field
    BY <1>4, <2>2, <2>3, FS_Interval
  <2> HIDE DEF fam, fs
  <2>5. FProd(fam) \in Field
    BY <2>4, FProdType
  <2> QED BY <2>5 DEF fam, fs
<1> DEFINE term == [k \in DOMAIN p.products |->
                      p.products[k].coefficient **
                        FProd([j \in DOMAIN p.products[k].factors |->
                                 Extension(p.mles[p.products[k].factors[j]], x)])]
<1>6. IsFiniteSet(DOMAIN term)
  <2>1. DOMAIN p.products = 1 .. Len(p.products) /\ Len(p.products) \in Nat
    BY <1>1, SeqIsSeq
  <2> QED BY <2>1, FS_Interval
<1>7. \A k \in DOMAIN term : term[k] \in Int
  <2>1. \A k \in DOMAIN p.products : p.products[k].coefficient \in Field
    BY <1>p
  <2> QED BY <1>5, <2>1, FieldClosed
<1>8. evaluate(p, x) = FSum(term)
  BY DEF evaluate
<1> HIDE DEF term
<1> QED BY <1>6, <1>7, <1>8, FSumType

LEMMA BitsType ==
  ASSUME NEW n \in Nat, NEW b \in Nat
  PROVE  bit_decompose(b, n) \in Seq(Field)
<1>1. \A i \in 1 .. n : 2^(i-1) \in Nat \ {0}
  BY TwoToThe
<1>2. ASSUME NEW i \in 1 .. n
      PROVE  (b \div 2^(i-1)) % 2 \in {0, 1}
  <2>1. PICK q \in Nat \ {0} : q = 2^(i-1)
    BY <1>1
  <2>2. b \div q \in Int
    OBVIOUS
  <2> QED BY <2>1, <2>2
<1>3. bit_decompose(b, n) \in [1 .. n -> Field]
  BY <1>2, FieldClosed DEF bit_decompose
<1> QED BY <1>3

\* The sum over the variables after prefix, taken over the next variable
\* first: its two values are those of the round polynomial at 0 and 1.
LEMMA PartialSumSplits ==
  ASSUME NEW p, IsPolynomial(p), NEW prefix \in Seq(Field),
         Len(prefix) < p.aux_info.num_variables
  PROVE  PartialSum(p, prefix) =
           PartialSum(p, prefix \o <<0>>) ++ PartialSum(p, prefix \o <<1>>)
<1>1. PICK n \in Nat : p.aux_info.num_variables = Len(prefix) + (n + 1)
  <2>1. p.aux_info.num_variables \in Nat /\ Len(prefix) \in Nat
    <3>1. p.aux_info \in AuxInfo
      BY DEF IsPolynomial
    <3> QED BY <3>1, LenProperties DEF AuxInfo
  <2> DEFINE n == p.aux_info.num_variables - Len(prefix) - 1
  <2>2. n \in Nat /\ p.aux_info.num_variables = Len(prefix) + (n + 1)
    BY <2>1
  <2> HIDE DEF n
  <2> QED BY <2>2
<1>2. Len(prefix) \in Nat
  OBVIOUS
<1> DEFINE value(t, b) == evaluate(p, (prefix \o <<t>>) \o bit_decompose(b, n))
           m == 2^n
           fam == [b \in Index(n+1) |-> evaluate(p, prefix \o bit_decompose(b, n+1))]
           g == [b \in Index(n) |-> value(0, b)]
           h == [b \in Index(n) |-> value(1, b)]
<1>3. m \in Nat \ {0} /\ 2^(n+1) = 2 * m
  BY TwoToThe
<1>4. Index(n) = 0 .. m-1 /\ Index(n+1) = 0 .. 2*m - 1
  BY <1>3 DEF Index
<1>5. PartialSum(p, prefix) = FSum(fam)
  <2>1. p.aux_info.num_variables - Len(prefix) = n + 1
    BY <1>1, <1>2
  <2> QED BY <2>1 DEF PartialSum
<1>6. ASSUME NEW t \in {0, 1}
      PROVE  /\ PartialSum(p, prefix \o <<t>>) = FSum([b \in Index(n) |-> value(t, b)])
             /\ prefix \o <<t>> \in Seq(Field)
             /\ \A b \in 0 .. m-1 :
                  evaluate(p, prefix \o bit_decompose(2*b + t, n+1)) = value(t, b)
  <2>1. <<t>> \in Seq(Field) /\ Len(<<t>>) = 1
    BY FieldClosed
  <2>2. prefix \o <<t>> \in Seq(Field) /\ Len(prefix \o <<t>>) = Len(prefix) + 1
    BY <2>1, ConcatProperties
  <2>3. p.aux_info.num_variables - Len(prefix \o <<t>>) = n
    BY <1>1, <1>2, <2>2
  <2>4. PartialSum(p, prefix \o <<t>>) = FSum([b \in Index(n) |-> value(t, b)])
    BY <2>3 DEF PartialSum
  <2>5. ASSUME NEW b \in 0 .. m-1
        PROVE  evaluate(p, prefix \o bit_decompose(2*b + t, n+1)) = value(t, b)
    <3>1. b \in Nat
      BY <1>3
    <3> DEFINE low == bit_decompose(b, n)
    <3>2. bit_decompose(2*b + t, n+1) = <<t>> \o low
      BY <3>1, BitsOfDouble
    <3>3. low \in Seq(Field)
      BY <3>1, BitsType
    <3> HIDE DEF low
    <3>4. prefix \o (<<t>> \o low) = (prefix \o <<t>>) \o low
      BY <2>1, <3>3, ConcatAssociative
    <3> QED BY <3>2, <3>4 DEF low
  <2> QED BY <2>2, <2>4, <2>5
<1>7. \A b \in 0 .. 2*m - 1 : fam[b] \in Int
  <2> SUFFICES ASSUME NEW b \in 0 .. 2*m - 1 PROVE fam[b] \in Int
    OBVIOUS
  <2>1. b \in Nat /\ n + 1 \in Nat
    BY <1>3
  <2>2. bit_decompose(b, n+1) \in Seq(Field)
    BY <2>1, BitsType
  <2>3. prefix \o bit_decompose(b, n+1) \in Seq(Field)
    BY <2>2, ConcatProperties
  <2> QED BY <1>4, <2>3, EvaluateType, FieldClosed
<1>8. \A b \in 0 .. m-1 : g[b] = fam[2*b] /\ h[b] = fam[2*b + 1]
  <2> SUFFICES ASSUME NEW b \in 0 .. m-1 PROVE g[b] = fam[2*b] /\ h[b] = fam[2*b + 1]
    OBVIOUS
  <2>1. 2*b \in Index(n+1) /\ 2*b + 1 \in Index(n+1) /\ 2*b + 0 = 2*b /\ b \in Index(n)
    BY <1>3, <1>4
  <2>2. fam[2*b] = value(0, b) /\ fam[2*b + 1] = value(1, b)
    BY <1>6, <2>1
  <2> QED BY <2>1, <2>2
<1>9. DOMAIN fam = 0 .. 2*m - 1 /\ DOMAIN g = 0 .. m-1 /\ DOMAIN h = 0 .. m-1
  BY <1>4
<1>10. PartialSum(p, prefix \o <<0>>) = FSum(g) /\ PartialSum(p, prefix \o <<1>>) = FSum(h)
  BY <1>6
<1> HIDE DEF fam, g, h, m
<1>11. FSum(fam) = FSum(g) ++ FSum(h)
  BY <1>3, <1>7, <1>8, <1>9, FSumEvenOdd, SMTT(20)
<1> QED BY <1>5, <1>10, <1>11

\* With no variable left the sum is one value.
LEMMA PartialSumEnds ==
  ASSUME NEW p, IsPolynomial(p), NEW x \in Seq(Field),
         Len(x) = p.aux_info.num_variables
  PROVE  PartialSum(p, x) = evaluate(p, x)
<1>1. p.aux_info.num_variables - Len(x) = 0
  BY LenProperties DEF IsPolynomial, AuxInfo
<1> DEFINE fam == [b \in Index(0) |-> evaluate(p, x \o bit_decompose(b, 0))]
<1>2. PartialSum(p, x) = FSum(fam)
  BY <1>1 DEF PartialSum
<1>3. Index(0) = {0}
  BY TwoToThe DEF Index
<1>4. bit_decompose(0, 0) = <<>>
  BY DEF bit_decompose
<1>5. x \o <<>> = x
  BY ConcatEmptySeq
<1>6. fam[0] = evaluate(p, x) /\ DOMAIN fam = {0}
  BY <1>3, <1>4, <1>5
<1> HIDE DEF fam
<1>7. fam[0] \in Field
  BY <1>6, EvaluateType
<1>8. FSum(fam) = fam[0]
  BY <1>6, <1>7, FSumOne
<1> QED BY <1>2, <1>6, <1>8

---------------------------------------------------------------------------
(* Soundness.                                                              *)

\* What an accepting verifier has seen.
AcceptedInv ==
  result.kind = "ok" =>
    /\ Len(Received) = aux_info.num_variables /\ Len(Received) > 0
    /\ Malformed(verifier_state) = {} /\ Degenerate(verifier_state) = {}
    /\ aux_info.max_degree # 0
    /\ Consistent(verifier_state, claimed_sum)
    /\ result = SubClaim(Chs, expected(verifier_state, claimed_sum,
                                       aux_info.num_variables + 1))

LEMMA InitAccepted == Init => AcceptedInv
BY DEF Init, AcceptedInv, Running

LEMMA StepAccepted ==
  ControlInv /\ AcceptedInv /\ [Next]_vars => AcceptedInv'
<1> SUFFICES ASSUME ControlInv, AcceptedInv, [Next]_vars PROVE AcceptedInv'
  OBVIOUS
<1>1. phase # "done" => result = Running
  BY DEF ControlInv, Progress
<1>2. CASE VerifyEnd
  <2> DEFINE v == verifier_state
  <2>1. /\ result' \in check_and_generate_subclaim(v, claimed_sum)
        /\ UNCHANGED <<aux_info, claimed_sum, verifier_state>>
    BY <1>2 DEF VerifyEnd, inputs, verifierVars
  <2>2. v.num_vars = aux_info.num_variables /\ v.max_degree = aux_info.max_degree
    BY DEF ControlInv, TypeOK
  <2> SUFFICES ASSUME result'.kind = "ok"
               PROVE  /\ Len(Received) = aux_info.num_variables
                      /\ Len(Received) > 0
                      /\ Malformed(v) = {} /\ Degenerate(v) = {}
                      /\ aux_info.max_degree # 0
                      /\ Consistent(v, claimed_sum)
                      /\ result' = SubClaim(Chs, expected(v, claimed_sum,
                                                   aux_info.num_variables + 1))
    <3> HIDE DEF v
    <3>1. UNCHANGED <<Received, Chs, Malformed(verifier_state),
                      Degenerate(verifier_state),
                      Consistent(verifier_state, claimed_sum)>>
      BY <2>1 DEF Received, Chs, Malformed, Degenerate, Consistent
    <3>2. UNCHANGED expected(verifier_state, claimed_sum,
                             aux_info.num_variables + 1)
      BY <2>1
    <3> QED BY <2>1, <3>1, <3>2 DEF AcceptedInv, v
  <2> HIDE DEF v
  <2>3. ~ (~ v.finished \/ Len(v.polynomials_received) # v.num_vars)
    BY <2>1 DEF check_and_generate_subclaim, Err
  <2>4. ~ (Malformed(v) # {} \/ Degenerate(v) # {})
    BY <2>1, <2>3 DEF check_and_generate_subclaim, Err, Panic
  <2>5. v.max_degree # 0 /\ Consistent(v, claimed_sum)
    BY <2>1, <2>3, <2>4 DEF check_and_generate_subclaim, Err, Panic
  <2>6. result' = SubClaim(v.challenges, expected(v, claimed_sum, v.num_vars + 1))
    BY <2>1, <2>3, <2>4, <2>5 DEF check_and_generate_subclaim
  <2>7. Len(Received) > 0
    BY <2>3 DEF ControlInv, TypeOK, v
  <2> QED BY <2>2, <2>3, <2>4, <2>5, <2>6, <2>7 DEF Received, Chs, v
<1>3. ASSUME \/ result'.kind # "ok"
             \/ UNCHANGED <<aux_info, claimed_sum, verifier_state, result>>
      PROVE  AcceptedInv'
  <2>1. CASE UNCHANGED <<aux_info, claimed_sum, verifier_state, result>>
    BY <2>1 DEF AcceptedInv, Received, Chs, Malformed, Degenerate, Consistent,
                expected, SubClaim
  <2> QED BY <1>3, <2>1 DEF AcceptedInv
<1>4. CASE ProveBegin
  <2>1. result = Running /\ (result' = result \/ result' = Err("InvalidParameters"))
    BY <1>1, <1>4 DEF ProveBegin
  <2>2. result'.kind # "ok"
    BY <2>1 DEF Running, Err
  <2> QED BY <1>3, <2>2
<1>5. CASE ProveRound
  BY <1>3, <1>5 DEF ProveRound, inputs, verifierVars
<1>6. CASE ProveEnd
  BY <1>3, <1>6 DEF ProveEnd, inputs, verifierVars
<1>7. CASE VerifyBegin
  <2>1. result = Running /\ result' = result
    BY <1>1, <1>7 DEF VerifyBegin
  <2>2. result'.kind # "ok"
    BY <2>1 DEF Running
  <2> QED BY <1>3, <2>2
<1>8. ASSUME NEW m \in Message, VerifyRound(m)
      PROVE  AcceptedInv'
  <2>1. result = Running /\ result' = result
    BY <1>1, <1>8 DEF VerifyRound
  <2>2. result'.kind # "ok"
    BY <2>1 DEF Running
  <2> QED BY <1>3, <2>2
<1>9. CASE VerifyIncomplete
  BY <1>3, <1>9 DEF VerifyIncomplete, Panic
<1>10. CASE UNCHANGED vars
  BY <1>3, <1>10 DEF vars
<1> QED BY <1>2, <1>4, <1>5, <1>6, <1>7, <1>8, <1>9, <1>10 DEF Next

\* The message of a round is the sum the protocol asks for.
RoundOf(p, prefix) ==
  [t \in 0 .. p.aux_info.max_degree |-> PartialSum(p, prefix \o <<FromInt(t)>>)]

\* Whatever polynomial p of the verifier's shape the claim was about: if the
\* sum of p is not the one claimed and the sub-claim is nevertheless true of
\* p, then in some round a message that is not the one p asks for takes the
\* value p has at the challenge drawn after it.
LEMMA SoundVerdict ==
  ASSUME ControlInv, AcceptedInv, NEW p, IsPolynomial(p), p.aux_info = aux_info,
         result.kind = "ok", claimed_sum # PartialSum(p, <<>>),
         result.expected_evaluation = evaluate(p, result.point)
  PROVE  \E k \in 1 .. aux_info.num_variables :
           /\ k \in DOMAIN Received
           /\ Prefix(k) \in Seq(Field) /\ Len(Prefix(k)) = k-1
           /\ Chs[k] \in Field
           /\ ~ IsNode(aux_info.max_degree, Chs[k])
           /\ WellFormed(Received[k], aux_info.max_degree)
           /\ Received[k] # RoundOf(p, Prefix(k))
           /\ interpolate_uni_poly(Received[k], aux_info.max_degree, Chs[k])
                = PartialSum(p, Prefix(k) \o <<Chs[k]>>)
<1> DEFINE v == verifier_state
           d == p.aux_info.max_degree
           n == aux_info.num_variables
           claim(k) == expected(v, claimed_sum, k)
           truth(k) == PartialSum(p, Prefix(k))
<1>1. /\ n \in Nat /\ d \in Nat /\ IsPolynomial(p)
      /\ p.aux_info = aux_info /\ p.aux_info.num_variables = n
  BY ShapeTypes DEF ControlInv, Shape
<1>2. /\ Len(Received) = n /\ DOMAIN Received = 1 .. n
      /\ Malformed(v) = {} /\ Degenerate(v) = {}
      /\ d # 0 /\ v.max_degree = d /\ v.num_vars = n
      /\ Consistent(v, claimed_sum)
      /\ result.point = Chs /\ result.expected_evaluation = claim(n+1)
  BY SeqIsSeq DEF AcceptedInv, ControlInv, Shape, VerifierShape, IsSeq, TypeOK,
                  SubClaim
<1>3. Chs \in Seq(Field) /\ Len(Chs) = n
  <2>1. Chs \in Seq(Challenge) /\ Len(Chs) = n
    BY <1>2 DEF ControlInv, Shape, VerifierShape, TypeOK, Chs
  <2>2. Challenge \subseteq Field
    BY InputAssumption
  <2> QED BY <2>1, <2>2, SeqMonotonic
<1>4. \A k \in 1 .. n : Chs[k] \in Field
  BY <1>3
<1>5. ASSUME NEW k \in 1 .. n+1
      PROVE  Prefix(k) \in Seq(Field) /\ Len(Prefix(k)) = k-1
             /\ \A i \in 1 .. k-1 : Prefix(k)[i] = Chs[i]
  <2>1. \A i \in 1 .. k-1 : Chs[i] \in Field
    BY <1>1, <1>4
  <2>2. k - 1 \in Int /\ 1 \in Int /\ k-1 \in Nat
    BY <1>1
  <2> DEFINE e == k-1
  <2>3. e \in Nat /\ \A i \in 1 .. e : Chs[i] \in Field
    BY <2>1, <2>2
  <2> HIDE DEF e
  <2>4. /\ SubSeq(Chs, 1, e) \in Seq(Field)
        /\ Len(SubSeq(Chs, 1, e)) = IF 1 <= e THEN e - 1 + 1 ELSE 0
        /\ \A i \in 1 .. e - 1 + 1 : SubSeq(Chs, 1, e)[i] = Chs[1 + i - 1]
    BY <2>3, SubSeqProperties
  <2> QED BY <1>1, <2>3, <2>4 DEF Prefix, e, Chs
<1>6. ASSUME NEW k \in 1 .. n
      PROVE  Prefix(k+1) = Prefix(k) \o <<Chs[k]>>
  <2>1. k \in 1 .. n+1 /\ k+1 \in 1 .. n+1 /\ (k+1) - 1 = k
    BY <1>1
  <2> DEFINE s == Prefix(k)
             t == Prefix(k+1)
             u == <<Chs[k]>>
  <2>2. /\ s \in Seq(Field) /\ Len(s) = k-1
        /\ \A i \in 1 .. k-1 : s[i] = Chs[i]
        /\ t \in Seq(Field) /\ Len(t) = k
        /\ \A i \in 1 .. k : t[i] = Chs[i]
    BY <1>5, <2>1
  <2>3. u \in Seq(Field) /\ Len(u) = 1 /\ u[1] = Chs[k]
    BY <1>4
  <2> HIDE DEF s, t, u
  <2>4. /\ s \o u \in Seq(Field) /\ Len(s \o u) = k
        /\ \A i \in 1 .. k : (s \o u)[i] = IF i <= k-1 THEN s[i] ELSE u[i - (k-1)]
    <3>1. /\ s \o u \in Seq(Field) /\ Len(s \o u) = Len(s) + Len(u)
          /\ \A i \in 1 .. Len(s) + Len(u) :
               (s \o u)[i] = IF i <= Len(s) THEN s[i] ELSE u[i - Len(s)]
      BY <2>2, <2>3, ConcatProperties
    <3>2. Len(s) + Len(u) = k
      BY <1>1, <2>2, <2>3
    <3> QED BY <2>2, <3>1, <3>2
  <2>5. \A i \in 1 .. k : t[i] = (s \o u)[i]
    BY <1>1, <2>2, <2>3, <2>4, SMTT(20)
  <2> DEFINE w == s \o u
  <2>6. w \in Seq(Field) /\ Len(w) = Len(t) /\ \A i \in 1 .. Len(t) : t[i] = w[i]
    BY <2>2, <2>4, <2>5
  <2> HIDE DEF w
  <2>7. t = w
    BY <2>2, <2>6, SeqEqual
  <2> QED BY <2>7 DEF s, t, u, w
<1>7. claim(1) # truth(1)
  <2>1. Prefix(1) = <<>>
    BY SubSeqEmpty DEF Prefix
  <2> QED BY <2>1 DEF expected
<1>8. claim(n+1) = truth(n+1)
  <2>1. n+1 \in 1 .. n+1 /\ (n+1) - 1 = n
    BY <1>1
  <2>2. Prefix(n+1) \in Seq(Field) /\ Len(Prefix(n+1)) = n
        /\ \A i \in 1 .. n : Prefix(n+1)[i] = Chs[i]
    BY <1>5, <2>1
  <2> DEFINE s == Prefix(n+1)
  <2>3. s \in Seq(Field) /\ Len(s) = Len(Chs) /\ \A i \in 1 .. Len(s) : s[i] = Chs[i]
    BY <1>3, <2>2
  <2> HIDE DEF s
  <2>4. s = Chs
    BY <1>3, <2>3, SeqEqual
  <2>5. PartialSum(p, Chs) = evaluate(p, Chs)
    BY <1>1, <1>3, PartialSumEnds
  <2> QED BY <1>2, <2>4, <2>5 DEF s
<1>9. PICK k \in 1 .. n : claim(k) # truth(k) /\ claim(k+1) = truth(k+1)
  <2> DEFINE T == {l \in 1 .. n+1 : claim(l) = truth(l)}
  <2>1. T \in SUBSET Nat /\ T # {} /\ 1 \notin T
    BY <1>1, <1>7, <1>8
  <2> HIDE DEF T
  <2>2. PICK l \in T : \A j \in T : l <= j
    BY <2>1, Add!LeastNatural
  <2>3. l \in 1 .. n+1 /\ l # 1 /\ claim(l) = truth(l)
    BY <2>1, <2>2 DEF T
  <2>4. PICK j \in 1 .. n : l = j + 1
    <3>1. l - 1 \in 1 .. n /\ l = (l - 1) + 1
      BY <1>1, <2>3
    <3> QED BY <3>1
  <2>5. j \notin T /\ j \in 1 .. n+1
    BY <1>1, <2>2, <2>4
  <2> QED BY <2>3, <2>4, <2>5 DEF T
<1>10. claim(k+1) = interpolate_uni_poly(Received[k], d, Chs[k])
  <2>1. k + 1 # 1 /\ (k + 1) - 1 = k
    BY <1>1
  <2> QED BY <1>2, <2>1 DEF expected, Received, Chs
<1>11. /\ ~ IsNode(d, Chs[k])
       /\ interpolate_uni_poly(Received[k], d, Chs[k])
            = PartialSum(p, Prefix(k) \o <<Chs[k]>>)
  <2>1. WellFormed(Received[k], d) /\ ~ IsNode(d, Chs[k])
    BY <1>2 DEF Malformed, Degenerate, Received, Chs
  <2>2. Prefix(k+1) = Prefix(k) \o <<Chs[k]>>
    BY <1>6
  <2> QED BY <1>9, <1>10, <2>1, <2>2
<1>12. Received[k] # RoundOf(p, Prefix(k))
  <2>1. Opening(Received[k]) = claim(k)
    BY <1>2 DEF Consistent, Received
  <2>2. FromInt(0) = 0 /\ FromInt(1) = 1 /\ 0 \in 0 .. d /\ 1 \in 0 .. d
    BY <1>1, <1>2, FieldClosed
  <2>3. k \in 1 .. n+1 /\ k-1 < n
    BY <1>1
  <2>4. truth(k) = PartialSum(p, Prefix(k) \o <<0>>)
                     ++ PartialSum(p, Prefix(k) \o <<1>>)
    <3> DEFINE s == Prefix(k)
    <3>1. s \in Seq(Field) /\ Len(s) < p.aux_info.num_variables
      BY <1>1, <1>5, <2>3
    <3> HIDE DEF s
    <3>2. PartialSum(p, s) = PartialSum(p, s \o <<0>>) ++ PartialSum(p, s \o <<1>>)
      BY <1>1, <3>1, PartialSumSplits
    <3> QED BY <3>2 DEF s
  <2>5. /\ RoundOf(p, Prefix(k))[0] = PartialSum(p, Prefix(k) \o <<0>>)
        /\ RoundOf(p, Prefix(k))[1] = PartialSum(p, Prefix(k) \o <<1>>)
    BY <2>2 DEF RoundOf
  <2> QED BY <1>9, <2>1, <2>4, <2>5 DEF Opening
<1>13. WellFormed(Received[k], d)
  BY <1>2 DEF Malformed, Received
<1>14. Prefix(k) \in Seq(Field) /\ Len(Prefix(k)) = k-1
  <2>1. k \in 1 .. n+1
    BY <1>1
  <2> QED BY <1>5, <2>1
<1>15. d = aux_info.max_degree /\ k \in DOMAIN Received /\ Chs[k] \in Field
  BY <1>1, <1>2, <1>4
<1> QED BY <1>11, <1>12, <1>13, <1>14, <1>15

\* In every reachable state in which a false sum has been accepted with a
\* sub-claim that is true, some challenge fell where a wrong message agrees
\* with the right one: the first round after which the claim is true is one
\* (verifier.rs, check_and_generate_subclaim compares every round's opening
\* with the claim the round before it left).
THEOREM FalseSumsNeedLuckAlways == Spec => []FalseSumsNeedLuck
<1>1. Spec => [](ControlInv /\ AcceptedInv)
  BY InitControl, StepControl, InitAccepted, StepAccepted, PTL DEF Spec
<1>2. ControlInv /\ AcceptedInv => FalseSumsNeedLuck
  <2> SUFFICES ASSUME ControlInv, AcceptedInv, SameAux, result.kind = "ok",
                      claimed_sum # PartialSum(poly, <<>>),
                      result.expected_evaluation = evaluate(poly, result.point)
               PROVE  \E k \in DOMAIN Received :
                        /\ Received[k] # RoundPolynomial(Prefix(k))
                        /\ Chs[k] \in LuckyChallenges(k)
    BY DEF FalseSumsNeedLuck, Chs
  <2>1. IsPolynomial(poly) /\ poly.aux_info = aux_info
        /\ Degree = aux_info.max_degree
    BY DEF ControlInv, Shape, SameAux, Degree
  <2>2. PICK k \in DOMAIN Received :
          /\ Chs[k] \in Field
          /\ ~ IsNode(Degree, Chs[k])
          /\ Received[k] # RoundOf(poly, Prefix(k))
          /\ interpolate_uni_poly(Received[k], Degree, Chs[k])
               = PartialSum(poly, Prefix(k) \o <<Chs[k]>>)
    BY <2>1, SoundVerdict
  <2>3. RoundOf(poly, Prefix(k)) = RoundPolynomial(Prefix(k))
    BY DEF RoundOf, RoundPolynomial, Degree
  <2>4. Chs[k] \in Field \ {FromInt(j) : j \in 0 .. Degree}
    BY <2>2 DEF IsNode
  <2>5. Chs[k] \in LuckyChallenges(k)
    BY <2>2, <2>4 DEF LuckyChallenges
  <2> QED BY <2>2, <2>3, <2>5
<1> QED BY <1>1, <1>2, PTL

---------------------------------------------------------------------------
(* Extrapolation and interpolation.                                        *)

\* What the prover extrapolates is the value of the polynomial.
LEMMA ExtrapolateIsValue ==
  ASSUME NEW L \in Nat, NEW g, DegreeAtMost(g, L), NEW t \in Field, L < t,
         NEW evals, \A j \in 0 .. L : evals[j] = g[j]
  PROVE  extrapolate(0 .. L, evals, t) = g[t]
<1>00. t \notin 0 .. L /\ L < P
  BY PAssumption DEF Field
<1> DEFINE S == 0 .. L
           coeffs == [j \in S |-> InvOrZero(FromInt(t - j)) ** barycentric_weights(S)[j]]
           w == [j \in S |-> coeffs[j] ** evals[j]]
           R == Rooted(S)[t]
<1>0. t \in Nat /\ t < P
  BY PAssumption DEF Field
<1>1. S \in SUBSET Field /\ Cardinality(S) = L + 1 /\ t \notin S /\ IsFiniteSet(S)
  <2>1. L < P
    BY <1>00
  <2>2. S \in SUBSET Field /\ Cardinality(S) = L + 1
    BY <2>1, Nodes
  <2>3. t \notin S
    BY <1>00
  <2>4. IsFiniteSet(S)
    BY FS_Interval
  <2> QED BY <2>2, <2>3, <2>4
<1>2. g \in Functional /\ \A j \in S : g[j] \in Field
  BY <1>1 DEF DegreeAtMost, Functional
<1>3. ASSUME NEW j \in S
      PROVE  coeffs[j] = Inv(t -- j) ** Inv(Den(S, j))
  <2>1. FProd([i \in S \ {j} |-> FromInt(j - i)]) = Den(S, j)
    BY DEF Den, FromInt, --
  <2>2. barycentric_weights(S)[j] = InvOrZero(FProd([i \in S \ {j} |-> FromInt(j - i)]))
    BY DEF barycentric_weights
  <2>3. j \in Field
    BY <1>1
  <2>4. InvOrZero(Den(S, j)) = Inv(Den(S, j))
    BY <1>1, <2>3, DenType DEF InvOrZero
  <2>5. FromInt(t - j) = t -- j
    BY DEF FromInt, --
  <2>6. t -- j # 0
    BY <1>1, <2>3, SubtractionLaws
  <2>7. InvOrZero(FromInt(t - j)) = Inv(t -- j)
    BY <2>5, <2>6 DEF InvOrZero
  <2>8. coeffs[j] = InvOrZero(FromInt(t - j)) ** barycentric_weights(S)[j]
    OBVIOUS
  <2> HIDE DEF coeffs, S
  <2> QED BY <2>1, <2>2, <2>4, <2>7, <2>8
<1>4. extrapolate(S, evals, t) = FSum(w) ** InvOrZero(FSum(coeffs))
  BY DEF extrapolate
<1>5. /\ DOMAIN w = S /\ DOMAIN coeffs = S
      /\ \A j \in S : w[j] = coeffs[j] ** g[j]
  OBVIOUS
<1> HIDE DEF S, coeffs, w
<1>6. ASSUME NEW j \in S
      PROVE  /\ w[j] = (g[j] ** Inv(Den(S, j))) ** Inv(t -- j)
             /\ coeffs[j] = (One[j] ** Inv(Den(S, j))) ** Inv(t -- j)
  <2> DEFINE a == Inv(t -- j)
             b == Inv(Den(S, j))
  <2>1. j \in Field /\ a \in Field /\ b \in Field /\ g[j] \in Field
    <3>1. j \in Field
      BY <1>1
    <3>2. Inv(t -- j) \in Field
      BY <1>1, <1>2, WeighedType
    <3> QED BY <1>1, <1>2, <3>1, <3>2, DenType
  <2>2. w[j] = (a ** b) ** g[j] /\ coeffs[j] = a ** b
    BY <1>3, <1>5
  <2> HIDE DEF a, b
  <2>3. g[j] ** b \in Field /\ a ** b \in Field
    BY <2>1, FieldClosed
  <2>4. (a ** b) ** g[j] = a ** (b ** g[j])
    BY <2>1, FieldLaws
  <2>5. b ** g[j] = g[j] ** b /\ a ** (g[j] ** b) = (g[j] ** b) ** a
    BY <2>1, <2>3, FieldLaws
  <2>6. One[j] ** b = b /\ a ** b = b ** a
    BY <2>1, OneType, FieldLaws
  <2> QED BY <2>2, <2>4, <2>5, <2>6 DEF a, b
<1>7. FSum(w) = Weighed(S, g, t)
  <2>1. w = [j \in S |-> (g[j] ** Inv(Den(S, j))) ** Inv(t -- j)]
    <3>1. w = [j \in S |-> w[j]]
      BY <1>4, <1>5 DEF w
    <3> QED BY <1>6, <3>1
  <2> QED BY <2>1 DEF Weighed
<1>8. FSum(coeffs) = Weighed(S, One, t)
  <2>1. coeffs = [j \in S |-> (One[j] ** Inv(Den(S, j))) ** Inv(t -- j)]
    <3>1. coeffs = [j \in S |-> coeffs[j]]
      BY DEF coeffs
    <3> QED BY <1>6, <3>1
  <2> QED BY <2>1 DEF Weighed
<1>9. g[t] = R ** Weighed(S, g, t)
  BY <1>1, ValueOutside
<1>10. One[t] = R ** Weighed(S, One, t)
  <2>1. DegreeAtMost(One, L)
    BY DegreeOne, DegreeWeaken
  <2> QED BY <1>1, <2>1, ValueOutside
<1>11. R \in Field /\ Weighed(S, One, t) \in Field /\ Weighed(S, g, t) \in Field
  <2>1. \A j \in S : One[j] \in Field
    BY <1>1, OneType, FieldClosed
  <2> QED BY <1>1, <1>2, <2>1, RootedType, WeighedType DEF Functional
<1> HIDE DEF R
<1>12. InvOrZero(Weighed(S, One, t)) = R
  <2>1. Weighed(S, One, t) ** R = 1
    BY <1>10, <1>11, OneType, FieldLaws
  <2> QED BY <1>11, <2>1, InverseUnique DEF InvOrZero
<1>13. Weighed(S, g, t) ** R = R ** Weighed(S, g, t)
  BY <1>11, FieldLaws
<1> QED BY <1>4, <1>7, <1>8, <1>9, <1>12, <1>13 DEF S

\* The verifier's denominators: d! times its ratio is the product of the
\* distances of i from the other nodes.
LEMMA RatioIsDen ==
  ASSUME NEW d \in Nat, d < P, NEW i \in 0 .. d
  PROVE  LET last == FProd([e \in 1 .. d |-> FromInt(e)])
             num  == FProd([j \in i+1 .. d |-> FromInt(j - (d + 1))])
             den  == FProd([j \in i+1 .. d |-> FromInt(j)])
         IN  /\ last ** num = Den(0 .. d, i) ** den
             /\ den \in Field \ {0}
<1> DEFINE S == 0 .. d
           A == 1 .. i
           B == i+1 .. d
           C == 0 .. i-1
           ul == [e \in 1 .. d |-> FromInt(e)]
           ua == [e \in A |-> FromInt(e)]
           ub == [j \in B |-> FromInt(j)]
           un == [j \in B |-> FromInt(j - (d + 1))]
           uD == [e \in S \ {i} |-> i -- e]
           uc == [e \in C |-> i -- e]
           uh == [e \in B |-> i -- e]
<1>1. IsFiniteSet(A) /\ IsFiniteSet(B) /\ IsFiniteSet(C)
  BY FS_Interval
<1>2. 1 .. d = A \cup B /\ A \cap B = {} /\ S \ {i} = C \cup B /\ C \cap B = {}
  OBVIOUS
<1>3. S \in SUBSET Field /\ i \in Field /\ \A j \in S : FromInt(j) = j
  BY Nodes
<1>4. A \subseteq S /\ B \subseteq S /\ C \subseteq S
  OBVIOUS
<1>5. \A e \in S : i -- e \in Field /\ FromInt(e) \in Field
  BY <1>3, FieldClosed
<1>6. FProd(ul) = FProd(ua) ** FProd(ub)
  <2>1. SplitsInto(ul, 1 .. d, ua, A, ub, B)
    BY <1>1, <1>2, <1>4, <1>5 DEF SplitsInto
  <2> QED BY <2>1, FProdUnion
<1>7. FProd(uD) = FProd(uc) ** FProd(uh)
  <2>1. SplitsInto(uD, S \ {i}, uc, C, uh, B)
    BY <1>1, <1>2, <1>4, <1>5 DEF SplitsInto
  <2> QED BY <2>1, FProdUnion
<1>8. FProd(ua) = FProd(uc)
  <2> DEFINE j == [e \in A |-> i - e]
  <2>1. Mul!Renames(j, A, C)
    <3>1. \A x, y \in A : j[x] = j[y] => x = y
      OBVIOUS
    <3>2. \A x \in A : j[x] \in C
      OBVIOUS
    <3>3. ASSUME NEW z \in C
          PROVE  \E x \in A : z = j[x]
      <4>1. i - z \in A /\ j[i - z] = z
        OBVIOUS
      <4> QED BY <4>1
    <3> HIDE DEF j, A, C
    <3> QED BY <3>1, <3>2, <3>3 DEF Mul!Renames
  <2>2. ASSUME NEW e \in A
        PROVE  ua[e] = uc[j[e]]
    <3>1. j[e] \in C /\ j[e] = i - e
      OBVIOUS
    <3>2. uc[j[e]] = i -- (i - e)
      BY <3>1
    <3>3. i - (i - e) = e
      OBVIOUS
    <3> QED BY <3>2, <3>3 DEF --, FromInt
  <2>3. DOMAIN uc = C /\ DOMAIN ua = A /\ \A x \in C : uc[x] \in Field
    BY <1>4, <1>5
  <2> HIDE DEF j, ua, uc, A, C
  <2> QED BY <1>1, <2>1, <2>2, <2>3, FProdRename
<1>9. FProd(un) = FProd(uh)
  <2> DEFINE j == [e \in B |-> (d + 1) + i - e]
  <2>1. Mul!Renames(j, B, B)
    <3>1. \A x, y \in B : j[x] = j[y] => x = y
      OBVIOUS
    <3>2. \A x \in B : j[x] \in B
      OBVIOUS
    <3>3. ASSUME NEW z \in B
          PROVE  \E x \in B : z = j[x]
      <4>1. (d + 1) + i - z \in B /\ j[(d + 1) + i - z] = z
        OBVIOUS
      <4> QED BY <4>1
    <3> HIDE DEF j, B
    <3> QED BY <3>1, <3>2, <3>3 DEF Mul!Renames
  <2>2. ASSUME NEW e \in B
        PROVE  un[e] = uh[j[e]]
    <3>1. j[e] \in B /\ j[e] = (d + 1) + i - e
      OBVIOUS
    <3>2. uh[j[e]] = i -- ((d + 1) + i - e)
      BY <3>1
    <3>3. i - ((d + 1) + i - e) = e - (d + 1)
      OBVIOUS
    <3> QED BY <3>2, <3>3 DEF --, FromInt
  <2>3. DOMAIN uh = B /\ DOMAIN un = B /\ \A x \in B : uh[x] \in Field
    BY <1>4, <1>5
  <2> HIDE DEF j, un, uh, B
  <2> QED BY <1>1, <2>1, <2>2, <2>3, FProdRename
<1>10. FProd(ub) \in Field \ {0}
  <2>1. \A e \in B : e \in S /\ e # 0
    OBVIOUS
  <2>2. \A e \in B : ub[e] \in Field \ {0}
    BY <1>3, <1>5, <2>1
  <2>3. DOMAIN ub = B
    OBVIOUS
  <2> HIDE DEF ub, B
  <2> QED BY <1>1, <2>2, <2>3, FProdNonZero
<1>11. FProd(uc) \in Field /\ FProd(uh) \in Field
  <2>1. /\ DOMAIN uc = C /\ DOMAIN uh = B /\ \A e \in C : uc[e] \in Field
        /\ \A e \in B : uh[e] \in Field
    BY <1>4, <1>5
  <2> HIDE DEF uc, uh, B, C
  <2> QED BY <1>1, <2>1, FProdType
<1>12. Den(S, i) = FProd(uD)
  BY DEF Den
<1> HIDE DEF ul, ua, ub, un, uD, uc, uh, S
<1>13. (FProd(uc) ** FProd(ub)) ** FProd(uh) = (FProd(uc) ** FProd(uh)) ** FProd(ub)
  <2> DEFINE x == FProd(uc)
             y == FProd(ub)
             z == FProd(uh)
  <2>1. x \in Field /\ y \in Field /\ z \in Field
    BY <1>10, <1>11
  <2> HIDE DEF x, y, z
  <2>2. (x ** y) ** z = x ** (y ** z) /\ y ** z = z ** y /\ x ** (z ** y) = (x ** z) ** y
    BY <2>1, FieldLaws
  <2> QED BY <2>2 DEF x, y, z
<1>14. FProd(ul) ** FProd(un) = Den(S, i) ** FProd(ub)
  BY <1>6, <1>7, <1>8, <1>9, <1>12, <1>13
<1> QED BY <1>10, <1>14 DEF ul, un, ub, S

\* What the verifier interpolates is the value of the polynomial through the
\* message.
LEMMA InterpolateIsThrough ==
  ASSUME NEW d \in Nat, d < P, NEW p, \A j \in 0 .. d : p[j] \in Field,
         NEW r \in Field, r \notin 0 .. d
  PROVE  interpolate_uni_poly(p, d, r) = Through(0 .. d, p)[r]
<1> DEFINE S == 0 .. d
           R == Rooted(S)[r]
           T == Through(S, p)
           prod == FProd([e \in S |-> r -- FromInt(e)])
           last == FProd([e \in 1 .. d |-> FromInt(e)])
           num(i) == FProd([j \in i+1 .. d |-> FromInt(j - (d + 1))])
           den(i) == FProd([j \in i+1 .. d |-> FromInt(j)])
           u == [i \in S |-> (p[i] ** prod ** den(i)) // (last ** num(i) ** (r -- FromInt(i)))]
           w == [i \in S |-> (p[i] ** Inv(Den(S, i))) ** Inv(r -- i)]
<1>1. S \in SUBSET Field /\ Cardinality(S) = d + 1 /\ IsFiniteSet(S)
      /\ \A j \in S : FromInt(j) = j
  BY Nodes, FS_Interval
<1>2. interpolate_uni_poly(p, d, r) = FSum(u)
  BY DEF interpolate_uni_poly
<1>3. prod = R
  <2>1. [e \in S |-> r -- FromInt(e)] = [e \in S |-> r -- e]
    BY <1>1
  <2> QED BY <2>1 DEF Rooted
<1>4. R \in Field
  BY <1>1, RootedType DEF Functional
<1>5. ASSUME NEW i \in S
      PROVE  /\ last ** num(i) = Den(S, i) ** den(i)
             /\ den(i) \in Field \ {0}
  BY RatioIsDen
<1>6. \A i \in S : w[i] \in Field
  BY <1>1, WeighedType
<1>7. ASSUME NEW i \in S
      PROVE  u[i] = R ** w[i]
  <2> DEFINE y == p[i]
             D == Den(S, i)
             q == den(i)
             s == r -- i
  <2>1. /\ y \in Field /\ D \in Field /\ D # 0 /\ q \in Field /\ q # 0
        /\ s \in Field /\ s # 0
    <3>1. i \in Field
      BY <1>1
    <3>2. D \in Field /\ D # 0
      BY <1>1, <3>1, DenType
    <3>3. s \in Field /\ s # 0
      BY <1>1, WeighedType
    <3>4. q \in Field /\ q # 0
      BY <1>5
    <3> QED BY <3>2, <3>3, <3>4
  <2>2. u[i] = ((y ** R) ** q) ** Inv((D ** q) ** s)
    <3>1. u[i] = ((y ** prod) ** q) ** Inv((last ** num(i)) ** (r -- FromInt(i)))
      BY DEF //
    <3>2. FromInt(i) = i /\ last ** num(i) = D ** q
      BY <1>1, <1>5
    <3> HIDE DEF u, prod, last, num, den, q, D
    <3> QED BY <1>3, <3>1, <3>2
  <2>3. w[i] = (y ** Inv(D)) ** Inv(s)
    OBVIOUS
  <2> HIDE DEF u, w, y, D, q, s, R
  <2>4. D ** q \in Field /\ D ** q # 0
    BY <2>1, NonZeroProduct
  <2>5. Inv((D ** q) ** s) = (Inv(D) ** Inv(q)) ** Inv(s)
    BY <2>1, <2>4, InverseProduct
  <2>6. /\ Inv(D) \in Field /\ Inv(q) \in Field /\ Inv(s) \in Field /\ q ** Inv(q) = 1
    BY <2>1, InverseLaws
  <2> DEFINE a == Inv(D)
             b == Inv(q)
             c == Inv(s)
             z == (y ** a) ** c
  <2>7. a \in Field /\ b \in Field /\ c \in Field /\ q ** b = 1
    BY <2>6
  <2>8. u[i] = ((y ** R) ** q) ** ((a ** b) ** c)
    BY <2>2, <2>5
  <2>9. w[i] = z
    BY <2>3
  <2> HIDE DEF a, b, c
  <2>10. ((y ** R) ** q) ** ((a ** b) ** c) = R ** z
    <3>1. y ** R \in Field /\ a ** b \in Field /\ b ** a = a ** b /\ a ** c \in Field
          /\ y ** a \in Field
      BY <1>4, <2>1, <2>7, FieldClosed, FieldLaws
    <3>2. ((y ** R) ** q) ** ((b ** a) ** c) = (y ** R) ** (q ** ((b ** a) ** c))
      <4>1. (b ** a) ** c \in Field
        BY <2>7, FieldClosed
      <4> QED BY <2>1, <3>1, <4>1, FieldLaws
    <3>3. (b ** a) ** c = b ** (a ** c)
      BY <2>7, FieldLaws
    <3>4. q ** (b ** (a ** c)) = (q ** b) ** (a ** c)
      BY <2>1, <2>7, <3>1, FieldLaws
    <3>5. 1 ** (a ** c) = a ** c
      BY <3>1, FieldLaws
    <3>6. (y ** R) ** (a ** c) = (R ** y) ** (a ** c)
      BY <1>4, <2>1, FieldLaws
    <3>7. (R ** y) ** (a ** c) = R ** (y ** (a ** c))
      BY <1>4, <2>1, <3>1, FieldLaws
    <3>8. y ** (a ** c) = (y ** a) ** c
      BY <2>1, <2>7, FieldLaws
    <3> QED BY <2>7, <3>1, <3>2, <3>3, <3>4, <3>5, <3>6, <3>7, <3>8
  <2> QED BY <2>8, <2>9, <2>10
<1>8. FSum(u) = R ** FSum(w)
  <2>1. DOMAIN u = S /\ DOMAIN w = S
    OBVIOUS
  <2> HIDE DEF u, w, R, S
  <2> QED BY <1>1, <1>4, <1>6, <1>7, <2>1, FSumScale
<1>9. FSum(w) = Weighed(S, p, r)
  BY DEF Weighed
<1>10. DegreeAtMost(T, d) /\ \A s \in S : T[s] = p[s]
  BY <1>1, ThroughFacts
<1>11. T[r] = R ** Weighed(S, T, r)
  <2>1. Cardinality(S) >= d + 1
    BY <1>1
  <2> HIDE DEF S, T
  <2> QED BY <1>1, <1>10, <2>1, ValueOutside DEF S
<1>12. Weighed(S, T, r) = Weighed(S, p, r)
  <2>1. [j \in S |-> (T[j] ** Inv(Den(S, j))) ** Inv(r -- j)]
          = [j \in S |-> (p[j] ** Inv(Den(S, j))) ** Inv(r -- j)]
    <3> HIDE DEF T, S
    <3> QED BY <1>10
  <2> QED BY <2>1 DEF Weighed
<1> HIDE DEF u, w, R, T
<1> QED BY <1>2, <1>8, <1>9, <1>11, <1>12 DEF T

---------------------------------------------------------------------------
(* A round of the prover.                                                  *)

LineAt(T, b, x) == T[2*b] ++ (x ** (T[2*b + 1] -- T[2*b]))
TermAt(q, mles, b, x) ==
  FProd([j \in DOMAIN q.factors |-> LineAt(mles[q.factors[j]], b, x)])
ProductAt(q, mles, free, x) ==
  q.coefficient ** FSum([b \in Index(free) |-> TermAt(q, mles, b, x)])
ProductsAt(p, mles, free, x) ==
  FSum([k \in DOMAIN p.products |-> ProductAt(p.products[k], mles, free, x)])

\* The tables mles are those of p with the prefix bound and one variable
\* more than `free` left.
TablesBound(p, mles, prefix, free) ==
  /\ IsPolynomial(p) /\ prefix \in Seq(Field) /\ free \in Nat
  /\ p.aux_info.num_variables = Len(prefix) + (free + 1)
  /\ DOMAIN mles = DOMAIN p.mles
  /\ \A i \in DOMAIN p.mles : Binds(mles[i], p.mles[i], prefix, free + 1)

\* A product whose factors name tables with free + 1 variables.
Fits(q, mles, free) ==
  /\ free \in Nat
  /\ q.coefficient \in Field
  /\ Len(q.factors) \in Nat /\ DOMAIN q.factors = 1 .. Len(q.factors)
  /\ \A j \in DOMAIN q.factors : mles[q.factors[j]] \in Table(free + 1)

LEMMA ProductsFit ==
  ASSUME NEW p, NEW mles, NEW prefix, NEW free, TablesBound(p, mles, prefix, free)
  PROVE  /\ Len(p.products) \in Nat /\ DOMAIN p.products = 1 .. Len(p.products)
         /\ \A k \in DOMAIN p.products :
              /\ Fits(p.products[k], mles, free)
              /\ Len(p.products[k].factors) <= p.aux_info.max_degree
              /\ \A j \in DOMAIN p.products[k].factors :
                   p.products[k].factors[j] \in DOMAIN p.mles
         /\ p.aux_info.max_degree \in Nat /\ p.aux_info.max_degree < P
<1> DEFINE R == [coefficient : Field, factors : Seq(1 .. Len(p.mles))]
           s == p.products
           n == p.aux_info.num_variables
<1>1. IsPolynomial(p)
  BY DEF TablesBound
<1>2. s \in Seq(R) /\ p.mles \in Seq(Table(n))
  BY <1>1 DEF IsPolynomial, AuxInfo
<1>3. p.aux_info.max_degree \in Nat /\ p.aux_info.max_degree < P
  <2>1. p.aux_info \in AuxInfo
    BY <1>1 DEF IsPolynomial, AuxInfo
  <2> QED BY <1>1, <2>1 DEF IsPolynomial, AuxInfo
<1>4. DOMAIN p.mles = 1 .. Len(p.mles)
  <2> HIDE DEF n
  <2> QED BY <1>2, LenProperties
<1>5. Len(s) \in Nat /\ DOMAIN s = 1 .. Len(s) /\ \A k \in DOMAIN s : s[k] \in R
  <2> HIDE DEF R, s
  <2> QED BY <1>2, LenProperties, ElementOfSeq
<1>6. ASSUME NEW k \in DOMAIN s
      PROVE  /\ Fits(s[k], mles, free)
             /\ \A j \in DOMAIN s[k].factors : s[k].factors[j] \in DOMAIN p.mles
  <2>1. s[k].coefficient \in Field /\ s[k].factors \in Seq(1 .. Len(p.mles))
    BY <1>5
  <2> HIDE DEF R, s
  <2>2. /\ Len(s[k].factors) \in Nat /\ DOMAIN s[k].factors = 1 .. Len(s[k].factors)
        /\ \A j \in DOMAIN s[k].factors : s[k].factors[j] \in 1 .. Len(p.mles)
    BY <2>1, LenProperties, ElementOfSeq
  <2>3. free \in Nat /\ \A i \in DOMAIN p.mles : mles[i] \in Table(free + 1)
    BY DEF TablesBound, Binds
  <2> QED BY <1>4, <2>1, <2>2, <2>3 DEF Fits
<1>7. \A k \in DOMAIN s : Len(s[k].factors) <= p.aux_info.max_degree
  BY <1>1 DEF IsPolynomial
<1> QED BY <1>3, <1>5, <1>6, <1>7

LEMMA LineType ==
  ASSUME NEW free \in Nat, NEW T \in Table(free + 1), NEW b \in Index(free), NEW x \in Field
  PROVE  /\ T[2*b] \in Field /\ T[2*b + 1] -- T[2*b] \in Field
         /\ LineAt(T, b, x) \in Field
         /\ LineAt(T, b, x) = T[2*b] ++ ((T[2*b + 1] -- T[2*b]) ** x)
<1>1. T[2*b] \in Field /\ T[2*b + 1] \in Field
  BY IndexFacts DEF Table
<1>2. T[2*b + 1] -- T[2*b] \in Field
  BY <1>1, FieldClosed
<1>3. x ** (T[2*b + 1] -- T[2*b]) \in Field
  BY <1>2, FieldClosed
<1>4. x ** (T[2*b + 1] -- T[2*b]) = (T[2*b + 1] -- T[2*b]) ** x
  BY <1>2, FieldLaws
<1> QED BY <1>1, <1>2, <1>3, <1>4, FieldClosed DEF LineAt

LEMMA TermType ==
  ASSUME NEW q, NEW mles, NEW free, Fits(q, mles, free), NEW b \in Index(free), NEW x \in Field
  PROVE  TermAt(q, mles, b, x) \in Field
<1> DEFINE fam == [j \in DOMAIN q.factors |-> LineAt(mles[q.factors[j]], b, x)]
<1>1. DOMAIN fam = 1 .. Len(q.factors) /\ IsFiniteSet(1 .. Len(q.factors))
  BY FS_Interval DEF Fits
<1>2. \A j \in DOMAIN fam : fam[j] \in Field
  BY LineType DEF Fits
<1> HIDE DEF fam
<1>3. FProd(fam) \in Field
  BY <1>1, <1>2, FProdType
<1> QED BY <1>3 DEF fam, TermAt

LEMMA IndexFinite ==
  ASSUME NEW m \in Nat
  PROVE  IsFiniteSet(Index(m))
<1>1. PICK h \in Nat : h = 2^m
  BY TwoToThe
<1>2. 0 \in Int /\ h - 1 \in Int
  OBVIOUS
<1> QED BY <1>1, <1>2, FS_Interval DEF Index

LEMMA ProductType ==
  ASSUME NEW q, NEW mles, NEW free, Fits(q, mles, free), NEW x \in Field
  PROVE  /\ FSum([b \in Index(free) |-> TermAt(q, mles, b, x)]) \in Field
         /\ ProductAt(q, mles, free, x) \in Field
<1> DEFINE fam == [b \in Index(free) |-> TermAt(q, mles, b, x)]
<1>1. IsFiniteSet(Index(free))
  BY IndexFinite DEF Fits
<1>2. DOMAIN fam = Index(free) /\ \A b \in Index(free) : fam[b] \in Int
  BY TermType, FieldClosed
<1> HIDE DEF fam
<1>3. FSum(fam) \in Field
  BY <1>1, <1>2, FSumType
<1> QED BY <1>3, FieldClosed DEF fam, ProductAt, Fits

\* What the prover evaluates are values of the product's sum.
LEMMA ProductSumsAt ==
  ASSUME NEW q, NEW mles, NEW free, NEW t \in 0 .. Len(q.factors)
  PROVE  ProductSums(q, mles, free)[t] = ProductAt(q, mles, free, FromInt(t))
BY DEF ProductSums, ProductAt, TermAt, LineAt

LEMMA ProductDegree ==
  ASSUME NEW q, NEW mles, NEW free, Fits(q, mles, free)
  PROVE  DegreeAtMost([x \in Field |-> ProductAt(q, mles, free, x)], Len(q.factors))
<1> DEFINE n == Len(q.factors)
           start(b) == [j \in 1 .. n |-> mles[q.factors[j]][2*b]]
           slope(b) == [j \in 1 .. n |->
                          mles[q.factors[j]][2*b + 1] -- mles[q.factors[j]][2*b]]
           G == [b \in Index(free) |-> LinearProduct(start(b), slope(b), n)]
           g == [x \in Field |-> FSum([b \in Index(free) |-> TermAt(q, mles, b, x)])]
           h == [x \in Field |-> ProductAt(q, mles, free, x)]
<1>1. n \in Nat /\ free \in Nat /\ IsFiniteSet(Index(free)) /\ q.coefficient \in Field
  BY IndexFinite DEF Fits
<1>2. ASSUME NEW b \in Index(free)
      PROVE  /\ start(b) \in [1 .. n -> Field] /\ slope(b) \in [1 .. n -> Field]
             /\ \A x \in Field : LinearProduct(start(b), slope(b), n)[x] = TermAt(q, mles, b, x)
  <2>1. \A j \in 1 .. n :
          /\ mles[q.factors[j]][2*b] \in Field
          /\ mles[q.factors[j]][2*b + 1] -- mles[q.factors[j]][2*b] \in Field
          /\ \A x \in Field :
               LineAt(mles[q.factors[j]], b, x)
                 = mles[q.factors[j]][2*b]
                     ++ ((mles[q.factors[j]][2*b + 1] -- mles[q.factors[j]][2*b]) ** x)
    BY LineType DEF Fits
  <2>2. start(b) \in [1 .. n -> Field] /\ slope(b) \in [1 .. n -> Field]
    BY <2>1
  <2>3. ASSUME NEW x \in Field
        PROVE  LinearProduct(start(b), slope(b), n)[x] = TermAt(q, mles, b, x)
    <3>1. [j \in 1 .. n |-> start(b)[j] ++ (slope(b)[j] ** x)]
            = [j \in DOMAIN q.factors |-> LineAt(mles[q.factors[j]], b, x)]
      BY <2>1 DEF Fits
    <3> HIDE DEF start, slope
    <3> QED BY <3>1 DEF LinearProduct, TermAt
  <2> QED BY <2>2, <2>3
<1>3. \A b \in Index(free) : DegreeAtMost(G[b], n)
  <2> SUFFICES ASSUME NEW b \in Index(free) PROVE DegreeAtMost(LinearProduct(start(b), slope(b), n), n)
    OBVIOUS
  <2>1. start(b) \in [1 .. n -> Field] /\ slope(b) \in [1 .. n -> Field]
    BY <1>2
  <2> HIDE DEF start, slope, n
  <2> QED BY <1>1, <2>1, DegreeProduct
<1>4. \A x \in Field : g[x] = SumAt(Index(free), G, x)
  <2> SUFFICES ASSUME NEW x \in Field PROVE g[x] = SumAt(Index(free), G, x)
    OBVIOUS
  <2>1. \A b \in Index(free) : G[b][x] = TermAt(q, mles, b, x)
    BY <1>2
  <2>2. [b \in Index(free) |-> G[b][x]] = [b \in Index(free) |-> TermAt(q, mles, b, x)]
    BY <2>1
  <2> HIDE DEF G
  <2> QED BY <2>2 DEF SumAt
<1>5. g \in Functional /\ h \in Functional
  BY ProductType DEF Functional
<1>6. \A x \in Field : h[x] = q.coefficient ** g[x]
  BY DEF ProductAt
<1> HIDE DEF G, g, h, n
<1>7. DegreeAtMost(g, n)
  BY <1>1, <1>3, <1>4, <1>5, DegreeSum
<1>8. DegreeAtMost(h, n)
  BY <1>1, <1>5, <1>6, <1>7, DegreeScale
<1> QED BY <1>8 DEF h, n

\* The partial sum of p, the next variable at x, out of the bound tables.
LEMMA PartialSumAt ==
  ASSUME NEW p, NEW mles, NEW prefix, NEW free, TablesBound(p, mles, prefix, free),
         NEW x \in Field
  PROVE  PartialSum(p, prefix \o <<x>>) = ProductsAt(p, mles, free, x)
<1> DEFINE K == DOMAIN p.products
           B == Index(free)
           q(k) == p.products[k]
           at(b) == (prefix \o <<x>>) \o bit_decompose(b, free)
           G == [k \in K |-> [b \in B |-> q(k).coefficient ** TermAt(q(k), mles, b, x)]]
           u == [b \in B |-> evaluate(p, at(b))]
           v == [k \in K |-> ProductAt(q(k), mles, free, x)]
<1>1. /\ prefix \in Seq(Field) /\ free \in Nat /\ Len(prefix) \in Nat
      /\ p.aux_info.num_variables = Len(prefix) + (free + 1)
  BY LenProperties DEF TablesBound
<1>2. IsFiniteSet(K) /\ IsFiniteSet(B)
  <2>1. K = 1 .. Len(p.products) /\ Len(p.products) \in Nat
    BY ProductsFit
  <2>2. IsFiniteSet(1 .. Len(p.products))
    BY <2>1, FS_Interval
  <2> QED BY <1>1, <2>1, <2>2, IndexFinite
<1>3. \A k \in K : Fits(q(k), mles, free)
  BY ProductsFit
<1>4. \A k \in K : \A b \in B : G[k][b] \in Field
  <2> SUFFICES ASSUME NEW k \in K, NEW b \in B
               PROVE  q(k).coefficient ** TermAt(q(k), mles, b, x) \in Field
    OBVIOUS
  <2>1. Fits(q(k), mles, free)
    BY <1>3
  <2> HIDE DEF q, B
  <2>2. TermAt(q(k), mles, b, x) \in Field
    BY <2>1, TermType DEF B
  <2>3. q(k).coefficient \in Field
    BY <2>1 DEF Fits
  <2> QED BY <2>2, <2>3, FieldClosed
<1>5. ASSUME NEW k \in K, NEW b \in B, NEW j \in DOMAIN q(k).factors
      PROVE  Extension(p.mles[q(k).factors[j]], at(b))
               = LineAt(mles[q(k).factors[j]], b, x)
  <2>1. PICK i \in DOMAIN p.mles : i = q(k).factors[j]
    BY ProductsFit
  <2>2. Binds(mles[i], p.mles[i], prefix, free + 1)
    BY <2>1 DEF TablesBound
  <2>3. b \in Nat /\ bit_decompose(b, free) \in Point(free)
    BY <1>1, IndexFacts, BitsPoint
  <2>4. <<x>> \o bit_decompose(b, free) \in Point(free + 1)
        /\ bit_decompose(b, free) \in Seq(Field)
    BY <1>1, <2>3, PointFacts
  <2>5. Extension(mles[i], <<x>> \o bit_decompose(b, free))
          = Extension(p.mles[i], prefix \o (<<x>> \o bit_decompose(b, free)))
    BY <2>2, <2>4 DEF Binds
  <2>6. prefix \o (<<x>> \o bit_decompose(b, free)) = at(b)
    <3>1. <<x>> \in Seq(Field)
      OBVIOUS
    <3> QED BY <1>1, <2>4, <3>1, ConcatAssociative
  <2>7. Extension(mles[i], <<x>> \o bit_decompose(b, free)) = LineAt(mles[i], b, x)
    <3>1. mles[i] \in Table(free + 1)
      BY <2>2 DEF Binds
    <3> QED BY <1>1, <3>1, ExtensionLine DEF LineAt
  <2> QED BY <2>1, <2>5, <2>6, <2>7
<1>6. \A b \in B : u[b] = SumAt(K, G, b)
  <2> SUFFICES ASSUME NEW b \in B PROVE evaluate(p, at(b)) = SumAt(K, G, b)
    OBVIOUS
  <2>1. ASSUME NEW k \in K
        PROVE  q(k).coefficient **
                 FProd([j \in DOMAIN q(k).factors |->
                          Extension(p.mles[q(k).factors[j]], at(b))])
               = G[k][b]
    <3>1. [j \in DOMAIN q(k).factors |-> Extension(p.mles[q(k).factors[j]], at(b))]
            = [j \in DOMAIN q(k).factors |-> LineAt(mles[q(k).factors[j]], b, x)]
      BY <1>5
    <3>2. G[k][b] = q(k).coefficient ** TermAt(q(k), mles, b, x)
      OBVIOUS
    <3> HIDE DEF G, q, at
    <3> QED BY <3>1, <3>2 DEF TermAt
  <2> DEFINE e == [k \in K |->
                     q(k).coefficient **
                       FProd([j \in DOMAIN q(k).factors |->
                                Extension(p.mles[q(k).factors[j]], at(b))])]
  <2>2. e = [k \in K |-> G[k][b]]
    BY <2>1
  <2>3. evaluate(p, at(b)) = FSum(e)
    BY DEF evaluate
  <2> HIDE DEF e, G, at
  <2> QED BY <2>2, <2>3 DEF SumAt
<1>7. \A k \in K : v[k] = RowSum(G, B, k)
  <2> SUFFICES ASSUME NEW k \in K PROVE ProductAt(q(k), mles, free, x) = RowSum(G, B, k)
    OBVIOUS
  <2> DEFINE fam == [b \in B |-> TermAt(q(k), mles, b, x)]
             h == [b \in B |-> G[k][b]]
  <2>1. Fits(q(k), mles, free) /\ q(k).coefficient \in Field
    BY <1>3 DEF Fits
  <2>2. \A b \in B : fam[b] \in Field /\ h[b] = q(k).coefficient ** fam[b]
    <3>1. \A b \in B : fam[b] = TermAt(q(k), mles, b, x)
                       /\ h[b] = q(k).coefficient ** TermAt(q(k), mles, b, x)
      OBVIOUS
    <3> HIDE DEF fam, h, q
    <3> QED BY <2>1, <3>1, TermType
  <2>3. DOMAIN fam = B /\ DOMAIN h = B
    OBVIOUS
  <2>4. ProductAt(q(k), mles, free, x) = q(k).coefficient ** FSum(fam)
    BY DEF ProductAt
  <2>5. RowSum(G, B, k) = FSum(h)
    BY DEF RowSum
  <2> HIDE DEF fam, h, q, B, G
  <2>6. FSum(h) = q(k).coefficient ** FSum(fam)
    BY <1>2, <2>1, <2>2, <2>3, FSumScale
  <2> QED BY <2>4, <2>5, <2>6
<1>8. PartialSum(p, prefix \o <<x>>) = FSum(u)
  <2>1. Len(prefix \o <<x>>) = Len(prefix) + 1
    BY <1>1
  <2>2. p.aux_info.num_variables - Len(prefix \o <<x>>) = free
    BY <1>1, <2>1
  <2> QED BY <2>2 DEF PartialSum
<1>9. DOMAIN u = B /\ DOMAIN v = K /\ ProductsAt(p, mles, free, x) = FSum(v)
  BY DEF ProductsAt
<1> HIDE DEF K, B, G, u, v
<1>10. FSum(u) = FSum(v)
  BY <1>2, <1>4, <1>6, <1>7, <1>9, FSumExchange
<1> QED BY <1>8, <1>9, <1>10

LEMMA ProductsDegree ==
  ASSUME NEW p, NEW mles, NEW prefix, NEW free, TablesBound(p, mles, prefix, free)
  PROVE  DegreeAtMost([x \in Field |-> ProductsAt(p, mles, free, x)],
                      p.aux_info.max_degree)
<1> DEFINE K == DOMAIN p.products
           d == p.aux_info.max_degree
           q(k) == p.products[k]
           G == [k \in K |-> [x \in Field |-> ProductAt(q(k), mles, free, x)]]
           h == [x \in Field |-> ProductsAt(p, mles, free, x)]
<1>1. IsFiniteSet(K) /\ d \in Nat
  BY ProductsFit, FS_Interval
<1>2. \A k \in K : DegreeAtMost(G[k], d)
  <2> SUFFICES ASSUME NEW k \in K
               PROVE  DegreeAtMost([x \in Field |-> ProductAt(q(k), mles, free, x)], d)
    OBVIOUS
  <2>1. Fits(q(k), mles, free) /\ Len(q(k).factors) <= d
    BY ProductsFit
  <2>2. Len(q(k).factors) \in Nat
    BY <2>1 DEF Fits
  <2> HIDE DEF q, d
  <2>3. DegreeAtMost([x \in Field |-> ProductAt(q(k), mles, free, x)], Len(q(k).factors))
    BY <2>1, ProductDegree
  <2> QED BY <1>1, <2>1, <2>2, <2>3, DegreeWeaken
<1>3. \A x \in Field : h[x] = SumAt(K, G, x)
  <2> SUFFICES ASSUME NEW x \in Field PROVE ProductsAt(p, mles, free, x) = SumAt(K, G, x)
    OBVIOUS
  <2>1. [k \in K |-> ProductAt(q(k), mles, free, x)] = [k \in K |-> G[k][x]]
    OBVIOUS
  <2>2. ProductsAt(p, mles, free, x) = FSum([k \in K |-> ProductAt(q(k), mles, free, x)])
    BY DEF ProductsAt
  <2> HIDE DEF G
  <2> QED BY <2>1, <2>2 DEF SumAt
<1>4. h \in Functional
  <2> SUFFICES ASSUME NEW x \in Field PROVE ProductsAt(p, mles, free, x) \in Field
    BY DEF Functional
  <2> DEFINE v == [k \in K |-> ProductAt(q(k), mles, free, x)]
  <2>1. DOMAIN v = K /\ \A k \in K : v[k] \in Int
    BY ProductsFit, ProductType, FieldClosed
  <2>2. ProductsAt(p, mles, free, x) = FSum(v)
    BY DEF ProductsAt
  <2> HIDE DEF v, K
  <2> QED BY <1>1, <2>1, <2>2, FSumType
<1> HIDE DEF K, G, h, d
<1>5. DegreeAtMost(h, d)
  BY <1>1, <1>2, <1>3, <1>4, DegreeSum
<1> QED BY <1>5 DEF h, d

LEMMA RoundMessageIsSum ==
  ASSUME NEW p, NEW mles, NEW prefix, NEW free, TablesBound(p, mles, prefix, free)
  PROVE  RoundMessage(p, mles, free) = RoundOf(p, prefix)
<1> DEFINE d == p.aux_info.max_degree
           q(k) == p.products[k]
           value(k, t) ==
             LET sum == ProductSums(q(k), mles, free)
                 points == DOMAIN sum
             IN  IF t \in points THEN sum[t] ELSE extrapolate(points, sum, t)
<1>1. d \in Nat /\ d < P
  BY ProductsFit
<1>2. ASSUME NEW t \in 0 .. d
      PROVE  FSum([k \in DOMAIN p.products |-> value(k, t)])
               = PartialSum(p, prefix \o <<FromInt(t)>>)
  <2>1. t \in Field /\ FromInt(t) = t
    BY <1>1, Nodes
  <2>2. ASSUME NEW k \in DOMAIN p.products
        PROVE  value(k, t) = ProductAt(q(k), mles, free, t)
    <3> DEFINE L == Len(q(k).factors)
               g == [x \in Field |-> ProductAt(q(k), mles, free, x)]
               sum == ProductSums(q(k), mles, free)
    <3>1. Fits(q(k), mles, free) /\ L <= d
      BY ProductsFit
    <3>2. L \in Nat
      BY <3>1 DEF Fits
    <3>3. DOMAIN sum = 0 .. L
      BY DEF ProductSums
    <3>4. ASSUME NEW j \in 0 .. L
          PROVE  sum[j] = ProductAt(q(k), mles, free, j)
      <4>1. j \in 0 .. d
        BY <1>1, <3>1, <3>2
      <4>2. FromInt(j) = j
        BY <1>1, <4>1, Nodes
      <4>3. ProductSums(q(k), mles, free)[j] = ProductAt(q(k), mles, free, FromInt(j))
        BY ProductSumsAt
      <4> QED BY <4>2, <4>3
    <3>5. CASE t \in 0 .. L
      BY <3>3, <3>4, <3>5
    <3>6. CASE t \notin 0 .. L
      <4>1. L < t
        BY <1>1, <3>2, <3>6
      <4>2. DegreeAtMost(g, L)
        <5> HIDE DEF q
        <5> QED BY <3>1, ProductDegree
      <4>3. \A j \in 0 .. L : j \in Field
        BY <1>1, <3>1, <3>2, Nodes
      <4>4. \A j \in 0 .. L : sum[j] = g[j]
        BY <3>4, <4>3
      <4>5. g[t] = ProductAt(q(k), mles, free, t)
        BY <2>1
      <4>6. value(k, t) = extrapolate(0 .. L, sum, t)
        BY <3>3, <3>6
      <4> HIDE DEF g, sum, L, value
      <4>7. extrapolate(0 .. L, sum, t) = g[t]
        BY <2>1, <3>2, <4>1, <4>2, <4>4, ExtrapolateIsValue
      <4> QED BY <4>5, <4>6, <4>7
    <3> QED BY <3>5, <3>6
  <2>3. [k \in DOMAIN p.products |-> value(k, t)]
          = [k \in DOMAIN p.products |-> ProductAt(q(k), mles, free, t)]
    BY <2>2
  <2>4. PartialSum(p, prefix \o <<t>>)
          = FSum([k \in DOMAIN p.products |-> ProductAt(q(k), mles, free, t)])
    BY <2>1, PartialSumAt DEF ProductsAt
  <2> HIDE DEF value, q
  <2> QED BY <2>1, <2>3, <2>4
<1>3. RoundMessage(p, mles, free)
        = [t \in 0 .. d |-> FSum([k \in DOMAIN p.products |-> value(k, t)])]
  BY DEF RoundMessage
<1> HIDE DEF value
<1> QED BY <1>2, <1>3 DEF RoundOf

---------------------------------------------------------------------------
(* What the verifier makes of a message.                                   *)

\* A message that lists the values of a polynomial is interpolated to it.
LEMMA InterpolateIsValue ==
  ASSUME NEW d \in Nat, d < P, NEW g, DegreeAtMost(g, d),
         NEW m, \A t \in 0 .. d : m[t] = g[t],
         NEW r \in Field, r \notin 0 .. d
  PROVE  interpolate_uni_poly(m, d, r) = g[r]
<1>1. 0 .. d \in SUBSET Field /\ Cardinality(0 .. d) = d + 1
  BY Nodes
<1>2. \A t \in 0 .. d : m[t] \in Field
  BY <1>1 DEF DegreeAtMost, Functional
<1>3. DegreeAtMost(Through(0 .. d, m), d)
      /\ \A t \in 0 .. d : Through(0 .. d, m)[t] = m[t]
  BY <1>1, <1>2, ThroughFacts
<1>4. PICK fam : fam = Through(0 .. d, m)
  OBVIOUS
<1>5. PICK Z \in SUBSET Field : Z = 0 .. d
  BY <1>1
<1>6. Cardinality(Z) >= d + 1 /\ \A z \in Z : fam[z] = g[z]
  BY <1>1, <1>3, <1>4, <1>5
<1>7. DegreeAtMost(fam, d)
  BY <1>3, <1>4
<1>8. fam[r] = g[r]
  BY <1>6, <1>7, FewAgreements
<1>9. interpolate_uni_poly(m, d, r) = Through(0 .. d, m)[r]
  BY <1>2, InterpolateIsThrough
<1> QED BY <1>4, <1>8, <1>9

\* A message that is not one agrees with it at d arguments at most.
LEMMA FewLucky ==
  ASSUME NEW d \in Nat, d < P, NEW g, DegreeAtMost(g, d),
         NEW m, \A t \in 0 .. d : m[t] \in Field,
         NEW Z \in SUBSET Field, Cardinality(Z) >= d + 1,
         \A z \in Z : z \notin 0 .. d /\ interpolate_uni_poly(m, d, z) = g[z]
  PROVE  \A t \in 0 .. d : m[t] = g[t]
<1>1. 0 .. d \in SUBSET Field /\ Cardinality(0 .. d) = d + 1
  BY Nodes
<1>2. PICK fam : fam = Through(0 .. d, m)
  OBVIOUS
<1>3. DegreeAtMost(fam, d) /\ \A t \in 0 .. d : fam[t] = m[t]
  BY <1>1, <1>2, ThroughFacts
<1>4. \A z \in Z : fam[z] = g[z]
  <2> SUFFICES ASSUME NEW z \in Z PROVE fam[z] = g[z]
    OBVIOUS
  <2>1. z \in Field /\ z \notin 0 .. d
    OBVIOUS
  <2>2. interpolate_uni_poly(m, d, z) = Through(0 .. d, m)[z]
    BY <2>1, InterpolateIsThrough
  <2> QED BY <1>2, <2>2
<1>5. \A x \in Field : fam[x] = g[x]
  BY <1>3, <1>4, FewAgreements
<1> QED BY <1>1, <1>3, <1>5

\* The polynomial a round asks for.
RoundAt(p, prefix) == [x \in Field |-> PartialSum(p, prefix \o <<x>>)]

LEMMA RoundAtFacts ==
  ASSUME NEW p, IsPolynomial(p), NEW prefix \in Seq(Field),
         Len(prefix) < p.aux_info.num_variables
  PROVE  /\ DegreeAtMost(RoundAt(p, prefix), p.aux_info.max_degree)
         /\ p.aux_info.max_degree \in Nat /\ p.aux_info.max_degree < P
         /\ \A x \in Field : RoundAt(p, prefix)[x] = PartialSum(p, prefix \o <<x>>)
<1> DEFINE n == p.aux_info.num_variables
           k == Len(prefix)
           free == n - k - 1
           Some(i) == CHOOSE T : Binds(T, p.mles[i], prefix, free + 1)
           mles == [i \in DOMAIN p.mles |-> Some(i)]
<1>1. n \in Nat /\ k \in Nat /\ free \in Nat /\ n = k + (free + 1)
  <2>1. p.aux_info \in AuxInfo
    BY DEF IsPolynomial
  <2>2. n \in Nat /\ k \in Nat /\ k < n
    BY <2>1, LenProperties DEF AuxInfo
  <2> QED BY <2>2
<1>2. prefix \in Point(k)
  BY DEF Point
<1>3. ASSUME NEW i \in DOMAIN p.mles
      PROVE  Binds(mles[i], p.mles[i], prefix, free + 1)
  <2>1. p.mles[i] \in Table(n)
    <3>1. p.mles \in Seq(Table(n))
      BY DEF IsPolynomial
    <3> HIDE DEF n
    <3> QED BY <3>1, ElementOfSeq, LenProperties
  <2> HIDE DEF free, n, k
  <2>2. p.mles[i] \in Table(k + (free + 1)) /\ free + 1 \in Nat
    BY <1>1, <2>1
  <2>3. \E T : Binds(T, p.mles[i], prefix, free + 1)
    BY <1>1, <1>2, <2>2, BindsAny DEF BindsSome
  <2>4. Binds(Some(i), p.mles[i], prefix, free + 1)
    BY <2>3
  <2> QED BY <2>4
<1>4. DOMAIN mles = DOMAIN p.mles
  OBVIOUS
<1> HIDE DEF mles, free, n, k
<1>5. TablesBound(p, mles, prefix, free)
  BY <1>1, <1>3, <1>4 DEF TablesBound, n, k
<1>6. \A x \in Field : PartialSum(p, prefix \o <<x>>) = ProductsAt(p, mles, free, x)
  BY <1>5, PartialSumAt
<1>7. RoundAt(p, prefix) = [x \in Field |-> ProductsAt(p, mles, free, x)]
  BY <1>6 DEF RoundAt
<1>8. DegreeAtMost(RoundAt(p, prefix), p.aux_info.max_degree)
  BY <1>5, <1>7, ProductsDegree
<1>9. p.aux_info.max_degree \in Nat /\ p.aux_info.max_degree < P
  BY <1>5, ProductsFit
<1> QED BY <1>8, <1>9 DEF RoundAt

---------------------------------------------------------------------------
(* Luck is rare.                                                           *)

MessagesRead == \A k \in DOMAIN Received : Received[k] \in Message

LEMMA InitMessages == Init => MessagesRead
BY DEF Init, MessagesRead, Received, verifier_init

LEMMA StepMessages == ControlInv /\ MessagesRead /\ [Next]_vars => MessagesRead'
<1> SUFFICES ASSUME ControlInv, MessagesRead, [Next]_vars PROVE MessagesRead'
  OBVIOUS
<1>1. ASSUME NEW m \in Message, VerifyRound(m)
      PROVE  MessagesRead'
  <2>1. Received' = Append(Received, m)
    BY <1>1 DEF VerifyRound, VerifierRound, Received, ControlInv, Shape, VerifierShape
  <2>2. IsSeq(Received)
    BY DEF ControlInv, Shape, VerifierShape
  <2>3. /\ DOMAIN Received = 1 .. Len(Received) /\ Len(Received) \in Nat
        /\ DOMAIN Received' = 1 .. Len(Received) + 1
        /\ Received'[Len(Received) + 1] = m
        /\ \A k \in 1 .. Len(Received) : Received'[k] = Received[k]
    BY <2>1, <2>2, AppendIsSeq
  <2>4. ASSUME NEW k \in 1 .. Len(Received) + 1
        PROVE  Received'[k] \in Message
    <3>1. k \in 1 .. Len(Received) \/ k = Len(Received) + 1
      BY <2>3
    <3> QED BY <2>3, <3>1 DEF MessagesRead
  <2> QED BY <2>3, <2>4 DEF MessagesRead
<1>2. ASSUME UNCHANGED verifier_state
      PROVE  MessagesRead'
  BY <1>2 DEF MessagesRead, Received
<1> QED BY <1>1, <1>2
        DEF Next, ProveBegin, ProveRound, ProveEnd, VerifyBegin, VerifyIncomplete,
            VerifyEnd, proverVars, verifierVars, inputs, vars

LuckInv == ControlInv /\ AcceptedInv /\ MessagesRead

LEMMA LuckInvGivesRare == LuckInv => LuckIsRare
<1> SUFFICES ASSUME LuckInv, SameAux, result.kind = "ok", NEW k \in DOMAIN Received,
                    Received[k] # RoundPolynomial(Prefix(k))
             PROVE  Cardinality(LuckyChallenges(k)) <= Degree
  BY DEF LuckIsRare
<1> DEFINE d == poly.aux_info.max_degree
           m == Received[k]
           prefix == Prefix(k)
           g == RoundAt(poly, prefix)
           Z == LuckyChallenges(k)
<1>1. /\ IsPolynomial(poly) /\ IsSeq(Received) /\ Chs \in Seq(Challenge)
      /\ Len(Chs) = Len(Received) /\ Len(Received) = poly.aux_info.num_variables
      /\ Malformed(verifier_state) = {}
      /\ verifier_state.max_degree = d
  BY DEF LuckInv, ControlInv, Shape, VerifierShape, TypeOK, AcceptedInv, SameAux, Chs
<1>2. k \in 1 .. Len(Received) /\ Len(Received) \in Nat
  BY <1>1, LenProperties DEF IsSeq
<1>3. prefix \in Seq(Field) /\ Len(prefix) = k - 1
  <2>1. Chs \in Seq(Field)
    BY <1>1, InputAssumption
  <2>2. prefix = SubSeq(Chs, 1, k-1)
    BY DEF Prefix, Chs
  <2>3. 1 \in 1 .. Len(Chs) + 1 /\ k-1 \in 0 .. Len(Chs) /\ 1 <= (k-1) + 1
        /\ (k-1) - 1 + 1 = k - 1
    BY <1>1, <1>2
  <2> HIDE DEF prefix
  <2> QED BY <2>1, <2>2, <2>3, Piece
<1>4. /\ d \in Nat /\ d < P
      /\ DegreeAtMost(g, d)
      /\ \A x \in Field : g[x] = PartialSum(poly, prefix \o <<x>>)
  <2>1. Len(prefix) < poly.aux_info.num_variables
    BY <1>1, <1>2, <1>3
  <2> HIDE DEF prefix
  <2> QED BY <1>1, <1>3, <2>1, RoundAtFacts
<1>5. DOMAIN m = 0 .. d /\ m \in [DOMAIN m -> Field]
  <2>1. m \in Message
    BY DEF LuckInv, MessagesRead
  <2>2. WellFormed(m, d)
    <3>1. k \notin Malformed(verifier_state) /\ k \in DOMAIN verifier_state.polynomials_received
      BY <1>1 DEF Received
    <3> QED BY <1>1, <3>1 DEF Malformed, Received
  <2> QED BY <2>1, <2>2, MessageAssumption DEF WellFormed
<1>6. \A j \in 0 .. d : FromInt(j) = j /\ j \in Field
  BY <1>4, Nodes
<1>7. Z = {r \in Field \ (0 .. d) :
             interpolate_uni_poly(m, d, r) = PartialSum(poly, prefix \o <<r>>)}
  <2>1. {FromInt(j) : j \in 0 .. d} = 0 .. d
    BY <1>6
  <2>2. Z = {r \in Field \ {FromInt(j) : j \in 0 .. d} :
               interpolate_uni_poly(m, d, r) = PartialSum(poly, prefix \o <<r>>)}
    BY DEF LuckyChallenges, Degree
  <2> HIDE DEF Z, m, prefix, d
  <2> QED BY <2>1, <2>2
<1>8. Z \in SUBSET Field /\ Cardinality(Z) \in Nat
  <2>1. Z \in SUBSET Field
    BY <1>7
  <2> HIDE DEF Z
  <2> QED BY <2>1, FieldFinite
<1>9. \A z \in Z : z \notin 0 .. d /\ interpolate_uni_poly(m, d, z) = g[z]
  BY <1>4, <1>7
<1>10. SUFFICES ASSUME Cardinality(Z) >= d + 1 PROVE FALSE
  BY <1>4, <1>8 DEF Degree
<1>11. \A t \in 0 .. d : m[t] \in Field
  BY <1>5
<1>12. m # [t \in 0 .. d |-> PartialSum(poly, prefix \o <<FromInt(t)>>)]
  BY DEF RoundPolynomial, Degree
<1> HIDE DEF Z, m, prefix, d, g
<1>13. \A t \in 0 .. d : m[t] = g[t]
  BY <1>4, <1>8, <1>9, <1>10, <1>11, FewLucky
<1>14. \A t \in 0 .. d : m[t] = PartialSum(poly, prefix \o <<FromInt(t)>>)
  BY <1>4, <1>6, <1>13
<1>15. m = [t \in 0 .. d |-> m[t]]
  BY <1>5
<1>16. m = [t \in 0 .. d |-> PartialSum(poly, prefix \o <<FromInt(t)>>)]
  BY <1>14, <1>15
<1> QED BY <1>12, <1>16

\* In every accepted proof, of any polynomial and over any field, a message
\* that is not the one its round asks for passes at no more than max_degree
\* challenges (SumCheck, LuckIsRare).
THEOREM LuckIsRareAlways == Spec => []LuckIsRare
<1>1. Init => LuckInv
  BY InitControl, InitAccepted, InitMessages DEF LuckInv
<1>2. LuckInv /\ [Next]_vars => LuckInv'
  BY StepControl, StepAccepted, StepMessages DEF LuckInv
<1> QED BY <1>1, <1>2, LuckInvGivesRare, PTL DEF Spec

---------------------------------------------------------------------------
(* Every message written is the sum of its round.                          *)

Filling(g, fam, n, point) ==
  g = [i \in 0 .. Len(point) |->
         IF i = 0 THEN fam
         ELSE fix_one_variable_helper(g[i-1], n - (i-1), point[i])]

LEMMA FixIsFilling ==
  ASSUME NEW fam, NEW n, NEW point, NEW g, Filling(g, fam, n, point)
  PROVE  \E h : Filling(h, fam, n, point) /\ fix_variables(fam, n, point) = h[Len(point)]
<1> DEFINE h == CHOOSE h : Filling(h, fam, n, point)
<1>1. Filling(h, fam, n, point)
  OBVIOUS
<1>2. fix_variables(fam, n, point) = (CHOOSE h1 : Filling(h1, fam, n, point))[Len(point)]
  BY DEF fix_variables, Filling
<1> HIDE DEF h
<1> QED BY <1>1, <1>2 DEF h

LEMMA FixNone ==
  ASSUME NEW fam, NEW n
  PROVE  fix_variables(fam, n, <<>>) = fam
<1>1. Len(<<>>) = 0 /\ 0 .. 0 = {0}
  OBVIOUS
<1>2. Filling([i \in {0} |-> fam], fam, n, <<>>)
  BY <1>1 DEF Filling
<1>3. PICK h : Filling(h, fam, n, <<>>) /\ fix_variables(fam, n, <<>>) = h[Len(<<>>)]
  BY <1>2, FixIsFilling
<1>4. h[0] = fam
  BY <1>1, <1>3 DEF Filling
<1> QED BY <1>1, <1>3, <1>4

LEMMA FixOne ==
  ASSUME Parallel, NEW fam, NEW m \in Nat, NEW c
  PROVE  fix_variables(fam, m+1, <<c>>) = Blended(fam, m, c)
<1> DEFINE point == <<c>>
           b == fix_one_variable_helper(fam, m+1, c)
           g == [i \in 0 .. 1 |-> IF i = 0 THEN fam ELSE b]
<1>1. Len(point) = 1 /\ point[1] = c /\ m+1 - (1-1) = m+1 /\ m+1-1 = m
  OBVIOUS
<1>2. b = Blended(fam, m, c)
  BY <1>1 DEF fix_one_variable_helper, Blended
<1>3. g[0] = fam /\ g[1] = b
  OBVIOUS
<1> HIDE DEF b, point
<1>4. Filling(g, fam, m+1, point)
  <2>1. \A i \in 0 .. 1 : i = 0 \/ i = 1
    OBVIOUS
  <2>2. ASSUME NEW i \in 0 .. 1
        PROVE  g[i] = IF i = 0 THEN fam
                      ELSE fix_one_variable_helper(g[i-1], m+1 - (i-1), point[i])
    <3>1. CASE i = 0
      BY <1>3, <3>1
    <3>2. CASE i = 1
      <4>1. i - 1 = 0 /\ m+1 - (i-1) = m+1 /\ point[i] = c /\ g[i-1] = fam /\ g[i] = b
        BY <1>1, <1>3, <3>2
      <4> QED BY <3>2, <4>1 DEF b
    <3> QED BY <2>1, <3>1, <3>2
  <2>3. g = [i \in 0 .. 1 |-> g[i]]
    OBVIOUS
  <2> HIDE DEF g
  <2>4. g = [i \in 0 .. 1 |->
               IF i = 0 THEN fam
               ELSE fix_one_variable_helper(g[i-1], m+1 - (i-1), point[i])]
    BY <2>2, <2>3
  <2> QED BY <1>1, <2>4 DEF Filling
<1> HIDE DEF g
<1>5. PICK h : Filling(h, fam, m+1, point) /\ fix_variables(fam, m+1, point) = h[Len(point)]
  BY <1>4, FixIsFilling
<1>6. h[0] = fam
  BY <1>1, <1>5 DEF Filling
<1>7. h[1] = fix_one_variable_helper(h[0], m+1, c)
  <2>1. h[1] = fix_one_variable_helper(h[1-1], m+1 - (1-1), point[1])
    BY <1>1, <1>5 DEF Filling
  <2>2. 1 - 1 = 0
    OBVIOUS
  <2> QED BY <1>1, <2>1, <2>2
<1> QED BY <1>1, <1>2, <1>5, <1>6, <1>7 DEF b, point

LEMMA PrefixAppend ==
  ASSUME NEW S, NEW s \in Seq(S), NEW e \in S
  PROVE  /\ SubSeq(s, 1, Len(s)) = s
         /\ \A k \in 0 .. Len(s) : SubSeq(s \o <<e>>, 1, k) = SubSeq(s, 1, k)
<1>1. s \o <<e>> \in Seq(S) /\ Len(s \o <<e>>) = Len(s) + 1 /\ Len(s) \in Nat
  OBVIOUS
<1>2. \A i \in 1 .. Len(s) : (s \o <<e>>)[i] = s[i]
  OBVIOUS
<1>3. SubSeq(s, 1, Len(s)) = s
  OBVIOUS
<1>4. ASSUME NEW k \in 0 .. Len(s)
      PROVE  SubSeq(s \o <<e>>, 1, k) = SubSeq(s, 1, k)
  <2> DEFINE a == SubSeq(s \o <<e>>, 1, k)
             b == SubSeq(s, 1, k)
  <2>1. /\ 1 \in 1 .. Len(s) + 1 /\ 1 \in 1 .. Len(s \o <<e>>) + 1
        /\ k \in 0 .. Len(s \o <<e>>) /\ 1 <= k + 1 /\ k - 1 + 1 = k /\ k \in Nat
    BY <1>1
  <2>2. a \in Seq(S) /\ Len(a) = k /\ \A j \in 1 .. k : a[j] = (s \o <<e>>)[1 + j - 1]
    BY <1>1, <2>1, Piece
  <2>3. b \in Seq(S) /\ Len(b) = k /\ \A j \in 1 .. k : b[j] = s[1 + j - 1]
    BY <1>1, <2>1, Piece
  <2> HIDE DEF a, b
  <2>4. \A j \in 1 .. k : 1 + j - 1 = j /\ j \in 1 .. Len(s)
    BY <1>1
  <2>5. \A j \in 1 .. k : a[j] = b[j]
    BY <1>2, <2>2, <2>3, <2>4
  <2>6. a = b
    BY <2>2, <2>3, <2>5, SeqEqual
  <2> QED BY <2>6 DEF a, b
<1> QED BY <1>3, <1>4

\* In a round the tables are those of poly with the challenges before the
\* last one bound.
TablesHold ==
  /\ phase = "prove" => prover_state.mles = poly.mles
  /\ phase = "proving" =>
       /\ DOMAIN prover_state.mles = DOMAIN poly.mles
       /\ \A i \in DOMAIN poly.mles :
            Binds(prover_state.mles[i], poly.mles[i], prover_state.challenges,
                  poly.aux_info.num_variables - Len(prover_state.challenges))

\* Every message written so far is the sum its round asks for.
ProofsHold ==
  \A i \in 1 .. Len(proof.proofs) :
    proof.proofs[i] = RoundPolynomial(SubSeq(Drawn, 1, i-1))

\* The proof returned has a challenge for every message.
PointHolds ==
  phase \notin {"prove", "proving"} => Len(proof.point) = Len(proof.proofs)

\* What became of a proof of full length is what the deferred checks say.
Decided ==
  (phase = "done" /\ Received # <<>> /\ Len(Received) = aux_info.num_variables)
  => result \in check_and_generate_subclaim(verifier_state, claimed_sum)

RoundsInv == ControlInv /\ TablesHold /\ ProofsHold /\ PointHolds /\ Decided

LEMMA PolyTypes ==
  ASSUME IsPolynomial(poly)
  PROVE  /\ poly.aux_info.num_variables \in Nat
         /\ DOMAIN poly.mles = 1 .. Len(poly.mles)
         /\ \A i \in DOMAIN poly.mles : poly.mles[i] \in Table(poly.aux_info.num_variables)
<1> DEFINE n == poly.aux_info.num_variables
<1>1. poly.aux_info \in AuxInfo
      /\ poly.mles \in Seq(Table(n))
  BY DEF IsPolynomial
<1>2. n \in Nat
  BY <1>1 DEF AuxInfo
<1> HIDE DEF n
<1>3. DOMAIN poly.mles = 1 .. Len(poly.mles)
      /\ \A i \in DOMAIN poly.mles : poly.mles[i] \in Table(n)
  BY <1>1, LenProperties, ElementOfSeq
<1> QED BY <1>2, <1>3 DEF n

LEMMA InitRounds == Init => RoundsInv
<1> SUFFICES ASSUME Init PROVE RoundsInv
  OBVIOUS
<1>1. ControlInv
  BY InitControl
<1>2. phase \in {"prove", "forge"} /\ Len(<<>>) = 0
  BY InputAssumption DEF Init
<1>3. TablesHold /\ ProofsHold /\ PointHolds /\ Decided
  BY <1>2 DEF Init, TablesHold, ProofsHold, PointHolds, Decided, prover_init
<1> QED BY <1>1, <1>3 DEF RoundsInv

\* One round of the prover over tables that hold.
LEMMA RoundHolds ==
  ASSUME Parallel, ControlInv, TablesHold, phase = "proving",
         Accepts(poly, prover_state, challenge)
  PROVE  LET state == ProverRound(poly, prover_state, challenge)
             free  == poly.aux_info.num_variables - state.round
         IN  TablesBound(poly, state.mles, state.challenges, free)
<1> DEFINE n == poly.aux_info.num_variables
           r == prover_state.round
           s == prover_state.challenges
           T == prover_state.mles
           state == ProverRound(poly, prover_state, challenge)
           free == n - state.round
<1>1. /\ IsPolynomial(poly) /\ r \in Nat /\ s \in Seq(Challenge)
      /\ challenge \in Seq(Challenge)
      /\ Len(challenge) = IF r = 0 THEN 0 ELSE 1
      /\ Len(s) = IF r = 0 THEN 0 ELSE r - 1
  BY DEF ControlInv, Shape, ProverShape, Progress
<1>2. n \in Nat /\ r < n
  BY <1>1, PolyTypes DEF Accepts, Active
<1>3. /\ DOMAIN T = DOMAIN poly.mles
      /\ \A i \in DOMAIN poly.mles : Binds(T[i], poly.mles[i], s, n - Len(s))
  BY DEF TablesHold
<1>4. /\ state.round = r + 1 /\ state.challenges = s \o challenge
      /\ state.mles = [i \in DOMAIN T |-> fix_variables(T[i], n - Len(s), challenge)]
  BY DEF ProverRound
<1>5. s \in Seq(Field) /\ challenge \in Seq(Field)
  <2>1. Challenge \subseteq Field
    BY InputAssumption
  <2> QED BY <1>1, <2>1
<1> HIDE DEF n, r, s, T, state
<1>6. free \in Nat /\ free + 1 = n - r /\ free = n - r - 1
  BY <1>1, <1>2, <1>4
<1>7. s \o challenge \in Seq(Field) /\ Len(s \o challenge) = r
  <2>1. s \o challenge \in Seq(Field) /\ Len(s \o challenge) = Len(s) + Len(challenge)
    BY <1>5, ConcatProperties
  <2> QED BY <1>1, <2>1
<1>8. ASSUME NEW i \in DOMAIN poly.mles
      PROVE  Binds(state.mles[i], poly.mles[i], s \o challenge, free + 1)
  <2>1. state.mles[i] = fix_variables(T[i], n - Len(s), challenge)
    BY <1>3, <1>4
  <2>2. Binds(T[i], poly.mles[i], s, n - Len(s))
    BY <1>3
  <2>3. CASE r = 0
    <3>1. s = <<>> /\ challenge = <<>>
      BY <1>1, <1>5, <2>3, EmptySeq
    <3>2. s \o challenge = s /\ n - Len(s) = free + 1
      BY <1>1, <1>2, <1>6, <2>3, <3>1
    <3>3. fix_variables(T[i], n - Len(s), challenge) = T[i]
      BY <3>1, FixNone
    <3> QED BY <2>1, <2>2, <3>2, <3>3
  <2>4. CASE r # 0
    <3>1. PICK c \in Field : challenge = <<c>>
      <4>1. Len(challenge) = 1
        BY <1>1, <2>4
      <4>2. challenge[1] \in Field
        <5>1. 1 \in 1 .. Len(challenge)
          BY <4>1
        <5> QED BY <1>5, <5>1, ElementOfSeq
      <4>3. challenge = <<challenge[1]>>
        BY <1>5, <4>1
      <4> QED BY <4>2, <4>3
    <3>2. n - Len(s) = (free + 1) + 1
      BY <1>1, <1>2, <1>6, <2>4
    <3>3. Binds(T[i], poly.mles[i], s, (free + 1) + 1)
      BY <2>2, <3>2
    <3>4. free + 1 \in Nat
      BY <1>6
    <3> HIDE DEF free
    <3>5. fix_variables(T[i], (free + 1) + 1, <<c>>) = Blended(T[i], free + 1, c)
      BY <3>4, FixOne
    <3>6. Binds(Blended(T[i], free + 1, c), poly.mles[i], s \o <<c>>, free + 1)
      BY <1>5, <3>3, <3>4, BindsNext
    <3> QED BY <2>1, <3>1, <3>2, <3>5, <3>6
  <2> QED BY <2>3, <2>4
<1>9. n = Len(s \o challenge) + (free + 1)
  BY <1>2, <1>6, <1>7
<1>10. DOMAIN state.mles = DOMAIN poly.mles
  BY <1>3, <1>4
<1> HIDE DEF free
<1>11. TablesBound(poly, state.mles, s \o challenge, free)
  BY <1>1, <1>6, <1>7, <1>8, <1>9, <1>10 DEF TablesBound, n
<1> QED BY <1>4, <1>11 DEF state, free, n

LEMMA ProveRoundKeeps ==
  ASSUME Parallel, RoundsInv, ProveRound
  PROVE  TablesHold' /\ ProofsHold'
<1> DEFINE state == ProverRound(poly, prover_state, challenge)
           n == poly.aux_info.num_variables
           free == n - state.round
           msg == RoundMessage(poly, state.mles, free)
           before == prover_state.challenges \o challenge
           k == Len(proof.proofs)
<1>1. /\ phase = "proving" /\ phase' = "proving" /\ UNCHANGED poly
      /\ Accepts(poly, prover_state, challenge)
      /\ prover_state' = state
      /\ proof' = [proof EXCEPT !.proofs = Append(@, msg)]
  BY DEF ProveRound, inputs
<1>2. PICK c : /\ challenge' = <<c>>
               /\ \E q : c \in Answers(oracle, q)
  BY DEF ProveRound
<1>3. ControlInv /\ TablesHold /\ ProofsHold
  BY DEF RoundsInv
<1>4. c \in Challenge
  BY <1>2, <1>3, DrawIsChallenge DEF ControlInv, Shape
<1>5. TablesBound(poly, state.mles, state.challenges, free)
  BY <1>1, <1>3, RoundHolds
<1>6. state.challenges = before /\ state.round = prover_state.round + 1
  BY DEF ProverRound
<1>7. /\ IsPolynomial(poly) /\ prover_state.round \in Nat /\ prover_state.round = k
      /\ prover_state.challenges \in Seq(Challenge) /\ challenge \in Seq(Challenge)
      /\ Len(prover_state.challenges) + Len(challenge) = prover_state.round
      /\ IsSeq(proof.proofs) /\ proof = [point |-> proof.point, proofs |-> proof.proofs]
  BY <1>1, <1>3 DEF ControlInv, Shape, ProverShape, Progress, TypeOK
<1>8. before \in Seq(Challenge) /\ Len(before) = k
  BY <1>7
<1>9. Drawn = before /\ Drawn' = before \o <<c>>
  BY <1>1, <1>2, <1>6 DEF Drawn
<1> HIDE DEF state, n, free, before
<1>10. msg = RoundPolynomial(before)
  <2>1. msg = RoundOf(poly, state.challenges)
    BY <1>5, RoundMessageIsSum
  <2> QED BY <1>6, <2>1 DEF RoundOf, RoundPolynomial, Degree
<1> HIDE DEF msg
<1>11. TablesHold'
  <2>1. /\ DOMAIN state.mles = DOMAIN poly.mles
        /\ n = Len(state.challenges) + (free + 1) /\ free \in Nat
        /\ state.challenges \in Seq(Field)
        /\ \A i \in DOMAIN poly.mles :
             Binds(state.mles[i], poly.mles[i], state.challenges, free + 1)
    BY <1>5 DEF TablesBound, n
  <2>2. free + 1 = n - Len(state.challenges)
    BY <2>1, LenProperties
  <2>3. \A i \in DOMAIN poly.mles :
          Binds(state.mles[i], poly.mles[i], state.challenges, n - Len(state.challenges))
    BY <2>1, <2>2
  <2> QED BY <1>1, <2>1, <2>3 DEF TablesHold, n
<1>12. proof'.proofs = Append(proof.proofs, msg)
  BY <1>1, <1>7
<1>13. /\ Len(proof'.proofs) = k + 1 /\ proof'.proofs[k + 1] = msg /\ k \in Nat
       /\ \A i \in 1 .. k : proof'.proofs[i] = proof.proofs[i]
  BY <1>7, <1>12, AppendIsSeq
<1>14. ASSUME NEW i \in 1 .. k + 1
       PROVE  proof'.proofs[i] = RoundPolynomial(SubSeq(Drawn', 1, i-1))
  <2> HIDE DEF k
  <2>0. /\ SubSeq(before, 1, Len(before)) = before
        /\ \A j \in 0 .. Len(before) : SubSeq(before \o <<c>>, 1, j) = SubSeq(before, 1, j)
    BY <1>4, <1>8, PrefixAppend
  <2>1. i - 1 \in 0 .. Len(before)
    BY <1>8, <1>13
  <2>2. SubSeq(Drawn', 1, i-1) = SubSeq(before, 1, i-1)
    BY <1>9, <2>0, <2>1
  <2>3. CASE i = k + 1
    <3>1. i - 1 = Len(before)
      BY <1>8, <1>13, <2>3
    <3> QED BY <1>10, <1>13, <2>0, <2>2, <2>3, <3>1
  <2>4. CASE i \in 1 .. k
    <3>1. proof.proofs[i] = RoundPolynomial(SubSeq(Drawn, 1, i-1))
      BY <1>3, <2>4 DEF ProofsHold, k
    <3> QED BY <1>9, <1>13, <2>2, <2>4, <3>1
  <2> QED BY <1>13, <2>3, <2>4
<1>15. \A prefix : RoundPolynomial(prefix)' = RoundPolynomial(prefix)
  BY <1>1 DEF RoundPolynomial, Degree
<1>16. \A i \in 1 .. Len(proof'.proofs) :
         proof'.proofs[i] = RoundPolynomial(SubSeq(Drawn, 1, i-1))'
  <2> SUFFICES ASSUME NEW i \in 1 .. Len(proof'.proofs)
               PROVE  proof'.proofs[i] = RoundPolynomial(SubSeq(Drawn, 1, i-1))'
    OBVIOUS
  <2>1. proof'.proofs[i] = RoundPolynomial(SubSeq(Drawn', 1, i-1))
    BY <1>13, <1>14
  <2> QED BY <1>1, <2>1 DEF RoundPolynomial, Degree
<1> QED BY <1>11, <1>16 DEF ProofsHold

\* Outside the prover's rounds its messages and challenges stay.
LEMMA ProofsStay ==
  ASSUME ProofsHold, UNCHANGED <<poly, proof.proofs, Drawn>>
  PROVE  ProofsHold'
<1> SUFFICES ASSUME NEW i \in 1 .. Len(proof'.proofs)
             PROVE  proof'.proofs[i] = RoundPolynomial(SubSeq(Drawn, 1, i-1))'
  BY DEF ProofsHold
<1>1. proof'.proofs[i] = RoundPolynomial(SubSeq(Drawn, 1, i-1))
  BY DEF ProofsHold
<1> QED BY <1>1 DEF RoundPolynomial, Degree

\* When prove returns, every message has its challenge in the point.
LEMMA StepPoint == ControlInv /\ PointHolds /\ [Next]_vars => PointHolds'
<1> SUFFICES ASSUME ControlInv, PointHolds, [Next]_vars PROVE PointHolds'
  OBVIOUS
<1>1. CASE ProveBegin
  <2>1. phase = "prove" /\ proof' = proof
    BY <1>1 DEF ProveBegin
  <2>2. Len(proof.proofs) = 0 /\ proof.point = <<>>
    BY <2>1 DEF ControlInv, Progress, TypeOK
  <2> QED BY <2>1, <2>2 DEF PointHolds
<1>2. CASE ProveRound
  BY <1>2 DEF ProveRound, PointHolds
<1>3. CASE ProveEnd
  <2>1. /\ phase = "proving"
        /\ prover_state' = [prover_state EXCEPT !.challenges = @ \o challenge]
        /\ proof' = [proof EXCEPT !.point = prover_state'.challenges]
    BY <1>3 DEF ProveEnd
  <2>2. /\ proof = [point |-> proof.point, proofs |-> proof.proofs]
        /\ prover_state =
             [round |-> prover_state.round, challenges |-> prover_state.challenges,
              mles |-> prover_state.mles]
        /\ prover_state.round \in Nat /\ prover_state.round = Len(proof.proofs)
        /\ prover_state.challenges \in Seq(Challenge) /\ challenge \in Seq(Challenge)
        /\ Len(challenge) = IF prover_state.round = 0 THEN 0 ELSE 1
        /\ Len(prover_state.challenges) =
             IF prover_state.round = 0 THEN 0 ELSE prover_state.round - 1
    BY <2>1 DEF ControlInv, Shape, ProverShape, Progress, TypeOK
  <2>3. proof'.proofs = proof.proofs
        /\ proof'.point = prover_state.challenges \o challenge
    BY <2>1, <2>2
  <2>4. Len(prover_state.challenges \o challenge)
          = Len(prover_state.challenges) + Len(challenge)
    BY <2>2, ConcatProperties
  <2>5. Len(proof'.point) = Len(proof'.proofs)
    BY <2>2, <2>3, <2>4
  <2> QED BY <2>5 DEF PointHolds
<1>4. ASSUME phase \notin {"prove", "proving"} \/ phase' = phase, proof' = proof
      PROVE  PointHolds'
  BY <1>4 DEF PointHolds
<1>5. CASE VerifyBegin
  BY <1>4, <1>5 DEF VerifyBegin, proverVars
<1>6. CASE \E m \in Message : VerifyRound(m)
  BY <1>4, <1>6 DEF VerifyRound, proverVars
<1>7. CASE VerifyIncomplete
  BY <1>4, <1>7 DEF VerifyIncomplete, proverVars
<1>8. CASE VerifyEnd
  BY <1>4, <1>8 DEF VerifyEnd, proverVars
<1>9. CASE UNCHANGED vars
  BY <1>4, <1>9 DEF vars
<1> QED BY <1>1, <1>2, <1>3, <1>5, <1>6, <1>7, <1>8, <1>9 DEF Next

LEMMA StepRounds == Parallel /\ RoundsInv /\ [Next]_vars => RoundsInv'
<1> SUFFICES ASSUME Parallel, RoundsInv, [Next]_vars PROVE RoundsInv'
  OBVIOUS
<1>0. ControlInv /\ ControlInv'
  BY StepControl DEF RoundsInv
<1>a. TablesHold /\ ProofsHold /\ PointHolds /\ Decided /\ IsPolynomial(poly)
  BY DEF RoundsInv, ControlInv, Shape
<1>1. CASE ProveBegin
  <2>1. /\ phase = "prove" /\ phase' \in {"proving", "done"}
        /\ UNCHANGED <<poly, prover_state, challenge, proof, verifier_state>>
    BY <1>1 DEF ProveBegin, inputs, verifierVars
  <2>2. /\ proof.proofs = <<>> /\ proof.point = <<>>
        /\ prover_state.challenges = <<>> /\ Received = <<>>
    <3>1. Len(proof.proofs) = 0 /\ IsSeq(proof.proofs)
      BY <1>0, <2>1 DEF ControlInv, Shape, ProverShape, Progress, TypeOK
    <3>2. proof.proofs = <<>>
      BY <3>1, EmptySeq DEF IsSeq
    <3> QED BY <1>0, <2>1, <3>2 DEF ControlInv, Progress
  <2>3. TablesHold'
    <3>2. \A i \in DOMAIN poly.mles :
            Binds(poly.mles[i], poly.mles[i], <<>>, poly.aux_info.num_variables)
      BY <1>a, PolyTypes, BindsNothing
    <3>3. poly.aux_info.num_variables - Len(<<>>) = poly.aux_info.num_variables
      BY <1>a, PolyTypes
    <3> QED BY <1>a, <2>1, <2>2, <3>2, <3>3 DEF TablesHold
  <2>4. ProofsHold' /\ PointHolds' /\ Decided'
    BY <2>1, <2>2 DEF ProofsHold, PointHolds, Decided, Received
  <2> QED BY <1>0, <2>3, <2>4 DEF RoundsInv
<1>2. CASE ProveRound
  <2>1. phase' = "proving"
    BY <1>2 DEF ProveRound
  <2>2. PointHolds' /\ Decided'
    BY <2>1 DEF PointHolds, Decided
  <2> QED BY <1>0, <1>2, <2>2, ProveRoundKeeps DEF RoundsInv
<1>3. CASE ProveEnd
  <2>1. /\ phase = "proving" /\ phase' = "proved"
        /\ UNCHANGED <<poly, challenge>>
        /\ ~ Active(poly, prover_state)
        /\ prover_state' = [prover_state EXCEPT !.challenges = @ \o challenge]
        /\ proof' = [proof EXCEPT !.point = prover_state'.challenges]
    BY <1>3 DEF ProveEnd, inputs
  <2>2. /\ proof = [point |-> proof.point, proofs |-> proof.proofs]
        /\ prover_state =
             [round |-> prover_state.round, challenges |-> prover_state.challenges,
              mles |-> prover_state.mles]
    BY <1>0, <2>1 DEF ControlInv, Shape, ProverShape
  <2>3. proof'.proofs = proof.proofs
        /\ proof'.point = prover_state.challenges \o challenge
    BY <2>1, <2>2
  <2>4. Drawn' = Drawn
    BY <2>1, <2>3 DEF Drawn
  <2>5. PointHolds'
    BY <1>0, <1>a, StepPoint
  <2>6. ProofsHold'
    BY <1>a, <2>1, <2>3, <2>4, ProofsStay
  <2> QED BY <1>0, <2>1, <2>5, <2>6 DEF RoundsInv, TablesHold, Decided
<1>4. ASSUME phase \notin {"prove", "proving"}, phase' \notin {"prove", "proving", "done"},
             UNCHANGED <<poly, proof>>
      PROVE  RoundsInv'
  <2>1. ProofsHold'
    BY <1>a, <1>4, ProofsStay DEF Drawn
  <2> QED BY <1>0, <1>a, <1>4, <2>1 DEF RoundsInv, TablesHold, PointHolds, Decided
<1>5. ASSUME phase = "verifying", phase' = "done", UNCHANGED <<poly, proof>>, Decided'
      PROVE  RoundsInv'
  <2>1. ProofsHold'
    BY <1>a, <1>5, ProofsStay DEF Drawn
  <2> QED BY <1>0, <1>a, <1>5, <2>1 DEF RoundsInv, TablesHold, PointHolds
<1>6. CASE VerifyBegin
  BY <1>4, <1>6 DEF VerifyBegin, inputs, proverVars
<1>7. CASE \E m \in Message : VerifyRound(m)
  BY <1>4, <1>7 DEF VerifyRound, inputs, proverVars
<1>8. CASE VerifyIncomplete
  <2>1. /\ phase = "verifying" /\ phase' = "done" /\ Looping
        /\ UNCHANGED <<poly, aux_info, proof, verifier_state>>
    BY <1>8 DEF VerifyIncomplete, inputs, proverVars, verifierVars
  <2>2. Len(Received) < aux_info.num_variables
    <3>1. Len(Received) \in Nat /\ aux_info.num_variables \in Nat
      BY <1>0, ShapeTypes, SeqIsSeq DEF ControlInv, Shape, VerifierShape, IsSeq
    <3> QED BY <2>1, <3>1 DEF Looping, Iteration, Received
  <2>3. Len(Received)' = Len(Received) /\ Len(Received) # aux_info.num_variables
    BY <2>1, <2>2 DEF Received
  <2>4. Decided'
    BY <2>1, <2>3 DEF Decided
  <2> QED BY <1>5, <2>1, <2>4
<1>9. CASE VerifyEnd
  <2>1. /\ phase = "verifying" /\ phase' = "done"
        /\ result' \in check_and_generate_subclaim(verifier_state, claimed_sum)
        /\ UNCHANGED <<poly, claimed_sum, proof, verifier_state>>
    BY <1>9 DEF VerifyEnd, inputs, proverVars, verifierVars
  <2>2. UNCHANGED check_and_generate_subclaim(verifier_state, claimed_sum)
    BY <2>1
  <2>3. Decided'
    BY <2>1, <2>2 DEF Decided
  <2> QED BY <1>5, <2>1, <2>3
<1>10. CASE UNCHANGED vars
  <2>1. UNCHANGED <<poly, aux_info, claimed_sum, phase, prover_state, challenge, proof,
                    verifier_state, result>>
    BY <1>10 DEF vars
  <2>2. UNCHANGED <<TablesHold, ProofsHold, PointHolds, Decided>>
    <3>1. ProofsHold'
      BY <1>a, <2>1, ProofsStay DEF Drawn
    <3>2. UNCHANGED check_and_generate_subclaim(verifier_state, claimed_sum)
      BY <2>1
    <3> QED BY <1>a, <2>1, <3>1, <3>2 DEF TablesHold, PointHolds, Decided, Received
  <2> QED BY <1>0, <1>a, <2>2 DEF RoundsInv
<1> QED BY <1>1, <1>2, <1>3, <1>6, <1>7, <1>8, <1>9, <1>10 DEF Next

LEMMA RoundsInvariant == Parallel => (Spec => []RoundsInv)
<1> SUFFICES ASSUME Parallel PROVE Spec => []RoundsInv
  OBVIOUS
<1>1. Init => RoundsInv
  BY InitRounds
<1>2. RoundsInv /\ [Next]_vars => RoundsInv'
  BY StepRounds
<1> QED BY <1>1, <1>2, PTL DEF Spec

\* With the feature "parallel", what the prover computes in a round is the
\* sum over the original polynomial, for every polynomial whose degrees its
\* aux info covers and every run of challenges (SumCheck,
\* MessagesAreRoundSums).
THEOREM MessagesAreRoundSumsAlways == Parallel => (Spec => []MessagesAreRoundSums)
<1> SUFFICES ASSUME Parallel PROVE Spec => []MessagesAreRoundSums
  OBVIOUS
<1>1. RoundsInv => MessagesAreRoundSums
  <2> SUFFICES ASSUME RoundsInv, phase = "proving", proof.proofs # <<>>
               PROVE  proof.proofs[Len(proof.proofs)]
                        = RoundPolynomial(prover_state.challenges)
    BY DEF MessagesAreRoundSums
  <2> DEFINE k == Len(proof.proofs)
             s == prover_state.challenges
  <2>1. /\ IsSeq(proof.proofs) /\ k = prover_state.round /\ k \in Nat
        /\ s \in Seq(Challenge) /\ challenge \in Seq(Challenge)
        /\ Len(challenge) = IF k = 0 THEN 0 ELSE 1
        /\ Len(s) = IF k = 0 THEN 0 ELSE k - 1
    BY DEF RoundsInv, ControlInv, Shape, ProverShape, Progress, TypeOK
  <2>2. k # 0
    BY <2>1, EmptySeq DEF IsSeq
  <2>3. proof.proofs[k] = RoundPolynomial(SubSeq(Drawn, 1, k-1))
    BY <2>1, <2>2 DEF RoundsInv, ProofsHold
  <2>4. Drawn = s \o challenge
    BY DEF Drawn
  <2>5. SubSeq(s \o challenge, 1, k-1) = s
    <3> HIDE DEF k, s
    <3>1. challenge[1] \in Challenge /\ challenge = <<challenge[1]>>
      <4>1. Len(challenge) = 1 /\ 1 \in 1 .. Len(challenge)
        BY <2>1, <2>2
      <4>2. challenge[1] \in Challenge
        BY <2>1, <4>1, ElementOfSeq
      <4>3. challenge = <<challenge[1]>>
        BY <2>1, <4>1
      <4> QED BY <4>2, <4>3
    <3>2. PICK c \in Challenge : challenge = <<c>>
      BY <3>1
    <3>3. k - 1 = Len(s) /\ k - 1 \in 0 .. Len(s)
      BY <2>1, <2>2
    <3>4. /\ SubSeq(s, 1, Len(s)) = s
          /\ \A j \in 0 .. Len(s) : SubSeq(s \o <<c>>, 1, j) = SubSeq(s, 1, j)
      BY <2>1, PrefixAppend
    <3>5. SubSeq(s \o <<c>>, 1, k-1) = SubSeq(s, 1, k-1)
      BY <3>3, <3>4
    <3> QED BY <3>2, <3>3, <3>4, <3>5
  <2> QED BY <2>3, <2>4, <2>5
<1> QED BY <1>1, RoundsInvariant, PTL

\* A proof of full length, delivered as it was written, of a true sum.
Delivered ==
  /\ phase = "done" /\ SameAux
  /\ Received = proof.proofs
  /\ Len(Received) = aux_info.num_variables /\ Received # <<>>
  /\ claimed_sum = PartialSum(poly, <<>>)

\* The state of a verifier that read such a proof.
LEMMA DeliveredFacts ==
  ASSUME RoundsInv, ChallengesAgree, Delivered
  PROVE  LET n == poly.aux_info.num_variables
             d == poly.aux_info.max_degree
         IN  /\ IsPolynomial(poly) /\ n \in Nat \ {0} /\ d \in Nat /\ d < P
             /\ Chs = proof.point /\ Chs \in Seq(Field) /\ Len(Chs) = n
             /\ verifier_state.num_vars = n /\ verifier_state.max_degree = d
             /\ verifier_state.finished
             /\ DOMAIN Received = 1 .. n /\ Len(Received) = n
             /\ \A i \in 1 .. n : Received[i] = RoundOf(poly, SubSeq(Chs, 1, i-1))
<1> DEFINE n == poly.aux_info.num_variables
           d == poly.aux_info.max_degree
<1>1. ControlInv /\ ChallengesAgree /\ ProofsHold /\ PointHolds
  BY DEF RoundsInv
<1>2. /\ IsPolynomial(poly) /\ aux_info = poly.aux_info
      /\ phase = "done" /\ Received = proof.proofs /\ Len(Received) = n /\ Received # <<>>
      /\ IsSeq(Received) /\ Chs \in Seq(Challenge) /\ Len(Chs) = Len(Received)
      /\ proof.point \in Seq(Challenge)
      /\ verifier_state.num_vars = n /\ verifier_state.max_degree = d
  BY <1>1 DEF Delivered, SameAux, ControlInv, Shape, ProverShape, VerifierShape, TypeOK, Chs
<1>3. n \in Nat /\ n # 0 /\ DOMAIN Received = 1 .. n
  <2>1. n \in Nat /\ DOMAIN Received = 1 .. n
    BY <1>2, PolyTypes, LenProperties DEF IsSeq
  <2>2. n # 0
    BY <1>2, EmptySeq DEF IsSeq
  <2> QED BY <2>1, <2>2
<1>4. d \in Nat /\ d < P
  <2>1. poly.aux_info \in AuxInfo
    BY <1>2 DEF IsPolynomial
  <2> QED BY <1>2, <2>1 DEF IsPolynomial, AuxInfo
<1>5. verifier_state.finished
  BY <1>1, <1>2, <1>3 DEF ControlInv, TypeOK
<1>6. Len(proof.point) = n
  BY <1>1, <1>2 DEF PointHolds
<1>7. \A i \in 1 .. n : Chs[i] = proof.point[i]
  <2> SUFFICES ASSUME NEW i \in 1 .. n PROVE Chs[i] = proof.point[i]
    OBVIOUS
  <2>1. i \in 1 .. Len(Received) /\ i <= Len(proof.point)
        /\ \A j \in 1 .. i : Received[j] = proof.proofs[j]
    BY <1>2, <1>3, <1>6
  <2> QED BY <1>1, <1>2, <2>1 DEF ChallengesAgree, SameAux, Chs
<1>8. Chs = proof.point
  BY <1>2, <1>6, <1>7, SeqEqual
<1>9. Chs \in Seq(Field)
  <2>1. Challenge \subseteq Field
    BY InputAssumption
  <2> QED BY <1>2, <2>1
<1>10. Drawn = Chs
  BY <1>2, <1>8 DEF Drawn
<1>11. \A i \in 1 .. n : Received[i] = RoundOf(poly, SubSeq(Chs, 1, i-1))
  BY <1>1, <1>2, <1>10 DEF ProofsHold, RoundPolynomial, RoundOf, Degree
<1> QED BY <1>2, <1>3, <1>4, <1>5, <1>8, <1>9, <1>11

LEMMA RoundOfFacts ==
  ASSUME NEW p, IsPolynomial(p), NEW prefix \in Seq(Field),
         Len(prefix) < p.aux_info.num_variables
  PROVE  /\ DOMAIN RoundOf(p, prefix) = 0 .. p.aux_info.max_degree
         /\ p.aux_info.max_degree # 0 =>
              Opening(RoundOf(p, prefix)) = PartialSum(p, prefix)
         /\ \A r \in Field : r \notin 0 .. p.aux_info.max_degree =>
              interpolate_uni_poly(RoundOf(p, prefix), p.aux_info.max_degree, r)
                = PartialSum(p, prefix \o <<r>>)
<1> DEFINE d == p.aux_info.max_degree
           m == RoundOf(p, prefix)
           g == RoundAt(p, prefix)
<1>1. /\ DegreeAtMost(g, d) /\ d \in Nat /\ d < P
      /\ \A x \in Field : g[x] = PartialSum(p, prefix \o <<x>>)
  BY RoundAtFacts
<1>2. \A t \in 0 .. d : t \in Field /\ FromInt(t) = t
  BY <1>1, Nodes
<1>3. DOMAIN m = 0 .. d /\ \A t \in 0 .. d : m[t] = PartialSum(p, prefix \o <<t>>)
  BY <1>2 DEF RoundOf
<1>4. ASSUME d # 0
      PROVE  Opening(m) = PartialSum(p, prefix)
  <2>1. 0 \in 0 .. d /\ 1 \in 0 .. d
    BY <1>1, <1>4
  <2>2. m[0] = PartialSum(p, prefix \o <<0>>) /\ m[1] = PartialSum(p, prefix \o <<1>>)
    BY <1>3, <2>1
  <2> HIDE DEF m
  <2> QED BY <2>2, PartialSumSplits DEF Opening
<1> HIDE DEF m, g
<1>5. ASSUME NEW r \in Field, r \notin 0 .. d
      PROVE  interpolate_uni_poly(m, d, r) = PartialSum(p, prefix \o <<r>>)
  <2>1. \A t \in 0 .. d : m[t] = g[t]
    BY <1>1, <1>2, <1>3
  <2> HIDE DEF d
  <2>2. interpolate_uni_poly(m, d, r) = g[r]
    BY <1>1, <1>5, <2>1, InterpolateIsValue
  <2> QED BY <1>1, <2>2
<1> QED BY <1>3, <1>4, <1>5 DEF m

LEMMA PrefixGrows ==
  ASSUME NEW S, NEW s \in Seq(S), NEW i \in 1 .. Len(s)
  PROVE  /\ SubSeq(s, 1, i-1) \in Seq(S) /\ Len(SubSeq(s, 1, i-1)) = i - 1
         /\ s[i] \in S
         /\ SubSeq(s, 1, i-1) \o <<s[i]>> = SubSeq(s, 1, i)
<1> DEFINE a == SubSeq(s, 1, i-1)
           b == SubSeq(s, 1, i)
           c == <<s[i]>>
<1>1. /\ 1 \in 1 .. Len(s) + 1 /\ i-1 \in 0 .. Len(s) /\ i \in 0 .. Len(s)
      /\ 1 <= (i-1) + 1 /\ 1 <= i + 1
      /\ (i-1) - 1 + 1 = i - 1 /\ i - 1 + 1 = i /\ i \in Nat
  BY LenProperties
<1>2. a \in Seq(S) /\ Len(a) = i - 1 /\ \A j \in 1 .. i - 1 : a[j] = s[1 + j - 1]
  BY <1>1, Piece
<1>3. b \in Seq(S) /\ Len(b) = i /\ \A j \in 1 .. i : b[j] = s[1 + j - 1]
  BY <1>1, Piece
<1>4. s[i] \in S
  BY ElementOfSeq
<1>5. c \in Seq(S) /\ Len(c) = 1 /\ c[1] = s[i]
  BY <1>4
<1> HIDE DEF a, b, c
<1>6. /\ a \o c \in Seq(S) /\ Len(a \o c) = (i - 1) + 1
      /\ \A j \in 1 .. (i - 1) + 1 :
           (a \o c)[j] = IF j <= i - 1 THEN a[j] ELSE c[j - (i - 1)]
  <2>1. /\ a \o c \in Seq(S) /\ Len(a \o c) = Len(a) + Len(c)
        /\ \A j \in 1 .. Len(a) + Len(c) :
             (a \o c)[j] = IF j <= Len(a) THEN a[j] ELSE c[j - Len(a)]
    BY <1>2, <1>5, ConcatProperties
  <2>2. Len(a) = i - 1 /\ Len(c) = 1
    BY <1>2, <1>5
  <2> QED BY <2>1, <2>2
<1>7. (i - 1) + 1 = i
  BY <1>1
<1>8. ASSUME NEW j \in 1 .. i
      PROVE  (a \o c)[j] = b[j]
  <2>1. 1 + j - 1 = j /\ j \in 1 .. (i - 1) + 1
    BY <1>1
  <2>2. b[j] = s[j]
    BY <1>3, <2>1
  <2>3. CASE j <= i - 1
    <3>1. j \in 1 .. i - 1
      BY <1>1, <2>3
    <3> QED BY <1>2, <1>6, <2>1, <2>2, <2>3, <3>1
  <2>4. CASE ~ (j <= i - 1)
    <3>1. j = i /\ j - (i - 1) = 1
      BY <1>1, <2>4
    <3> QED BY <1>5, <1>6, <2>1, <2>2, <2>4, <3>1
  <2> QED BY <2>3, <2>4
<1>9. a \o c = b
  BY <1>3, <1>6, <1>7, <1>8, SeqEqual
<1> QED BY <1>2, <1>4, <1>9 DEF a, b, c

LEMMA RoundsInvGivesCompleteness == RoundsInv /\ ChallengesAgree => Completeness
<1> SUFFICES ASSUME RoundsInv, ChallengesAgree, Delivered
             PROVE  \/ result = SubClaim(proof.point, evaluate(poly, proof.point))
                    \/ result = Panic /\ (Degree = 0 \/ Degenerate(verifier_state) # {})
  BY DEF Completeness, Delivered
<1> DEFINE n == poly.aux_info.num_variables
           d == poly.aux_info.max_degree
           v == verifier_state
           before(i) == SubSeq(Chs, 1, i-1)
<1>1. /\ IsPolynomial(poly) /\ n \in Nat \ {0} /\ d \in Nat /\ d < P
      /\ Chs = proof.point /\ Chs \in Seq(Field) /\ Len(Chs) = n
      /\ v.num_vars = n /\ v.max_degree = d /\ v.finished
      /\ DOMAIN Received = 1 .. n /\ Len(Received) = n
      /\ \A i \in 1 .. n : Received[i] = RoundOf(poly, before(i))
  BY DeliveredFacts
<1>2. v.polynomials_received = Received /\ v.challenges = Chs
  BY DEF Received, Chs
<1>3. result \in check_and_generate_subclaim(v, claimed_sum)
      /\ claimed_sum = PartialSum(poly, <<>>)
  BY DEF RoundsInv, Decided, Delivered
<1> HIDE DEF n, d, v
<1>4. ASSUME NEW i \in 1 .. n
      PROVE  /\ before(i) \in Seq(Field) /\ Len(before(i)) = i - 1
             /\ Chs[i] \in Field
             /\ before(i) \o <<Chs[i]>> = SubSeq(Chs, 1, i)
  <2>1. i \in 1 .. Len(Chs) /\ Chs \in Seq(Field)
    BY <1>1
  <2>2. /\ SubSeq(Chs, 1, i-1) \in Seq(Field) /\ Len(SubSeq(Chs, 1, i-1)) = i - 1
        /\ Chs[i] \in Field
        /\ SubSeq(Chs, 1, i-1) \o <<Chs[i]>> = SubSeq(Chs, 1, i)
    BY <2>1, PrefixGrows
  <2> QED BY <2>2
<1> HIDE DEF before
<1>5. ASSUME NEW i \in 1 .. n
      PROVE  /\ WellFormed(Received[i], d)
             /\ d # 0 => Opening(Received[i]) = PartialSum(poly, before(i))
             /\ ~ IsNode(d, Chs[i]) =>
                  interpolate_uni_poly(Received[i], d, Chs[i])
                    = PartialSum(poly, SubSeq(Chs, 1, i))
  <2>a. n \in Nat
    BY <1>1
  <2>b. i - 1 < n
    BY <2>a
  <2>0. i - 1 < n /\ Len(before(i)) = i - 1
    BY <1>4, <2>b
  <2>1. Len(before(i)) < poly.aux_info.num_variables
    BY <2>0 DEF n
  <2>2. Received[i] = RoundOf(poly, before(i))
    BY <1>1
  <2>3. /\ DOMAIN Received[i] = 0 .. d
        /\ d # 0 => Opening(Received[i]) = PartialSum(poly, before(i))
        /\ \A r \in Field : r \notin 0 .. d =>
             interpolate_uni_poly(Received[i], d, r) = PartialSum(poly, before(i) \o <<r>>)
    <3>1. before(i) \in Seq(Field)
      BY <1>4
    <3>2. d = poly.aux_info.max_degree
      BY DEF d
    <3>3. PICK q : q = before(i)
      OBVIOUS
    <3> QED BY <1>1, <2>1, <2>2, <3>1, <3>2, <3>3, RoundOfFacts
  <2>4. ~ IsNode(d, Chs[i]) => Chs[i] \notin 0 .. d
    <3>1. \A j \in 0 .. d : FromInt(j) = j
      BY <1>1, Nodes
    <3> QED BY <3>1 DEF IsNode
  <2> QED BY <1>4, <2>3, <2>4 DEF WellFormed
<1>6. Malformed(v) = {}
  BY <1>1, <1>2, <1>5 DEF Malformed
<1>7. CASE Degenerate(v) # {}
  <2>1. result = Panic
    BY <1>1, <1>2, <1>3, <1>6, <1>7 DEF check_and_generate_subclaim, Err, Panic
  <2> QED BY <1>7, <2>1 DEF v
<1>8. CASE Degenerate(v) = {} /\ d = 0
  <2>1. result = Panic
    BY <1>1, <1>2, <1>3, <1>6, <1>8 DEF check_and_generate_subclaim
  <2> QED BY <1>8, <2>1 DEF d, Degree
<1>9. CASE Degenerate(v) = {} /\ d # 0
  <2>1. \A i \in 1 .. n : ~ IsNode(d, Chs[i])
    BY <1>1, <1>2, <1>5, <1>9 DEF Degenerate
  <2>2. ASSUME NEW i \in 1 .. n + 1
        PROVE  expected(v, claimed_sum, i) = PartialSum(poly, SubSeq(Chs, 1, i-1))
    <3>1. CASE i = 1
      <4>1. SubSeq(Chs, 1, 0) = <<>>
        <5>1. 0 \in 0 .. Len(Chs) /\ 1 \in 1 .. Len(Chs) + 1 /\ 1 <= 0 + 1 /\ 0 - 1 + 1 = 0
          BY <1>1
        <5>2. SubSeq(Chs, 1, 0) \in Seq(Field) /\ Len(SubSeq(Chs, 1, 0)) = 0
          BY <1>1, <5>1, Piece
        <5> QED BY <5>2, EmptySeq
      <4>2. i - 1 = 0
        BY <3>1
      <4>3. expected(v, claimed_sum, i) = claimed_sum
        BY <3>1 DEF expected
      <4> QED BY <1>3, <4>1, <4>2, <4>3
    <3>2. CASE i # 1
      <4>1. i - 1 \in 1 .. n
        BY <1>1, <3>2
      <4>2. expected(v, claimed_sum, i) = interpolate_uni_poly(Received[i-1], d, Chs[i-1])
        BY <1>1, <1>2, <3>2 DEF expected
      <4> QED BY <1>5, <2>1, <4>1, <4>2
    <3> QED BY <3>1, <3>2
  <2>3. Consistent(v, claimed_sum)
    <3> SUFFICES ASSUME NEW i \in 1 .. n
                 PROVE  Opening(Received[i]) = expected(v, claimed_sum, i)
      BY <1>1, <1>2 DEF Consistent
    <3>1. i \in 1 .. n + 1
      BY <1>1
    <3> QED BY <1>5, <1>9, <2>2, <3>1 DEF before
  <2>4. result = SubClaim(Chs, expected(v, claimed_sum, n + 1))
    BY <1>1, <1>2, <1>3, <1>6, <1>9, <2>3 DEF check_and_generate_subclaim
  <2>5. expected(v, claimed_sum, n + 1) = evaluate(poly, Chs)
    <3>1. n + 1 \in 1 .. n + 1 /\ (n + 1) - 1 = n
      BY <1>1
    <3>2. expected(v, claimed_sum, n + 1) = PartialSum(poly, SubSeq(Chs, 1, n))
      BY <2>2, <3>1
    <3>3. SubSeq(Chs, 1, n) = Chs
      BY <1>1
    <3>4. PartialSum(poly, Chs) = evaluate(poly, Chs)
      BY <1>1, PartialSumEnds DEF n
    <3> QED BY <3>2, <3>3, <3>4
  <2> QED BY <1>1, <2>4, <2>5
<1> QED BY <1>7, <1>8, <1>9

\* With the feature "parallel", a true sum of any such polynomial, proved
\* and delivered as it was written, is accepted with the subclaim that is
\* true of the polynomial at the prover's point, unless the verifier panics
\* at a constant or at a challenge that is a node (SumCheck, Completeness).
THEOREM CompletenessAlways == Parallel => (Spec => []Completeness)
BY RoundsInvariant, ChallengesAgreeAlways, RoundsInvGivesCompleteness, PTL
---------------------------------------------------------------------------
(***************************************************************************)
(* ZeroCheck.  The steps of SumCheck that it runs keep the invariants      *)
(* above; what is new is the vector r, the polynomial f_hat, and the       *)
(* control around the two calls.                                           *)
(***************************************************************************)


---------------------------------------------------------------------------
(* What a transcript holds after r is drawn, and what each coordinate was  *)
(* asked of the hash.                                                      *)

\* The label ZeroCheck draws r under.
ZeroLabel == "0check r"
CoordinateEntry(c) == <<ZeroLabel, c>>
CoordinateDraw == <<ZeroLabel>>

\* An oracle that knows at least what another one does.
Grows(o, o1) == \A q \in DOMAIN o : q \in DOMAIN o1 /\ o1[q] = o[q]

VectorLog(log, base, values) ==
  /\ IsSeq(log) /\ IsSeq(base)
  /\ Len(log) = Len(base) + Len(values)
  /\ \A k \in 1 .. Len(base) : log[k] = base[k]
  /\ \A i \in 1 .. Len(values) : log[Len(base) + i] = CoordinateEntry(values[i])

AsksCoordinate(q, base, values, i) ==
  /\ IsSeq(q)
  /\ Len(q) = Len(base) + i
  /\ \A k \in 1 .. Len(base) : q[k] = base[k]
  /\ \A j \in 1 .. i-1 : q[Len(base) + j] = CoordinateEntry(values[j])
  /\ q[Len(base) + i] = CoordinateDraw

VectorKnown(o, base, values) ==
  \A i \in 1 .. Len(values) : \E q \in DOMAIN o :
    AsksCoordinate(q, base, values, i) /\ o[q] = values[i]

\* A vector the transcript went on from base with, every coordinate an
\* answer of the hash.
VectorDrawn(log, o, base, values) ==
  VectorLog(log, base, values) /\ VectorKnown(o, base, values)

LEMMA NothingDrawnYet ==
  ASSUME NEW base, IsSeq(base), NEW o
  PROVE  VectorDrawn(base, o, base, <<>>)
<1>1. Len(<<>>) = 0 /\ 1 .. 0 = {} /\ Len(base) \in Nat /\ Len(base) + 0 = Len(base)
  BY SeqIsSeq DEF IsSeq
<1> QED BY <1>1 DEF VectorDrawn, VectorLog, VectorKnown

LEMMA VectorStaysKnown ==
  ASSUME NEW o, NEW o1, Grows(o, o1), NEW log, NEW base, NEW values,
         VectorDrawn(log, o, base, values)
  PROVE  VectorDrawn(log, o1, base, values)
BY DEF VectorDrawn, VectorKnown, Grows

\* One more coordinate.
LEMMA VectorNext ==
  ASSUME NEW t, NEW o, NEW base, NEW values \in Seq(Challenge),
         VectorDrawn(t.log, o, base, values),
         NEW q, q = Query(t, ZeroLabel), NEW c \in Answers(o, q), c \in Challenge
  PROVE  VectorDrawn(append(t, ZeroLabel, c).log, Record(o, q, c), base,
                     Append(values, c))
<1> DEFINE h == Len(base)
           n == Len(values)
           l == t.log
           l1 == Append(l, CoordinateEntry(c))
           v1 == Append(values, c)
           o1 == Record(o, q, c)
<1>1. /\ IsSeq(l) /\ IsSeq(base) /\ h \in Nat /\ n \in Nat /\ Len(l) = h + n
      /\ \A k \in 1 .. h : l[k] = base[k]
      /\ \A i \in 1 .. n : l[h + i] = CoordinateEntry(values[i])
  BY LenProperties DEF VectorDrawn, VectorLog, IsSeq
<1>2. /\ Len(v1) = n + 1 /\ v1[n + 1] = c /\ \A i \in 1 .. n : v1[i] = values[i]
  <2>1. values \in Seq(Challenge) /\ c \in Challenge
    OBVIOUS
  <2> QED BY ONLY <2>1, AppendProperties
<1>3. append(t, ZeroLabel, c).log = l1 /\ q = Append(l, CoordinateDraw)
  BY DEF append, Query, CoordinateEntry, CoordinateDraw
<1>4. q \in DOMAIN o1 /\ o1[q] = c /\ Grows(o, o1)
  <2>1. /\ q \in DOMAIN Record(o, q, c) /\ Record(o, q, c)[q] = c
        /\ \A p \in DOMAIN o : /\ p \in DOMAIN Record(o, q, c)
                               /\ Record(o, q, c)[p] = o[p]
    BY RecordKeeps
  <2> QED BY <2>1 DEF Grows
<1> HIDE DEF h, n, l, v1, o1
<1>a. h \in Nat /\ n \in Nat /\ IsSeq(l) /\ Len(l) = h + n
  BY <1>1
<1>b. \A i \in 1 .. n + 1 : i = n + 1 \/ i \in 1 .. n
  BY <1>a
<1>5. /\ IsSeq(l1) /\ Len(l1) = h + n + 1 /\ l1[h + n + 1] = CoordinateEntry(c)
      /\ \A k \in 1 .. h + n : l1[k] = l[k]
  <2>1. PICK e : e = CoordinateEntry(c)
    OBVIOUS
  <2>2. /\ IsSeq(Append(l, e)) /\ Len(Append(l, e)) = Len(l) + 1
        /\ Append(l, e)[Len(l) + 1] = e /\ \A k \in 1 .. Len(l) : Append(l, e)[k] = l[k]
    BY <1>a, AppendIsSeq
  <2> QED BY <1>a, <2>1, <2>2
<1>6. /\ IsSeq(q) /\ Len(q) = h + n + 1 /\ q[h + n + 1] = CoordinateDraw
      /\ \A k \in 1 .. h + n : q[k] = l[k]
  <2>1. PICK e : e = CoordinateDraw
    OBVIOUS
  <2>2. /\ IsSeq(Append(l, e)) /\ Len(Append(l, e)) = Len(l) + 1
        /\ Append(l, e)[Len(l) + 1] = e /\ \A k \in 1 .. Len(l) : Append(l, e)[k] = l[k]
    BY <1>a, AppendIsSeq
  <2> QED BY <1>a, <1>3, <2>1, <2>2
<1> HIDE DEF l1
<1>7. /\ \A k \in 1 .. h : k \in 1 .. h + n
      /\ \A i \in 1 .. n : h + i \in 1 .. h + n
      /\ h + n + 1 = h + (n + 1) /\ (n + 1) - 1 = n
  BY <1>a
<1>8. VectorLog(l1, base, v1)
  <2>1. \A k \in 1 .. h : l1[k] = base[k]
    BY <1>1, <1>5, <1>7
  <2>2. ASSUME NEW i \in 1 .. n + 1
        PROVE  l1[h + i] = CoordinateEntry(v1[i])
    <3>1. CASE i = n + 1
      BY <1>2, <1>5, <1>7, <3>1
    <3>2. CASE i \in 1 .. n
      BY <1>1, <1>2, <1>5, <1>7, <3>2
    <3> QED BY <1>b, <3>1, <3>2
  <2> QED BY <1>1, <1>2, <1>5, <1>7, <2>1, <2>2 DEF VectorLog, h
<1>9. AsksCoordinate(q, base, v1, n + 1)
  <2>1. \A k \in 1 .. h : q[k] = base[k]
    BY <1>1, <1>6, <1>7
  <2>2. \A j \in 1 .. n : q[h + j] = CoordinateEntry(v1[j])
    BY <1>1, <1>2, <1>6, <1>7
  <2> QED BY <1>6, <1>7, <2>1, <2>2 DEF AsksCoordinate, h
<1>10. ASSUME NEW i \in 1 .. n + 1
       PROVE  \E p \in DOMAIN o1 : AsksCoordinate(p, base, v1, i) /\ o1[p] = v1[i]
  <2>1. CASE i = n + 1
    BY <1>2, <1>4, <1>9, <2>1
  <2>2. CASE i \in 1 .. n
    <3>1. PICK p \in DOMAIN o : AsksCoordinate(p, base, values, i) /\ o[p] = values[i]
      BY <2>2 DEF VectorDrawn, VectorKnown, n
    <3>2. \A j \in 1 .. i-1 : v1[j] = values[j]
      <4>1. \A j \in 1 .. i-1 : j \in 1 .. n
        BY <1>a, <2>2
      <4> QED BY <1>2, <4>1
    <3>3. AsksCoordinate(p, base, v1, i)
      BY <3>1, <3>2 DEF AsksCoordinate
    <3> QED BY <1>2, <1>4, <2>2, <3>1, <3>3 DEF Grows
  <2> QED BY <1>b, <2>1, <2>2
<1>11. VectorKnown(o1, base, v1)
  BY <1>2, <1>10 DEF VectorKnown
<1> QED BY <1>3, <1>8, <1>11 DEF VectorDrawn, v1, o1

\* The hash answers a question once: two vectors of one length drawn from
\* one history are one, and so are the transcripts that absorbed them.
LEMMA VectorUnique ==
  ASSUME NEW o, NEW base,
         NEW v1 \in Seq(Challenge), NEW v2 \in Seq(Challenge), Len(v1) = Len(v2),
         NEW l1, VectorDrawn(l1, o, base, v1),
         NEW l2, VectorDrawn(l2, o, base, v2)
  PROVE  v1 = v2 /\ l1 = l2
<1> DEFINE h == Len(base)
           n == Len(v1)
<1>1. h \in Nat /\ n \in Nat
  BY LenProperties DEF VectorDrawn, VectorLog, IsSeq
<1>2. ASSUME NEW i \in 1 .. n, \A j \in 1 .. i-1 : v1[j] = v2[j]
      PROVE  v1[i] = v2[i]
  <2>1. PICK q1 \in DOMAIN o : AsksCoordinate(q1, base, v1, i) /\ o[q1] = v1[i]
    BY DEF VectorDrawn, VectorKnown
  <2>2. PICK q2 \in DOMAIN o : AsksCoordinate(q2, base, v2, i) /\ o[q2] = v2[i]
    BY DEF VectorDrawn, VectorKnown
  <2>3. /\ IsSeq(q1) /\ Len(q1) = h + i /\ \A k \in 1 .. h : q1[k] = base[k]
        /\ \A j \in 1 .. i-1 : q1[h + j] = CoordinateEntry(v1[j])
        /\ q1[h + i] = CoordinateDraw
    BY <2>1 DEF AsksCoordinate
  <2>4. /\ IsSeq(q2) /\ Len(q2) = h + i /\ \A k \in 1 .. h : q2[k] = base[k]
        /\ \A j \in 1 .. i-1 : q2[h + j] = CoordinateEntry(v2[j])
        /\ q2[h + i] = CoordinateDraw
    BY <2>2 DEF AsksCoordinate
  <2> HIDE DEF h, n
  <2>5. ASSUME NEW k \in 1 .. h + i
        PROVE  q1[k] = q2[k]
    <3>1. CASE k \in 1 .. h
      BY <2>3, <2>4, <3>1
    <3>2. CASE k \notin 1 .. h
      <4>1. PICK j \in 1 .. i : k = h + j
        <5>1. k - h \in 1 .. i /\ k = h + (k - h)
          BY <1>1, <3>2
        <5> QED BY <5>1
      <4>2. CASE j = i
        BY <2>3, <2>4, <4>1, <4>2
      <4>3. CASE j \in 1 .. i-1
        BY <1>2, <2>3, <2>4, <4>1, <4>3
      <4> QED BY <1>1, <4>2, <4>3
    <3> QED BY <3>1, <3>2
  <2>6. q1 = q2
    BY <2>3, <2>4, <2>5, SameElements
  <2> QED BY <2>1, <2>2, <2>6
<1>3. \A i \in 1 .. n : v1[i] = v2[i]
  <2> DEFINE T == {i \in 1 .. n : v1[i] # v2[i]}
  <2> SUFFICES ASSUME T # {} PROVE FALSE
    OBVIOUS
  <2>1. T \in SUBSET Nat
    OBVIOUS
  <2>2. PICK i \in T : \A j \in T : i <= j
    <3> HIDE DEF T
    <3> QED BY <2>1, Add!LeastNatural
  <2>3. i \in 1 .. n /\ v1[i] # v2[i]
    OBVIOUS
  <2>4. \A j \in 1 .. i-1 : v1[j] = v2[j]
    BY <1>1, <2>2, <2>3
  <2> QED BY <1>2, <2>3, <2>4
<1>4. v1 = v2
  BY <1>3, SeqEqual
<1>5. l1 = l2
  <2>1. /\ IsSeq(l1) /\ Len(l1) = h + n /\ \A k \in 1 .. h : l1[k] = base[k]
        /\ \A i \in 1 .. n : l1[h + i] = CoordinateEntry(v1[i])
    BY DEF VectorDrawn, VectorLog
  <2>2. /\ IsSeq(l2) /\ Len(l2) = h + n /\ \A k \in 1 .. h : l2[k] = base[k]
        /\ \A i \in 1 .. n : l2[h + i] = CoordinateEntry(v1[i])
    BY <1>4 DEF VectorDrawn, VectorLog
  <2> HIDE DEF h, n
  <2>3. ASSUME NEW k \in 1 .. h + n
        PROVE  l1[k] = l2[k]
    <3>1. CASE k \in 1 .. h
      BY <2>1, <2>2, <3>1
    <3>2. CASE k \notin 1 .. h
      <4>1. PICK i \in 1 .. n : k = h + i
        <5>1. k - h \in 1 .. n /\ k = h + (k - h)
          BY <1>1, <3>2
        <5> QED BY <5>1
      <4> QED BY <2>1, <2>2, <4>1
    <3> QED BY <3>1, <3>2
  <2> QED BY <2>1, <2>2, <2>3, SameElements
<1> QED BY <1>4, <1>5

\* The function Draws reads at n.
OneMore(s) ==
  UNION {LET query == Query(d.transcript, ZeroLabel)
         IN  {[transcript |-> append(d.transcript, ZeroLabel, c),
               oracle     |-> Record(d.oracle, query, c),
               values     |-> Append(d.values, c)] :
                c \in Answers(d.oracle, query)} :
           d \in s}
Start(t, o) == [transcript |-> t, oracle |-> o, values |-> <<>>]
Drawing(g, t, o, n) ==
  g = [k \in 0 .. n |-> IF k = 0 THEN {Start(t, o)} ELSE OneMore(g[k-1])]

LEMMA DrawingExists ==
  ASSUME NEW t, NEW o, NEW n \in Nat
  PROVE  \E g : Drawing(g, t, o, n)
<1> DEFINE S == {m \in Nat : \E g : Drawing(g, t, o, m)}
<1>1. 0 \in S
  <2>1. Drawing([k \in 0 .. 0 |-> {Start(t, o)}], t, o, 0)
    BY DEF Drawing
  <2> QED BY <2>1
<1>2. ASSUME NEW m \in Nat, m \in S
      PROVE  m + 1 \in S
  <2>1. PICK g : Drawing(g, t, o, m)
    BY <1>2
  <2> DEFINE h == [k \in 0 .. m+1 |-> IF k = m+1 THEN OneMore(g[m]) ELSE g[k]]
  <2>2. ASSUME NEW k \in 0 .. m+1
        PROVE  h[k] = IF k = 0 THEN {Start(t, o)} ELSE OneMore(h[k-1])
    <3>1. CASE k = m+1
      <4>1. k - 1 = m /\ m \in 0 .. m+1 /\ m # m+1 /\ k # 0
        BY <3>1
      <4> QED BY <3>1, <4>1
    <3>2. CASE k \in 0 .. m
      <4>1. h[k] = g[k] /\ (k # 0 => h[k-1] = g[k-1])
        BY <3>2
      <4> HIDE DEF h
      <4>2. g[k] = IF k = 0 THEN {Start(t, o)} ELSE OneMore(g[k-1])
        BY <2>1, <3>2 DEF Drawing
      <4> QED BY <4>1, <4>2
    <3> QED BY <3>1, <3>2
  <2>3. h = [k \in 0 .. m+1 |-> h[k]]
    OBVIOUS
  <2> HIDE DEF h
  <2>4. Drawing(h, t, o, m+1)
    BY <2>2, <2>3 DEF Drawing
  <2> QED BY <2>4
<1>3. n \in S
  <2> HIDE DEF S
  <2> QED BY <1>1, <1>2, Add!NaturalInduction
<1> QED BY <1>3

\* What n draws in a row leave behind.
Drew(d, t, o, n) ==
  /\ d.values \in Seq(Challenge) /\ Len(d.values) = n
  /\ Grows(o, d.oracle)
  /\ \A q \in DOMAIN d.oracle : d.oracle[q] \in Challenge
  /\ VectorDrawn(d.transcript.log, d.oracle, t.log, d.values)

LEMMA DrawsFacts ==
  ASSUME NEW t, IsSeq(t.log),
         NEW o, \A q \in DOMAIN o : o[q] \in Challenge,
         NEW n \in Nat, NEW d \in Draws(t, o, ZeroLabel, n)
  PROVE  Drew(d, t, o, n)
<1>1. PICK g : Drawing(g, t, o, n) /\ d \in g[n]
  <2> DEFINE g == CHOOSE g : Drawing(g, t, o, n)
  <2>1. Drawing(g, t, o, n)
    BY DrawingExists
  <2>2. Draws(t, o, ZeroLabel, n) = (CHOOSE h : Drawing(h, t, o, n))[n]
    BY DEF Draws, Drawing, OneMore, Start
  <2> HIDE DEF g
  <2> QED BY <2>1, <2>2 DEF g
<1> DEFINE S == {k \in Nat : k <= n => \A e \in g[k] : Drew(e, t, o, k)}
<1>2. 0 \in S
  <2>1. g[0] = {Start(t, o)}
    <3>1. 0 \in 0 .. n
      OBVIOUS
    <3> QED BY <1>1, <3>1 DEF Drawing
  <2>2. Drew(Start(t, o), t, o, 0)
    BY NothingDrawnYet, EmptySeq DEF Drew, Start, Grows
  <2> QED BY <2>1, <2>2
<1>3. ASSUME NEW k \in Nat, k \in S
      PROVE  k + 1 \in S
  <2>a. k <= n => \A e \in g[k] : Drew(e, t, o, k)
    BY <1>3
  <2>b. (k + 1 <= n => \A e \in g[k+1] : Drew(e, t, o, k+1)) => k + 1 \in S
    OBVIOUS
  <2> HIDE DEF S
  <2> SUFFICES ASSUME k + 1 <= n, NEW e \in g[k+1]
               PROVE  Drew(e, t, o, k+1)
    BY <2>b
  <2>1. g[k+1] = OneMore(g[k])
    <3>1. k + 1 \in 0 .. n /\ k + 1 # 0 /\ (k+1) - 1 = k
      OBVIOUS
    <3> QED BY <1>1, <3>1 DEF Drawing
  <2>2. PICK d1 \in g[k] :
          e \in {[transcript |-> append(d1.transcript, ZeroLabel, c),
                  oracle     |-> Record(d1.oracle, Query(d1.transcript, ZeroLabel), c),
                  values     |-> Append(d1.values, c)] :
                   c \in Answers(d1.oracle, Query(d1.transcript, ZeroLabel))}
    BY <2>1 DEF OneMore
  <2>3. PICK q : q = Query(d1.transcript, ZeroLabel)
    OBVIOUS
  <2>4. PICK c \in Answers(d1.oracle, q) :
          e = [transcript |-> append(d1.transcript, ZeroLabel, c),
               oracle     |-> Record(d1.oracle, q, c),
               values     |-> Append(d1.values, c)]
    BY <2>2, <2>3
  <2>5. Drew(d1, t, o, k)
    <3>1. k <= n
      OBVIOUS
    <3> QED BY <2>a, <2>2, <3>1
  <2>6. /\ c \in Challenge
        /\ \A p \in DOMAIN Record(d1.oracle, q, c) : Record(d1.oracle, q, c)[p] \in Challenge
    BY <2>4, <2>5, DrawIsChallenge DEF Drew
  <2>7. Grows(o, Record(d1.oracle, q, c))
    <3>1. \A p \in DOMAIN d1.oracle : /\ p \in DOMAIN Record(d1.oracle, q, c)
                                      /\ Record(d1.oracle, q, c)[p] = d1.oracle[p]
      BY <2>4, RecordKeeps
    <3> QED BY <2>5, <3>1 DEF Drew, Grows
  <2>8. d1.values \in Seq(Challenge) /\ Len(d1.values) = k
        /\ VectorDrawn(d1.transcript.log, d1.oracle, t.log, d1.values)
    BY <2>5 DEF Drew
  <2>9. VectorDrawn(append(d1.transcript, ZeroLabel, c).log, Record(d1.oracle, q, c),
                    t.log, Append(d1.values, c))
    BY <2>3, <2>4, <2>6, <2>8, VectorNext
  <2>10. Append(d1.values, c) \in Seq(Challenge) /\ Len(Append(d1.values, c)) = k + 1
    BY <2>6, <2>8, AppendProperties
  <2> QED BY <2>4, <2>6, <2>7, <2>9, <2>10 DEF Drew
<1>4. n \in S
  <2> HIDE DEF S
  <2> QED BY <1>2, <1>3, Add!NaturalInduction
<1>5. n <= n
  OBVIOUS
<1> QED BY <1>1, <1>4, <1>5


---------------------------------------------------------------------------
(* The polynomial f_hat.                                                   *)

LEMMA SeqIsPoint ==
  ASSUME NEW n, NEW x \in Seq(Field), Len(x) = n
  PROVE  n \in Nat /\ x \in Point(n)
BY LenProperties DEF Point

LEMMA ExtensionType ==
  ASSUME NEW n \in Nat, NEW t \in Table(n), NEW x \in Seq(Field)
  PROVE  Extension(t, x) \in Field
<1> DEFINE g == [b \in DOMAIN t |-> t[b] ** Basis(b, x)]
<1>1. \A b : Basis(b, x) \in Field
  BY SeqIsPoint, BasisType
<1>2. DOMAIN t = Index(n) /\ \A b \in Index(n) : t[b] \in Field
  BY DEF Table
<1>3. IsFiniteSet(Index(n))
  BY IndexFinite
<1>4. \A b \in DOMAIN g : g[b] \in Field
  BY <1>1, <1>2, FieldClosed
<1>5. Extension(t, x) = FSum(g)
  BY DEF Extension
<1>6. \A b \in DOMAIN g : g[b] \in Int
  BY <1>4, FieldClosed
<1>7. DOMAIN g = Index(n)
  BY <1>2
<1> HIDE DEF g
<1> QED BY <1>3, <1>5, <1>6, <1>7, FSumType

\* f_hat lists the tables of p and after them that of eq, and every product
\* has that one as its last factor.
HatOf(h, p, E) ==
  /\ h.aux_info = [p.aux_info EXCEPT !.max_degree = @ + 1]
  /\ h.mles = Append(p.mles, E)
  /\ h.products = [k \in DOMAIN p.products |->
                     [p.products[k] EXCEPT !.factors = Append(@, Len(p.mles) + 1)]]

\* A product of p and what became of it.
Lifted(q, h, l) ==
  /\ q.coefficient \in Field /\ h.coefficient = q.coefficient
  /\ Len(q.factors) \in Nat /\ DOMAIN q.factors = 1 .. Len(q.factors)
  /\ \A j \in 1 .. Len(q.factors) : q.factors[j] \in 1 .. l
  /\ Len(h.factors) = Len(q.factors) + 1
  /\ DOMAIN h.factors = 1 .. Len(q.factors) + 1
  /\ h.factors[Len(q.factors) + 1] = l + 1
  /\ \A j \in 1 .. Len(q.factors) : h.factors[j] = q.factors[j]

\* The tables and the products of f_hat beside those of p.
HatParts(h, p, E) ==
  /\ Len(p.mles) \in Nat
  /\ h.mles[Len(p.mles) + 1] = E
  /\ \A i \in 1 .. Len(p.mles) :
       /\ h.mles[i] = p.mles[i]
       /\ p.mles[i] \in Table(p.aux_info.num_variables)
  /\ DOMAIN h.products = DOMAIN p.products
  /\ Len(p.products) \in Nat /\ DOMAIN p.products = 1 .. Len(p.products)
  /\ \A k \in DOMAIN p.products :
       Lifted(p.products[k], h.products[k], Len(p.mles))

LEMMA HatFacts ==
  ASSUME NEW p, IsPolynomial(p), p.aux_info.max_degree + 1 < P,
         NEW E \in Table(p.aux_info.num_variables), NEW h, HatOf(h, p, E)
  PROVE  /\ IsPolynomial(h)
         /\ h.aux_info.num_variables = p.aux_info.num_variables
         /\ HatParts(h, p, E)
<1> DEFINE n == p.aux_info.num_variables
           d == p.aux_info.max_degree
           l == Len(p.mles)
           R == [coefficient : Field, factors : Seq(1 .. l)]
           R1 == [coefficient : Field, factors : Seq(1 .. l+1)]
<1>1. /\ p.aux_info \in [num_variables : Nat, max_degree : Nat]
      /\ p.mles \in Seq(Table(n)) /\ p.products \in Seq(R)
      /\ \A k \in DOMAIN p.products : Len(p.products[k].factors) <= d
  BY DEF IsPolynomial, AuxInfo
<1>2. /\ h.aux_info \in AuxInfo /\ h.aux_info.num_variables = n
      /\ h.aux_info.max_degree = d + 1 /\ d \in Nat /\ n \in Nat
  <2> DEFINE a == p.aux_info
  <2>1. a \in [num_variables : Nat, max_degree : Nat]
    BY <1>1
  <2>2. h.aux_info = [a EXCEPT !.max_degree = @ + 1]
    BY DEF HatOf
  <2> HIDE DEF a
  <2>3. h.aux_info = [num_variables |-> a.num_variables, max_degree |-> a.max_degree + 1]
    BY <2>1, <2>2
  <2>4. a.num_variables \in Nat /\ a.max_degree \in Nat
    BY <2>1
  <2> QED BY <2>3, <2>4 DEF AuxInfo, a
<1>3. /\ h.mles \in Seq(Table(n)) /\ Len(h.mles) = l + 1 /\ h.mles[l + 1] = E
      /\ \A i \in 1 .. l : h.mles[i] = p.mles[i]
  <2> DEFINE T == Table(n)
             ms == p.mles
  <2>1. ms \in Seq(T) /\ E \in T /\ h.mles = Append(ms, E)
    BY <1>1 DEF HatOf
  <2> HIDE DEF T, ms
  <2>2. /\ Append(ms, E) \in Seq(T) /\ Len(Append(ms, E)) = Len(ms) + 1
        /\ Append(ms, E)[Len(ms) + 1] = E
        /\ \A i \in 1 .. Len(ms) : Append(ms, E)[i] = ms[i]
    BY <2>1, AppendProperties
  <2> QED BY <2>1, <2>2 DEF T, ms
<1>4. l \in Nat /\ \A i \in 1 .. l : p.mles[i] \in Table(n)
  <2> DEFINE T == Table(n)
             ms == p.mles
  <2>1. ms \in Seq(T)
    BY <1>1
  <2> HIDE DEF T, ms
  <2>2. Len(ms) \in Nat /\ \A i \in 1 .. Len(ms) : ms[i] \in T
    BY <2>1, LenProperties, ElementOfSeq
  <2> QED BY <2>2 DEF T, ms
<1>5. /\ Len(p.products) \in Nat /\ DOMAIN p.products = 1 .. Len(p.products)
      /\ \A k \in DOMAIN p.products : p.products[k] \in R
  <2> DEFINE ps == p.products
  <2>1. ps \in Seq(R)
    BY <1>1
  <2> HIDE DEF ps, R
  <2>2. Len(ps) \in Nat /\ DOMAIN ps = 1 .. Len(ps) /\ \A k \in 1 .. Len(ps) : ps[k] \in R
    BY <2>1, LenProperties, ElementOfSeq
  <2> QED BY <2>2 DEF ps
<1>6. ASSUME NEW k \in DOMAIN p.products
      PROVE  /\ Lifted(p.products[k], h.products[k], l)
             /\ h.products[k] \in R1
  <2> DEFINE q == p.products[k]
             s == q.factors
             e == l + 1
             g == h.products[k]
  <2>1. q \in R
    BY <1>5
  <2>2. q.coefficient \in Field /\ s \in Seq(1 .. l)
    BY <2>1
  <2>3. g = [q EXCEPT !.factors = Append(@, e)]
    BY DEF HatOf
  <2>4. g = [coefficient |-> q.coefficient, factors |-> Append(s, e)]
    BY <2>1, <2>3
  <2> HIDE DEF e, s, q, g
  <2>5. 1 .. l \subseteq 1 .. l+1 /\ e \in 1 .. l+1
    BY <1>4 DEF e
  <2>6. s \in Seq(1 .. l+1)
    BY <2>2, <2>5, SeqMonotonic
  <2>7. /\ Append(s, e) \in Seq(1 .. l+1) /\ Len(Append(s, e)) = Len(s) + 1
        /\ Append(s, e)[Len(s) + 1] = e
        /\ \A i \in 1 .. Len(s) : Append(s, e)[i] = s[i]
    BY <2>5, <2>6, AppendProperties
  <2>8. /\ Len(s) \in Nat /\ DOMAIN s = 1 .. Len(s)
        /\ DOMAIN Append(s, e) = 1 .. Len(Append(s, e))
        /\ \A i \in 1 .. Len(s) : s[i] \in 1 .. l
    BY <2>2, <2>7, LenProperties, ElementOfSeq
  <2>9. g.factors = Append(s, e) /\ g.coefficient = q.coefficient
    BY <2>4
  <2>10. g \in R1
    BY <2>2, <2>4, <2>7
  <2>11. Lifted(q, g, l)
    BY <2>2, <2>7, <2>8, <2>9 DEF Lifted, s, e
  <2> QED BY <2>10, <2>11 DEF q, g
<1>7. DOMAIN h.products = DOMAIN p.products /\ h.products \in Seq(R1)
  <2>1. h.products = [k \in 1 .. Len(p.products) |-> h.products[k]]
    BY <1>5 DEF HatOf
  <2>2. h.products \in [1 .. Len(p.products) -> R1]
    <3> HIDE DEF R1
    <3> QED BY <1>5, <1>6, <2>1
  <2> HIDE DEF R1
  <2> QED BY <1>5, <2>1, <2>2, SMTT(20)
<1>8. \A k \in DOMAIN p.products : Len(h.products[k].factors) <= d + 1
  <2> SUFFICES ASSUME NEW k \in DOMAIN p.products
               PROVE  Len(h.products[k].factors) <= d + 1
    OBVIOUS
  <2>1. /\ Len(h.products[k].factors) = Len(p.products[k].factors) + 1
        /\ Len(p.products[k].factors) \in Nat
    BY <1>6 DEF Lifted
  <2>2. Len(p.products[k].factors) <= d
    BY <1>1
  <2> QED BY <1>2, <2>1, <2>2
<1>9. IsPolynomial(h)
  BY <1>2, <1>3, <1>7, <1>8 DEF IsPolynomial
<1>10. HatParts(h, p, E)
  BY <1>3, <1>4, <1>5, <1>6, <1>7 DEF HatParts
<1> QED BY <1>2, <1>9, <1>10

\* At every point f_hat is p times the extension of the table added.
LEMMA HatEvaluates ==
  ASSUME NEW p, IsPolynomial(p), p.aux_info.max_degree + 1 < P,
         NEW E \in Table(p.aux_info.num_variables), NEW h, HatOf(h, p, E),
         NEW x \in Seq(Field)
  PROVE  evaluate(h, x) = evaluate(p, x) ** Extension(E, x)
<1> DEFINE l == Len(p.mles)
           K == DOMAIN p.products
           e == Extension(E, x)
           old(k) == p.products[k].coefficient **
                       FProd([j \in DOMAIN p.products[k].factors |->
                                Extension(p.mles[p.products[k].factors[j]], x)])
           new_(k) == h.products[k].coefficient **
                       FProd([j \in DOMAIN h.products[k].factors |->
                                Extension(h.mles[h.products[k].factors[j]], x)])
<1>1. /\ l \in Nat /\ h.mles[l + 1] = E
      /\ \A i \in 1 .. l : h.mles[i] = p.mles[i]
                           /\ p.mles[i] \in Table(p.aux_info.num_variables)
      /\ DOMAIN h.products = K /\ Len(p.products) \in Nat /\ K = 1 .. Len(p.products)
      /\ \A k \in K : Lifted(p.products[k], h.products[k], l)
  <2> HIDE DEF e, old, new_, l, K
  <2>1. HatParts(h, p, E)
    BY HatFacts
  <2> QED BY <2>1 DEF HatParts, l, K
<1>2. p.aux_info.num_variables \in Nat
  BY DEF IsPolynomial, AuxInfo
<1>3. \A T \in Table(p.aux_info.num_variables) : Extension(T, x) \in Field
  BY <1>2, ExtensionType
<1>4. e \in Field
  BY <1>3
<1>5. ASSUME NEW k \in K
      PROVE  old(k) \in Field /\ new_(k) = e ** old(k)
  <2> DEFINE q == p.products[k]
             g == h.products[k]
             m == Len(q.factors)
             F == [j \in DOMAIN q.factors |-> Extension(p.mles[q.factors[j]], x)]
             G == [j \in DOMAIN g.factors |-> Extension(h.mles[g.factors[j]], x)]
  <2>1. Lifted(q, g, l)
    BY <1>1
  <2>2. /\ q.coefficient \in Field /\ g.coefficient = q.coefficient
        /\ m \in Nat /\ DOMAIN q.factors = 1 .. m
        /\ \A j \in 1 .. m : q.factors[j] \in 1 .. l
        /\ DOMAIN g.factors = 1 .. m + 1 /\ g.factors[m + 1] = l + 1
        /\ \A j \in 1 .. m : g.factors[j] = q.factors[j]
    BY <2>1 DEF Lifted
  <2> HIDE DEF q, g, m
  <2>3. DOMAIN F = 1 .. m /\ \A j \in 1 .. m : F[j] \in Field
    BY <1>1, <1>3, <2>2
  <2>4. DOMAIN G = 1 .. m + 1 /\ G[m + 1] = e /\ \A j \in 1 .. m : G[j] = F[j]
    <3>1. DOMAIN G = 1 .. m + 1
      BY <2>2
    <3>2. m + 1 \in 1 .. m + 1 /\ \A j \in 1 .. m : j \in 1 .. m + 1
      BY <2>2
    <3>3. G[m + 1] = Extension(h.mles[g.factors[m + 1]], x)
      BY <2>2, <3>2
    <3>4. ASSUME NEW j \in 1 .. m PROVE G[j] = F[j]
      <4>1. G[j] = Extension(h.mles[g.factors[j]], x)
        BY <2>2, <3>2
      <4>2. F[j] = Extension(p.mles[q.factors[j]], x)
        BY <2>2
      <4> QED BY <1>1, <2>2, <4>1, <4>2
    <3> QED BY <1>1, <2>2, <3>1, <3>3, <3>4
  <2> HIDE DEF F, G, e
  <2>5. \A j \in 1 .. m + 1 : G[j] \in Field
    <3>1. \A j \in 1 .. m + 1 : j = m + 1 \/ j \in 1 .. m
      BY <2>2
    <3> QED BY <1>4, <2>3, <2>4, <3>1
  <2>6. FProd(G) = e ** FProd(F)
    BY <2>2, <2>3, <2>4, <2>5, FProdLast
  <2>7. FProd(F) \in Field
    <3>1. IsFiniteSet(1 .. m)
      <4> HIDE DEF F, G, e
      <4>1. m \in Int /\ 1 \in Int
        BY <2>2
      <4> QED BY <4>1, FS_Interval
    <3> QED BY <2>3, <3>1, FProdType
  <2>8. q.coefficient ** (e ** FProd(F)) = e ** (q.coefficient ** FProd(F))
    <3>1. PICK a, b : a = q.coefficient /\ b = FProd(F)
      OBVIOUS
    <3>2. a \in Field /\ b \in Field /\ e \in Field
      BY <1>4, <2>2, <2>7, <3>1
    <3>3. a ** (e ** b) = (a ** e) ** b /\ a ** e = e ** a /\ (e ** a) ** b = e ** (a ** b)
      BY <3>2, FieldLaws
    <3> QED BY <3>1, <3>3
  <2>9. old(k) = q.coefficient ** FProd(F) /\ new_(k) = g.coefficient ** FProd(G)
    BY DEF F, G, q, g
  <2>10. q.coefficient ** FProd(F) \in Field
    BY <2>2, <2>7, FieldClosed
  <2> HIDE DEF old, new_
  <2> QED BY <2>2, <2>6, <2>8, <2>9, <2>10 DEF e
<1> DEFINE A == [k \in K |-> old(k)]
           B == [k \in K |-> new_(k)]
<1>6. evaluate(p, x) = FSum(A) /\ evaluate(h, x) = FSum(B)
  BY <1>1 DEF evaluate
<1>7. /\ DOMAIN A = K /\ DOMAIN B = K
      /\ \A k \in K : A[k] \in Field /\ B[k] = e ** A[k]
  <2> HIDE DEF old, new_, e
  <2> QED BY <1>5
<1>8. IsFiniteSet(K)
  BY <1>1, FS_Interval
<1> HIDE DEF A, B, e, K
<1>9. FSum(B) = e ** FSum(A)
  BY <1>4, <1>7, <1>8, FSumScale
<1>10. FSum(A) \in Field
  BY <1>6, EvaluateType
<1>11. e ** FSum(A) = FSum(A) ** e
  BY <1>4, <1>10, FieldLaws
<1> QED BY <1>6, <1>9, <1>11 DEF e

\* The values of p on the hypercube, and what they sum to against eq(., r).
ValuesOf(p) ==
  [b \in Index(p.aux_info.num_variables) |->
     evaluate(p, bit_decompose(b, p.aux_info.num_variables))]

CanMultiply(p, r) ==
  /\ IsPolynomial(p) /\ p.aux_info.max_degree + 1 < P
  /\ p.aux_info.num_variables # 0
  /\ r \in Seq(Field) /\ Len(r) = p.aux_info.num_variables

LEMMA BuildHat ==
  ASSUME NEW p, NEW r, CanMultiply(p, r)
  PROVE  LET n == p.aux_info.num_variables
             h == build_f_hat(p, r)
         IN  /\ n \in Nat \ {0} /\ r \in Point(n)
             /\ EqTable(n, r) \in Table(n)
             /\ HatOf(h, p, EqTable(n, r))
             /\ IsPolynomial(h)
             /\ h.aux_info = [p.aux_info EXCEPT !.max_degree = @ + 1]
             /\ h.aux_info.num_variables = n
<1> DEFINE n == p.aux_info.num_variables
           h == build_f_hat(p, r)
           E == EqTable(n, r)
<1>1. /\ IsPolynomial(p) /\ p.aux_info.max_degree + 1 < P
      /\ n # 0 /\ r \in Seq(Field) /\ Len(r) = n
  BY DEF CanMultiply
<1> HIDE DEF n
<1>2. n \in Nat \ {0} /\ r \in Point(n)
  BY <1>1, SeqIsPoint
<1>3. E \in Table(n)
  <2>1. \A b \in Index(n) : Basis(b, r) \in Field
    BY <1>2, BasisType
  <2> QED BY <2>1 DEF EqTable, Table
<1>4. build_eq_x_r_vec(r) = E
  BY <1>2, BuildIsBasis
<1>5. HatOf(h, p, E)
  <2> HIDE DEF E
  <2> QED BY <1>4 DEF HatOf, build_f_hat
<1>6. IsPolynomial(h) /\ h.aux_info.num_variables = n
  <2> HIDE DEF E, h
  <2>1. E \in Table(p.aux_info.num_variables)
    BY <1>3 DEF n
  <2>2. IsPolynomial(h) /\ h.aux_info.num_variables = p.aux_info.num_variables
    BY <1>1, <1>5, <2>1, HatFacts
  <2> QED BY <2>2 DEF n
<1>7. h.aux_info = [p.aux_info EXCEPT !.max_degree = @ + 1]
  BY <1>5 DEF HatOf
<1> QED BY <1>2, <1>3, <1>5, <1>6, <1>7 DEF n

LEMMA EqType ==
  ASSUME NEW n \in Nat, NEW x \in Point(n), NEW r \in Point(n)
  PROVE  /\ eq_eval(x, r) = Extension(EqTable(n, r), x)
         /\ eq_eval(x, r) \in Field
<1>1. Extension(EqTable(n, r), x) = eq_eval(x, r)
  BY EqAgreesAlways DEF EqAgrees
<1>2. EqTable(n, r) \in Table(n)
  <2>1. \A b \in Index(n) : Basis(b, r) \in Field
    BY BasisType
  <2> QED BY <2>1 DEF EqTable, Table
<1>3. x \in Seq(Field)
  BY PointIsSeq
<1> QED BY <1>1, <1>2, <1>3, ExtensionType

\* The value of f_hat is that of p times eq (zero_check/mod.rs divides by it
\* again).
LEMMA HatValue ==
  ASSUME NEW p, NEW r, CanMultiply(p, r),
         NEW x \in Seq(Field), Len(x) = p.aux_info.num_variables
  PROVE  /\ evaluate(build_f_hat(p, r), x) = evaluate(p, x) ** eq_eval(x, r)
         /\ evaluate(p, x) \in Field /\ eq_eval(x, r) \in Field
<1> DEFINE n == p.aux_info.num_variables
           h == build_f_hat(p, r)
           E == EqTable(n, r)
<1>1. /\ n \in Nat \ {0} /\ r \in Point(n) /\ E \in Table(n) /\ HatOf(h, p, E)
  BY BuildHat
<1>2. IsPolynomial(p) /\ p.aux_info.max_degree + 1 < P
  BY DEF CanMultiply
<1> HIDE DEF h, E
<1>3. evaluate(h, x) = evaluate(p, x) ** Extension(E, x)
  BY <1>1, <1>2, HatEvaluates, ZenonT(30)
<1>4. x \in Point(n)
  BY SeqIsPoint
<1>5. eq_eval(x, r) = Extension(E, x) /\ eq_eval(x, r) \in Field
  BY <1>1, <1>4, EqType DEF E
<1>6. evaluate(p, x) \in Field
  BY <1>2, EvaluateType
<1> QED BY <1>3, <1>5, <1>6 DEF h

LEMMA HatSum ==
  ASSUME NEW p, NEW r, CanMultiply(p, r)
  PROVE  PartialSum(build_f_hat(p, r), <<>>) = Extension(ValuesOf(p), r)
<1> DEFINE n == p.aux_info.num_variables
           h == build_f_hat(p, r)
           E == EqTable(n, r)
           A == [b \in Index(n) |-> evaluate(h, <<>> \o bit_decompose(b, n))]
           B == [b \in Index(n) |-> ValuesOf(p)[b] ** Basis(b, r)]
<1>1. /\ n \in Nat \ {0} /\ r \in Point(n) /\ E \in Table(n)
      /\ h.aux_info.num_variables = n
  BY BuildHat
<1>2. ASSUME NEW b \in Index(n)
      PROVE  A[b] = B[b]
  <2> DEFINE x == bit_decompose(b, n)
  <2>1. b \in Nat
    BY <1>1, IndexFacts
  <2>2. x \in Point(n)
    BY <1>1, <2>1, BitsPoint
  <2>3. x \in Seq(Field) /\ Len(x) = n
    <3> HIDE DEF x
    <3> QED BY <1>1, <2>2, PointIsSeq
  <2>4. <<>> \o x = x
    <3> HIDE DEF x
    <3> QED BY <2>3, ConcatEmptySeq
  <2>5. ValuesOf(p)[b] = evaluate(p, x)
    BY DEF ValuesOf
  <2>6. A[b] = evaluate(h, x)
    <3>1. A[b] = evaluate(h, <<>> \o x)
      OBVIOUS
    <3> QED BY <2>4, <3>1
  <2> HIDE DEF x, A, B
  <2>7. evaluate(h, x) = evaluate(p, x) ** eq_eval(x, r)
    BY <2>3, HatValue DEF n
  <2>8. eq_eval(x, r) = Basis(b, r)
    <3>1. eq_eval(x, r) = Extension(E, x)
      BY <1>1, <2>2, EqType
    <3>2. Extension(E, x) = E[b]
      <4>1. \A g \in Table(n) : \A c \in Index(n) : Extension(g, bit_decompose(c, n)) = g[c]
        BY <1>1, ExtensionAtIndex DEF AgreesAtIndices
      <4> HIDE DEF E
      <4> QED BY <1>1, <4>1 DEF x
    <3>3. E[b] = Basis(b, r)
      BY DEF EqTable
    <3> QED BY <3>1, <3>2, <3>3
  <2>9. B[b] = ValuesOf(p)[b] ** Basis(b, r)
    BY DEF B
  <2> QED BY <2>5, <2>6, <2>7, <2>8, <2>9
<1>3. A = B
  <2>1. DOMAIN A = DOMAIN B
    OBVIOUS
  <2> QED BY <1>2
<1>4. PartialSum(h, <<>>) = FSum(A)
  <2>1. n - Len(<<>>) = n
    BY <1>1
  <2> HIDE DEF h
  <2>2. h.aux_info.num_variables - Len(<<>>) = n
    BY <1>1, <2>1
  <2> QED BY <2>2 DEF PartialSum
<1>5. Extension(ValuesOf(p), r) = FSum(B)
  <2>1. DOMAIN ValuesOf(p) = Index(n)
    BY DEF ValuesOf
  <2> QED BY <2>1 DEF Extension
<1> QED BY <1>3, <1>4, <1>5

\* Of values that are all zero nothing is left.
LEMMA HatSumOfNothing ==
  ASSUME NEW p, NEW r, CanMultiply(p, r),
         \A b \in Index(p.aux_info.num_variables) : ValuesOf(p)[b] = 0
  PROVE  PartialSum(build_f_hat(p, r), <<>>) = 0
<1> DEFINE n == p.aux_info.num_variables
           B == [b \in Index(n) |-> ValuesOf(p)[b] ** Basis(b, r)]
<1>1. n \in Nat /\ r \in Point(n)
  BY BuildHat
<1>2. \A b \in Index(n) : B[b] = 0
  <2>1. \A b \in Index(n) : Basis(b, r) \in Field
    BY <1>1, BasisType
  <2>2. \A a \in Field : 0 ** a = 0
    BY FieldLaws
  <2> QED BY <2>1, <2>2
<1>3. Extension(ValuesOf(p), r) = FSum(B)
  <2>1. DOMAIN ValuesOf(p) = Index(n)
    BY DEF ValuesOf
  <2> QED BY <2>1 DEF Extension
<1>4. IsFiniteSet(Index(n)) /\ DOMAIN B = Index(n)
  BY <1>1, IndexFinite
<1> HIDE DEF B
<1>5. FSum(B) = 0
  BY <1>2, <1>4, FSumZero
<1> QED BY <1>3, <1>5, HatSum
---------------------------------------------------------------------------
(* The inductive invariant.                                                *)

\* The invariants of the SumCheck that runs inside.
InnerInv ==
  ControlInv /\ AcceptedInv /\ MessagesRead /\ PointHolds /\ (Parallel => RoundsInv)

ZeroShape ==
  /\ IsPolynomial(f) /\ f.aux_info.max_degree + 1 < P
  /\ r_prover \in Seq(Challenge) /\ r_verifier \in Seq(Challenge)
  /\ claimed_sum = 0

\* Whether the prover has drawn r, and what it proves then.
HatDrawn ==
  IF r_prover = <<>>
  THEN proof.proofs = <<>>
  ELSE /\ f.aux_info.num_variables # 0
       /\ Len(r_prover) = f.aux_info.num_variables
       /\ poly = build_f_hat(f, r_prover)
       /\ phase \notin {"prove", "proving"} =>
            Len(proof.proofs) = f.aux_info.num_variables

\* Which of the two calls runs, and where its SumCheck is.
ZeroProgress ==
  /\ zero_phase \in {"prove", "proving", "forge", "verifying", "done"}
  /\ zero_phase \in {"prove", "forge"} => phase = "prove" /\ r_prover = <<>>
  /\ zero_phase = "proving" =>
       phase \in {"prove", "proving", "proved"} /\ r_prover # <<>>
  /\ zero_phase \in {"prove", "forge", "proving"} => r_verifier = <<>>
  /\ zero_phase = "verifying" => phase \in {"proved", "verifying", "done"}
  /\ zero_phase = "verifying" \/ phase = "done" \/ r_verifier # <<>> =>
       Len(r_verifier) = aux_info.num_variables

\* What ZeroCheck::verify makes of the sub-claim of SumCheck::verify.
ZeroVerdict ==
  LET eq == eq_eval(result.point, r_verifier)
  IN  IF result.kind # "ok" THEN result
      ELSE IF eq = 0 THEN Panic
      ELSE [kind |-> "ok",
            point |-> result.point,
            expected_evaluation |-> result.expected_evaluation // eq,
            init_challenge |-> r_verifier]

ZeroOutcome ==
  /\ zero_phase # "done" => zero_result = Running
  /\ zero_phase = "done" =>
       IF phase = "done" THEN zero_result = ZeroVerdict ELSE zero_result.kind # "ok"

\* base: what the caller had put into both transcripts; pbase and vbase:
\* what the two calls of SumCheck find in them, r included once it is drawn.
BothDrawn(base, pbase, vbase) ==
  /\ VectorDrawn(pbase, oracle, base, r_prover)
  /\ VectorDrawn(vbase, oracle, base, r_verifier)
  /\ TranscriptInv(pbase, vbase)

ZeroControl == InnerInv /\ ZeroShape /\ HatDrawn /\ ZeroProgress /\ ZeroOutcome
ZeroTranscripts == \E base, pbase, vbase : BothDrawn(base, pbase, vbase)
ZeroInv == ZeroControl /\ ZeroTranscripts

LEMMA InitInner ==
  ASSUME ZeroInit
  PROVE  /\ InnerInv /\ ZeroShape
         /\ BothDrawn(prover_transcript.log, prover_transcript.log, prover_transcript.log)
<1>1. PICK a \in AuxInfos(f) : aux_info = [a EXCEPT !.max_degree = @ + 1]
  BY DEF ZeroInit
<1>2. f \in Polynomials /\ IsPolynomial(f) /\ a \in AuxInfo
  BY <1>1, InputTypes DEF ZeroInit
<1>3. f.aux_info.max_degree + 1 < P
  BY <1>2, HatAssumption
<1>4. /\ a = [num_variables |-> a.num_variables, max_degree |-> a.max_degree]
      /\ a.num_variables \in Nat /\ a.max_degree \in Nat
  BY <1>2 DEF AuxInfo
<1>5. aux_info \in AuxInfo
  <2>1. aux_info = [num_variables |-> a.num_variables, max_degree |-> a.max_degree + 1]
    BY <1>1, <1>4
  <2> QED BY <1>4, <2>1 DEF AuxInfo
<1>6. f.aux_info.num_variables \in Nat
  BY <1>2 DEF IsPolynomial, AuxInfo
<1>7. <<>> \in Seq(Challenge) /\ <<>> \in Seq({}) /\ Len(<<>>) = 0 /\ DOMAIN <<>> = {}
  BY EmptySeq
<1>8. IsSeq(<<>>)
  BY <1>7 DEF IsSeq
<1>9. /\ poly = f /\ claimed_sum = 0 /\ phase = "prove" /\ challenge = <<>>
      /\ prover_state = [round |-> 0, challenges |-> <<>>, mles |-> f.mles]
      /\ proof = [point |-> <<>>, proofs |-> <<>>]
      /\ verifier_state =
           [round |-> 1, finished |-> FALSE,
            num_vars |-> aux_info.num_variables, max_degree |-> aux_info.max_degree,
            polynomials_received |-> <<>>, challenges |-> <<>>]
      /\ DOMAIN oracle = {} /\ result = Running
      /\ r_prover = <<>> /\ r_verifier = <<>>
      /\ verifier_transcript = prover_transcript
  BY DEF ZeroInit, prover_init, verifier_init, NoAnswers
<1>10. Shape
  <2>1. ProverShape
    BY <1>7, <1>8, <1>9 DEF ProverShape
  <2>2. VerifierShape
    BY <1>7, <1>8, <1>9 DEF VerifierShape, Received
  <2> QED BY <1>2, <1>5, <1>9, <2>1, <2>2 DEF Shape
<1>11. Progress /\ TypeOK
  <2>1. aux_info.num_variables \in Nat
    BY <1>5 DEF AuxInfo
  <2> QED BY <1>6, <1>7, <1>9, <2>1 DEF Progress, TypeOK, Received
<1>12. ControlInv
  BY <1>10, <1>11 DEF ControlInv
<1>13. AcceptedInv /\ PointHolds /\ MessagesRead
  BY <1>7, <1>9 DEF AcceptedInv, PointHolds, MessagesRead, Received, Running
<1>14. RoundsInv
  <2>1. TablesHold /\ Decided
    BY <1>9 DEF TablesHold, Decided
  <2>2. ProofsHold
    BY <1>7, <1>9 DEF ProofsHold
  <2> QED BY <1>12, <1>13, <2>1, <2>2 DEF RoundsInv
<1>15. IsSeq(prover_transcript.log)
  <2> DEFINE e == <<"ZeroCheck">>
             e1 == <<"testing", "init">>
  <2>1. prover_transcript.log \in {<<e>>, Append(<<e>>, e1)}
    BY DEF ZeroInit, Begun, new, append
  <2> HIDE DEF e, e1
  <2>2. <<e>> \in Seq({e}) /\ Append(<<e>>, e1) \in Seq({e, e1})
    OBVIOUS
  <2> QED BY <2>1, <2>2, SeqIsSeq
<1>16. TranscriptInv(prover_transcript.log, prover_transcript.log)
  <2> DEFINE l == prover_transcript.log
  <2>1. Received = <<>> /\ Drawn = <<>> /\ 1 .. Len(<<>>) = {}
    BY <1>7, <1>9 DEF Received, Drawn
  <2>2. Histories(l, l)
    BY <1>9, <1>15, <2>1 DEF Histories
  <2>3. AnswersKnown(l, l) /\ InStep(l, l)
    BY <2>1 DEF AnswersKnown, InStep, ChallengesAgree
  <2> QED BY <1>12, <2>2, <2>3 DEF TranscriptInv
<1>17. BothDrawn(prover_transcript.log, prover_transcript.log, prover_transcript.log)
  BY <1>9, <1>15, <1>16, NothingDrawnYet DEF BothDrawn
<1>18. ZeroShape
  BY <1>2, <1>3, <1>7, <1>9 DEF ZeroShape
<1> QED BY <1>12, <1>13, <1>14, <1>17, <1>18 DEF InnerInv

LEMMA InitZero == ZeroInit => ZeroInv
<1> SUFFICES ASSUME ZeroInit PROVE ZeroInv
  OBVIOUS
<1>1. InnerInv /\ ZeroShape /\ ZeroTranscripts
  BY InitInner DEF ZeroTranscripts
<1>2. /\ phase = "prove" /\ zero_phase \in {"prove", "forge"}
      /\ proof.proofs = <<>> /\ r_prover = <<>> /\ r_verifier = <<>>
      /\ zero_result = Running
  BY InputAssumption DEF ZeroInit
<1>3. HatDrawn /\ ZeroProgress /\ ZeroOutcome
  BY <1>2 DEF HatDrawn, ZeroProgress, ZeroOutcome
<1> QED BY <1>1, <1>3 DEF ZeroInv, ZeroControl

\* A step of SumCheck keeps its inputs and forgets no answer of the hash.
LEMMA InnerFrame ==
  [Next]_vars => UNCHANGED <<poly, aux_info, claimed_sum>> /\ Grows(oracle, oracle')
<1> SUFFICES ASSUME [Next]_vars
             PROVE  UNCHANGED <<poly, aux_info, claimed_sum>> /\ Grows(oracle, oracle')
  OBVIOUS
<1>1. ASSUME UNCHANGED inputs, oracle' = oracle
      PROVE  UNCHANGED <<poly, aux_info, claimed_sum>> /\ Grows(oracle, oracle')
  BY <1>1 DEF inputs, Grows
<1>2. ASSUME UNCHANGED inputs, NEW q, NEW c \in Answers(oracle, q),
             oracle' = Record(oracle, q, c)
      PROVE  UNCHANGED <<poly, aux_info, claimed_sum>> /\ Grows(oracle, oracle')
  BY <1>2, RecordKeeps DEF inputs, Grows
<1>3. CASE ProveBegin
  BY <1>1, <1>3 DEF ProveBegin
<1>4. CASE ProveRound
  <2>1. PICK q, c : c \in Answers(oracle, q) /\ oracle' = Record(oracle, q, c)
    BY <1>4 DEF ProveRound
  <2> QED BY <1>2, <1>4, <2>1 DEF ProveRound
<1>5. CASE ProveEnd
  BY <1>1, <1>5 DEF ProveEnd
<1>6. CASE VerifyBegin
  BY <1>1, <1>6 DEF VerifyBegin
<1>7. ASSUME NEW m \in Message, VerifyRound(m)
      PROVE  UNCHANGED <<poly, aux_info, claimed_sum>> /\ Grows(oracle, oracle')
  <2>1. PICK q, c : c \in Answers(oracle, q) /\ oracle' = Record(oracle, q, c)
    BY <1>7 DEF VerifyRound
  <2> QED BY <1>2, <1>7, <2>1 DEF VerifyRound
<1>8. CASE VerifyIncomplete
  BY <1>1, <1>8 DEF VerifyIncomplete
<1>9. CASE VerifyEnd
  BY <1>1, <1>9 DEF VerifyEnd
<1>10. CASE UNCHANGED vars
  BY <1>1, <1>10 DEF vars, inputs
<1> QED BY <1>3, <1>4, <1>5, <1>6, <1>7, <1>8, <1>9, <1>10 DEF Next

\* What a step of SumCheck leaves of the invariant, and one that moves none
\* of its variables.
LEMMA InnerStep ==
  ASSUME ZeroInv, [Next]_vars, UNCHANGED <<f, r_prover, r_verifier>>
  PROVE  InnerInv' /\ ZeroShape' /\ ZeroTranscripts'
<1>1. InnerInv /\ ZeroShape
  BY DEF ZeroInv, ZeroControl
<1>2. PICK base, pbase, vbase : BothDrawn(base, pbase, vbase)
  BY DEF ZeroInv, ZeroTranscripts
<1>3. UNCHANGED <<poly, aux_info, claimed_sum>> /\ Grows(oracle, oracle')
  BY InnerFrame
<1>4. ControlInv' /\ AcceptedInv' /\ MessagesRead' /\ PointHolds' /\ (Parallel => RoundsInv')
  BY <1>1, StepControl, StepAccepted, StepMessages, StepPoint, StepRounds DEF InnerInv
<1>5. TranscriptInv(pbase, vbase)'
  BY <1>2, StepTranscripts DEF BothDrawn
<1>6. /\ VectorDrawn(pbase, oracle', base, r_prover)
      /\ VectorDrawn(vbase, oracle', base, r_verifier)
  BY <1>2, <1>3, VectorStaysKnown DEF BothDrawn
<1>7. BothDrawn(base, pbase, vbase)'
  BY <1>5, <1>6 DEF BothDrawn
<1> QED BY <1>1, <1>3, <1>4, <1>7 DEF InnerInv, ZeroShape, ZeroTranscripts

LEMMA InnerStutter ==
  ASSUME ZeroInv, UNCHANGED <<vars, f, r_prover, r_verifier>>
  PROVE  InnerInv' /\ ZeroShape' /\ ZeroTranscripts'
BY InnerStep

---------------------------------------------------------------------------
(* The steps of ZeroCheck itself.                                          *)

\* The two draws of r, as steps of their own.
ProverDraws ==
  /\ f.aux_info.num_variables > 0
  /\ \E d \in Draws(prover_transcript, oracle, ZeroLabel, f.aux_info.num_variables) :
       prover_transcript' = d.transcript /\ oracle' = d.oracle /\ r_prover' = d.values
  /\ poly' = build_f_hat(f, r_prover')
  /\ prover_state' = prover_init(poly')
  /\ zero_phase' = "proving"
  /\ UNCHANGED <<aux_info, claimed_sum, phase, challenge, proof, verifierVars,
                 result, zero_result>>

VerifierDraws ==
  /\ \E d \in Draws(verifier_transcript, oracle, ZeroLabel, aux_info.num_variables) :
       verifier_transcript' = d.transcript /\ oracle' = d.oracle /\ r_verifier' = d.values
  /\ zero_phase' = "verifying"
  /\ phase' = "proved"
  /\ UNCHANGED <<inputs, proverVars, verifier_state, result, zero_result>>

GivesUp ==
  /\ zero_result'.kind # "ok" /\ zero_phase' = "done"
  /\ UNCHANGED <<vars, f, r_prover, r_verifier>>

LEMMA FailGivesUp ==
  ASSUME NEW why, why.kind # "ok", Fail(why), UNCHANGED <<vars, f, r_prover, r_verifier>>
  PROVE  GivesUp
BY DEF Fail, GivesUp

LEMMA ZeroProveCases ==
  ASSUME ZeroProve
  PROVE  /\ zero_phase = "prove" /\ UNCHANGED <<f, r_verifier>>
         /\ GivesUp \/ ProverDraws
<1>1. zero_phase = "prove" /\ UNCHANGED <<f, first, r_verifier>>
  BY DEF ZeroProve
<1>2. CASE \E why \in {"InvalidTranscript", "ArithErrors"} :
             Fail(Err(why)) /\ UNCHANGED <<vars, r_prover>>
  <2>1. PICK why : Fail(Err(why)) /\ UNCHANGED <<vars, r_prover>>
    BY <1>2
  <2>2. Err(why).kind # "ok"
    BY DEF Err
  <2> QED BY <1>1, <2>1, <2>2, FailGivesUp
<1>3. CASE ProverDraws
  BY <1>1, <1>3
<1>4. \/ \E why \in {"InvalidTranscript", "ArithErrors"} :
           Fail(Err(why)) /\ UNCHANGED <<vars, r_prover>>
      \/ ProverDraws
  BY ZenonT(60) DEF ZeroProve, ProverDraws, ZeroLabel
<1> QED BY <1>2, <1>3, <1>4

LEMMA ZeroVerifyCases ==
  ASSUME NEW m, ZeroVerify(m)
  PROVE  /\ CanVerify /\ UNCHANGED <<f, r_prover>>
         /\ GivesUp \/ VerifierDraws
<1>1. CanVerify /\ UNCHANGED <<f, r_prover>>
  BY DEF ZeroVerify
<1>2. CASE \E why \in {Panic, Err("InvalidProof"), Err("InvalidTranscript")} :
             Fail(why) /\ UNCHANGED <<vars, r_verifier>>
  <2>1. PICK why \in {Panic, Err("InvalidProof"), Err("InvalidTranscript")} :
          Fail(why) /\ UNCHANGED <<vars, r_verifier>>
    BY <1>2
  <2>2. why.kind # "ok"
    BY DEF Err, Panic
  <2> QED BY <1>1, <2>1, <2>2, FailGivesUp
<1>3. \/ \E why \in {Panic, Err("InvalidProof"), Err("InvalidTranscript")} :
           Fail(why) /\ UNCHANGED <<vars, r_verifier>>
      \/ VerifierDraws
  BY ZenonT(60) DEF ZeroVerify, VerifierDraws, ZeroLabel
<1> QED BY <1>1, <1>2, <1>3

\* Giving up leaves everything in order.
LEMMA GivingUpKeeps ==
  ASSUME ZeroInv, GivesUp, phase # "done"
  PROVE  ZeroInv'
<1>1. InnerInv' /\ ZeroShape' /\ ZeroTranscripts'
  BY InnerStutter DEF GivesUp
<1>2. /\ zero_phase' = "done" /\ zero_result'.kind # "ok"
      /\ UNCHANGED <<f, r_prover, r_verifier, proof, poly, phase, aux_info>>
  BY DEF GivesUp, vars
<1>3. HatDrawn' /\ ZeroProgress' /\ ZeroOutcome'
  BY <1>2 DEF ZeroInv, ZeroControl, HatDrawn, ZeroProgress, ZeroOutcome
<1> QED BY <1>1, <1>3 DEF ZeroInv, ZeroControl

\* The prover draws r and turns to f_hat.
LEMMA ProverDrawsKeeps ==
  ASSUME ZeroInv, zero_phase = "prove", UNCHANGED <<f, r_verifier>>, ProverDraws
  PROVE  ZeroInv'
<1> DEFINE n == f.aux_info.num_variables
<1>1. /\ ControlInv /\ AcceptedInv /\ PointHolds /\ ZeroShape
      /\ HatDrawn /\ ZeroProgress /\ ZeroOutcome
  BY DEF ZeroInv, ZeroControl, InnerInv
<1>2. PICK base, pbase, vbase : BothDrawn(base, pbase, vbase)
  BY DEF ZeroInv, ZeroTranscripts
<1>3. /\ phase = "prove" /\ r_prover = <<>> /\ r_verifier = <<>>
      /\ proof.proofs = <<>> /\ zero_result = Running
  BY <1>1 DEF ZeroProgress, ZeroOutcome, HatDrawn
<1>4. /\ prover_state.round = 0 /\ proof.point = <<>> /\ Received = <<>>
      /\ challenge = <<>> /\ result = Running
  BY <1>1, <1>3 DEF ControlInv, Progress, TypeOK
<1>5. PICK d \in Draws(prover_transcript, oracle, ZeroLabel, n) :
        prover_transcript' = d.transcript /\ oracle' = d.oracle /\ r_prover' = d.values
  BY DEF ProverDraws
<1>6. /\ poly' = build_f_hat(f, r_prover') /\ prover_state' = prover_init(poly')
      /\ zero_phase' = "proving" /\ n > 0
      /\ UNCHANGED <<aux_info, claimed_sum, phase, challenge, proof, verifier_state,
                     verifier_transcript, result, zero_result>>
  BY DEF ProverDraws, verifierVars
<1>7. prover_transcript.log = pbase /\ verifier_transcript.log = vbase
      /\ IsSeq(pbase) /\ IsSeq(vbase)
  BY <1>2, <1>3 DEF BothDrawn, TranscriptInv, Histories
<1>8. Drew(d, prover_transcript, oracle, n)
  <2>1. n \in Nat
    BY <1>1 DEF ZeroShape, IsPolynomial, AuxInfo
  <2>2. \A q \in DOMAIN oracle : oracle[q] \in Challenge
    BY <1>1 DEF ControlInv, Shape
  <2> HIDE DEF n
  <2> QED BY <1>5, <1>7, <2>1, <2>2, DrawsFacts
<1>9. /\ r_prover' \in Seq(Challenge) /\ Len(r_prover') = n
      /\ Grows(oracle, oracle') /\ \A q \in DOMAIN oracle' : oracle'[q] \in Challenge
      /\ VectorDrawn(prover_transcript'.log, oracle', pbase, r_prover')
  BY <1>5, <1>7, <1>8 DEF Drew
<1>10. n # 0 /\ r_prover' # <<>>
  <2>1. n \in Nat
    BY <1>1 DEF ZeroShape, IsPolynomial, AuxInfo
  <2> HIDE DEF n
  <2> QED BY <1>6, <1>9, <2>1, EmptySeq
<1>11. CanMultiply(f, r_prover')
  <2>1. r_prover' \in Seq(Field)
    BY <1>9, InputAssumption, SeqMonotonic
  <2> QED BY <1>1, <1>9, <1>10, <2>1 DEF CanMultiply, ZeroShape
<1>12. IsPolynomial(poly')
  BY <1>6, <1>11, BuildHat
<1>13. ControlInv'
  <2>1. poly'.aux_info.num_variables \in Nat
    BY <1>12 DEF IsPolynomial, AuxInfo
  <2>2. prover_state' = [round |-> 0, challenges |-> <<>>, mles |-> poly'.mles]
    BY <1>6 DEF prover_init
  <2>3. Received' = Received
    BY <1>6 DEF Received
  <2>4. Len(<<>>) = 0 /\ <<>> \in Seq(Challenge)
    BY EmptySeq
  <2>5. Shape'
    <3>1. ProverShape'
      <4>1. /\ proof = [point |-> proof.point, proofs |-> proof.proofs]
            /\ IsSeq(proof.proofs) /\ proof.point \in Seq(Challenge)
        BY <1>1 DEF ControlInv, Shape, ProverShape
      <4>2. proof' = proof /\ challenge' = <<>>
        BY <1>4, <1>6
      <4>3. IsSeq(proof'.proofs)
        BY <4>1, <4>2 DEF IsSeq
      <4> QED BY <2>2, <2>4, <4>1, <4>2, <4>3 DEF ProverShape
    <3>2. VerifierShape'
      BY <1>1, <1>6, <2>3 DEF ControlInv, Shape, VerifierShape
    <3> QED BY <1>1, <1>6, <1>9, <1>12, <3>1, <3>2 DEF ControlInv, Shape
  <2>6. Progress'
    BY <1>1, <1>3, <1>4, <1>6, <2>2, <2>3 DEF Progress
  <2>7. TypeOK'
    BY <1>1, <1>3, <1>4, <1>6, <2>1, <2>2, <2>3, <2>4 DEF ControlInv, TypeOK
  <2> QED BY <2>5, <2>6, <2>7 DEF ControlInv
<1>14. AcceptedInv' /\ PointHolds' /\ MessagesRead'
  <2>1. DOMAIN <<>> = {}
    BY EmptySeq
  <2> QED BY <1>3, <1>4, <1>6, <2>1 DEF AcceptedInv, PointHolds, MessagesRead, Received, Running
<1>15. Parallel => RoundsInv'
  <2>1. TablesHold' /\ Decided'
    BY <1>3, <1>6 DEF TablesHold, Decided, prover_init
  <2>2. ProofsHold'
    <3>1. 1 .. Len(<<>>) = {}
      BY EmptySeq
    <3> QED BY <1>3, <1>6, <3>1 DEF ProofsHold
  <2> QED BY <1>13, <1>14, <2>1, <2>2 DEF RoundsInv
<1>16. ZeroTranscripts'
  <2>0. PICK l : l = prover_transcript'.log
    OBVIOUS
  <2>1. base = pbase
    <3>1. VectorDrawn(pbase, oracle, base, <<>>)
      BY <1>2, <1>3 DEF BothDrawn
    <3>2. IsSeq(base) /\ <<>> \in Seq(Challenge)
      BY <3>1, EmptySeq DEF VectorDrawn, VectorLog
    <3>3. VectorDrawn(base, oracle, base, <<>>)
      BY <3>2, NothingDrawnYet
    <3> QED BY <3>1, <3>2, <3>3, VectorUnique
  <2>2. VectorDrawn(vbase, oracle', base, r_verifier')
    BY <1>2, <1>9, VectorStaysKnown DEF BothDrawn
  <2>3. /\ Received' = <<>> /\ Drawn' = <<>> /\ 1 .. Len(<<>>) = {}
    BY <1>3, <1>4, <1>6, EmptySeq DEF Received, Drawn
  <2>4. IsSeq(l)
    BY <1>9, <2>0 DEF VectorDrawn, VectorLog
  <2>5. Histories(l, vbase)'
    <3>1. phase' = "prove" /\ proof'.proofs = <<>> /\ verifier_transcript'.log = vbase
      BY <1>3, <1>6, <1>7
    <3> QED BY <1>7, <2>0, <2>3, <2>4, <3>1 DEF Histories
  <2>6. AnswersKnown(l, vbase)' /\ InStep(l, vbase)'
    BY <2>3 DEF AnswersKnown, InStep, ChallengesAgree
  <2>7. VectorDrawn(l, oracle', base, r_prover')
    BY <1>9, <2>0, <2>1
  <2>8. TranscriptInv(l, vbase)'
    BY <1>13, <2>5, <2>6 DEF TranscriptInv
  <2>9. BothDrawn(base, l, vbase)'
    BY <2>2, <2>7, <2>8 DEF BothDrawn
  <2> QED BY <2>9 DEF ZeroTranscripts
<1>17. ZeroShape'
  BY <1>1, <1>6, <1>9 DEF ZeroShape
<1>18. HatDrawn'
  BY <1>3, <1>6, <1>9, <1>10 DEF HatDrawn
<1>19. ZeroProgress' /\ ZeroOutcome'
  BY <1>3, <1>6, <1>10 DEF ZeroProgress, ZeroOutcome
<1> QED BY <1>13, <1>14, <1>15, <1>17, <1>16, <1>18, <1>19
        DEF ZeroInv, ZeroControl, InnerInv

\* The verifier draws r, also of a proof nobody has made.
LEMMA VerifierDrawsKeeps ==
  ASSUME ZeroInv, CanVerify, UNCHANGED <<f, r_prover>>, VerifierDraws
  PROVE  ZeroInv'
<1> DEFINE n == aux_info.num_variables
<1>1. /\ ControlInv /\ AcceptedInv /\ PointHolds /\ ZeroShape
      /\ HatDrawn /\ ZeroProgress /\ ZeroOutcome
  BY DEF ZeroInv, ZeroControl, InnerInv
<1>2. PICK base, pbase, vbase : BothDrawn(base, pbase, vbase)
  BY DEF ZeroInv, ZeroTranscripts
<1>3. /\ zero_phase \in {"proving", "forge"} /\ phase \in {"prove", "proved"}
      /\ phase = "prove" => r_prover = <<>>
      /\ r_verifier = <<>> /\ zero_result = Running
  BY <1>1 DEF CanVerify, ZeroProgress, ZeroOutcome
<1>4. /\ Received = <<>> /\ result = Running
      /\ phase = "prove" => /\ prover_state.round = 0 /\ proof.point = <<>>
                            /\ Len(proof.proofs) = 0
  BY <1>1, <1>3 DEF ControlInv, Progress, TypeOK
<1>5. PICK d \in Draws(verifier_transcript, oracle, ZeroLabel, n) :
        verifier_transcript' = d.transcript /\ oracle' = d.oracle /\ r_verifier' = d.values
  BY DEF VerifierDraws
<1>6. /\ zero_phase' = "verifying" /\ phase' = "proved"
      /\ UNCHANGED <<poly, aux_info, claimed_sum, prover_state, prover_transcript, challenge,
                     proof, verifier_state, result, zero_result>>
  BY DEF VerifierDraws, inputs, proverVars
<1>7. verifier_transcript.log = vbase /\ IsSeq(pbase) /\ IsSeq(vbase)
  BY <1>2, <1>3 DEF BothDrawn, TranscriptInv, Histories
<1>8. Drew(d, verifier_transcript, oracle, n)
  <2>1. n \in Nat /\ \A q \in DOMAIN oracle : oracle[q] \in Challenge
    BY <1>1 DEF ControlInv, Shape, AuxInfo
  <2> HIDE DEF n
  <2> QED BY <1>5, <1>7, <2>1, DrawsFacts
<1>9. /\ r_verifier' \in Seq(Challenge) /\ Len(r_verifier') = n
      /\ Grows(oracle, oracle') /\ \A q \in DOMAIN oracle' : oracle'[q] \in Challenge
      /\ VectorDrawn(verifier_transcript'.log, oracle', vbase, r_verifier')
  BY <1>5, <1>7, <1>8 DEF Drew
<1>10. UNCHANGED <<Received, Chs, Drawn>>
  BY <1>3, <1>6 DEF Received, Chs, Drawn
<1>11. ControlInv'
  <2>1. Shape'
    <3>1. ProverShape'
      <4>1. UNCHANGED ProverShape
        BY <1>6 DEF ProverShape, IsSeq
      <4> QED BY <1>1, <4>1 DEF ControlInv, Shape
    <3>2. VerifierShape'
      BY <1>1, <1>6, <1>10 DEF ControlInv, Shape, VerifierShape
    <3> QED BY <1>1, <1>6, <1>9, <3>1, <3>2 DEF ControlInv, Shape
  <2>2. Progress'
    BY <1>1, <1>3, <1>4, <1>6, <1>10 DEF ControlInv, Progress
  <2>3. TypeOK'
    BY <1>1, <1>6, <1>10 DEF ControlInv, TypeOK
  <2> QED BY <2>1, <2>2, <2>3 DEF ControlInv
<1>12. AcceptedInv' /\ PointHolds' /\ MessagesRead'
  <2>1. PointHolds'
    <3>1. CASE phase = "prove"
      <4>1. Len(proof.point) = 0
        BY <1>4, <3>1, EmptySeq
      <4> QED BY <1>4, <1>6, <3>1, <4>1 DEF PointHolds
    <3>2. CASE phase = "proved"
      BY <1>1, <1>6, <3>2 DEF PointHolds
    <3> QED BY <1>3, <3>1, <3>2
  <2>2. DOMAIN <<>> = {}
    BY EmptySeq
  <2> QED BY <1>4, <1>6, <1>10, <2>1, <2>2 DEF AcceptedInv, MessagesRead, Running
<1>13. Parallel => RoundsInv'
  <2> SUFFICES ASSUME Parallel PROVE RoundsInv'
    OBVIOUS
  <2>1. TablesHold' /\ Decided'
    BY <1>6 DEF TablesHold, Decided
  <2>2. ProofsHold'
    BY <1>6, <1>10, ProofsStay DEF ZeroInv, ZeroControl, InnerInv, RoundsInv
  <2> QED BY <1>11, <1>12, <2>1, <2>2 DEF RoundsInv
<1>14. HatDrawn'
  <2>1. CASE r_prover = <<>>
    BY <1>1, <1>6, <2>1 DEF HatDrawn
  <2>2. CASE r_prover # <<>>
    BY <1>1, <1>3, <1>6, <2>2 DEF HatDrawn
  <2> QED BY <2>1, <2>2
<1>15. ZeroTranscripts'
  <2>0. PICK l : l = verifier_transcript'.log
    OBVIOUS
  <2>1. base = vbase
    <3>1. VectorDrawn(vbase, oracle, base, <<>>)
      BY <1>2, <1>3 DEF BothDrawn
    <3>2. IsSeq(base) /\ <<>> \in Seq(Challenge)
      BY <3>1, EmptySeq DEF VectorDrawn, VectorLog
    <3>3. VectorDrawn(base, oracle, base, <<>>)
      BY <3>2, NothingDrawnYet
    <3> QED BY <3>1, <3>2, <3>3, VectorUnique
  <2>2. VectorDrawn(pbase, oracle', base, r_prover')
    BY <1>2, <1>9, VectorStaysKnown DEF BothDrawn
  <2>3. VectorDrawn(l, oracle', base, r_verifier')
    BY <1>9, <2>0, <2>1
  <2>4. IsSeq(l) /\ 1 .. Len(<<>>) = {}
    BY <2>3, EmptySeq DEF VectorDrawn, VectorLog
  <2>5. Histories(pbase, l)'
    <3>1. Histories(pbase, vbase)
      BY <1>2 DEF BothDrawn, TranscriptInv
    <3>2. proof.proofs # <<>> => ProverHistory(pbase)'
      BY <1>6, <1>10, <3>1, HistoryStays DEF Histories
    <3> QED BY <1>4, <1>6, <1>7, <1>10, <2>0, <2>4, <3>2 DEF Histories
  <2>6. AnswersKnown(pbase, l)' /\ InStep(pbase, l)'
    <3>1. \A i \in 1 .. Len(Drawn) : \E q \in DOMAIN oracle :
            Asks(q, pbase, poly.aux_info, proof.proofs, Drawn, i) /\ oracle[q] = Drawn[i]
      BY <1>2 DEF BothDrawn, TranscriptInv, AnswersKnown
    <3>2. \A i \in 1 .. Len(Drawn) : \E q \in DOMAIN oracle' :
            Asks(q, pbase, poly.aux_info, proof.proofs, Drawn, i) /\ oracle'[q] = Drawn[i]
      BY <1>9, <3>1 DEF Grows
    <3>3. 1 .. Len(Received') = {}
      BY <1>4, <1>10, <2>4
    <3>4. AnswersKnown(pbase, l)'
      BY <1>6, <1>10, <3>2, <3>3 DEF AnswersKnown
    <3>5. ChallengesAgree'
      BY <3>3 DEF ChallengesAgree
    <3> QED BY <3>4, <3>5 DEF InStep
  <2>7. TranscriptInv(pbase, l)'
    BY <1>11, <2>5, <2>6 DEF TranscriptInv
  <2>8. BothDrawn(base, pbase, l)'
    BY <2>2, <2>3, <2>7 DEF BothDrawn
  <2> QED BY <2>8 DEF ZeroTranscripts
<1>16. ZeroShape'
  BY <1>1, <1>6, <1>9 DEF ZeroShape
<1>17. ZeroProgress' /\ ZeroOutcome'
  BY <1>3, <1>6, <1>9 DEF ZeroProgress, ZeroOutcome
<1> QED BY <1>11, <1>12, <1>13, <1>14, <1>15, <1>16, <1>17
        DEF ZeroInv, ZeroControl, InnerInv

\* f_hat has as many variables as f: none of the prover's calls ends early.
LEMMA HatVariables ==
  ASSUME ZeroShape, HatDrawn, r_prover # <<>>
  PROVE  /\ CanMultiply(f, r_prover)
         /\ poly.aux_info.num_variables = f.aux_info.num_variables
         /\ f.aux_info.num_variables \in Nat \ {0}
<1>1. r_prover \in Seq(Field)
  BY InputAssumption, SeqMonotonic DEF ZeroShape
<1>2. CanMultiply(f, r_prover)
  BY <1>1 DEF CanMultiply, ZeroShape, HatDrawn
<1>3. LET h == build_f_hat(f, r_prover)
      IN  /\ f.aux_info.num_variables \in Nat \ {0}
          /\ h.aux_info.num_variables = f.aux_info.num_variables
  BY <1>2, BuildHat
<1> QED BY <1>2, <1>3 DEF HatDrawn

\* The SumCheck the prover's call runs.
LEMMA SumCheckProveKeeps ==
  ASSUME ZeroInv, SumCheckProve
  PROVE  ZeroInv'
<1>1. /\ ControlInv /\ ZeroShape /\ HatDrawn /\ ZeroProgress /\ ZeroOutcome
  BY DEF ZeroInv, ZeroControl, InnerInv
<1>2. /\ zero_phase = "proving" /\ UNCHANGED zeroVars
      /\ ProveBegin \/ ProveRound \/ ProveEnd
  BY DEF SumCheckProve
<1>3. UNCHANGED <<f, zero_phase, r_prover, r_verifier, zero_result>>
  BY <1>2 DEF zeroVars
<1>4. [Next]_vars
  BY <1>2 DEF Next
<1>5. InnerInv' /\ ZeroShape' /\ ZeroTranscripts'
  BY <1>3, <1>4, InnerStep
<1>6. r_prover # <<>> /\ r_verifier = <<>> /\ zero_result = Running
  BY <1>1, <1>2 DEF ZeroProgress, ZeroOutcome
<1>7. /\ poly.aux_info.num_variables = f.aux_info.num_variables
      /\ f.aux_info.num_variables \in Nat \ {0}
  BY <1>1, <1>6, HatVariables
<1>8. /\ phase' \in {"proving", "proved"} /\ poly' = poly
      /\ phase' = "proved" => Len(proof'.proofs) = f.aux_info.num_variables
  <2>1. CASE ProveBegin
    BY <1>7, <2>1 DEF ProveBegin, inputs
  <2>2. CASE ProveRound
    BY <2>2 DEF ProveRound, inputs
  <2>3. CASE ProveEnd
    <3>1. /\ ~ Active(poly, prover_state) /\ phase' = "proved" /\ poly' = poly
          /\ proof' = [proof EXCEPT !.point = prover_state'.challenges]
      BY <2>3 DEF ProveEnd, inputs
    <3>2. /\ proof = [point |-> proof.point, proofs |-> proof.proofs]
          /\ prover_state.round = Len(proof.proofs) /\ prover_state.round \in Nat
          /\ prover_state.round <= poly.aux_info.num_variables
      BY <1>1 DEF ControlInv, Shape, ProverShape, TypeOK
    <3>3. proof'.proofs = proof.proofs
      BY <3>1, <3>2
    <3>4. ~ prover_state.round < poly.aux_info.num_variables
      BY <3>1 DEF Active
    <3>5. Len(proof.proofs) = f.aux_info.num_variables
      BY <1>7, <3>2, <3>4
    <3> QED BY <3>1, <3>3, <3>5
  <2> QED BY <1>2, <2>1, <2>2, <2>3
<1>9. HatDrawn'
  BY <1>1, <1>3, <1>6, <1>8 DEF HatDrawn
<1>10. ZeroProgress' /\ ZeroOutcome'
  BY <1>2, <1>3, <1>6, <1>8 DEF ZeroProgress, ZeroOutcome
<1> QED BY <1>5, <1>9, <1>10 DEF ZeroInv, ZeroControl

\* The SumCheck the verifier's call runs.
LEMMA SumCheckVerifyKeeps ==
  ASSUME ZeroInv, SumCheckVerify
  PROVE  ZeroInv'
<1>1. /\ HatDrawn /\ ZeroProgress /\ ZeroOutcome
  BY DEF ZeroInv, ZeroControl
<1>2. /\ zero_phase = "verifying" /\ UNCHANGED zeroVars
      /\ VerifyBegin \/ (\E m \in Message : VerifyRound(m)) \/ VerifyIncomplete \/ VerifyEnd
  BY DEF SumCheckVerify
<1>3. UNCHANGED <<f, zero_phase, r_prover, r_verifier, zero_result>>
  BY <1>2 DEF zeroVars
<1>4. [Next]_vars
  BY <1>2 DEF Next
<1>5. InnerInv' /\ ZeroShape' /\ ZeroTranscripts'
  BY <1>3, <1>4, InnerStep
<1>6. /\ phase' \in {"verifying", "done"} /\ UNCHANGED <<poly, aux_info, proof>>
  BY <1>2 DEF VerifyBegin, VerifyRound, VerifyIncomplete, VerifyEnd, inputs, proverVars
<1>7. phase \notin {"prove", "proving"} /\ zero_result = Running
  BY <1>1, <1>2 DEF ZeroProgress, ZeroOutcome
<1>8. HatDrawn'
  BY <1>1, <1>3, <1>6, <1>7 DEF HatDrawn
<1>9. ZeroProgress' /\ ZeroOutcome'
  BY <1>1, <1>2, <1>3, <1>6, <1>7 DEF ZeroProgress, ZeroOutcome
<1> QED BY <1>5, <1>8, <1>9 DEF ZeroInv, ZeroControl

LEMMA StepZero == ZeroInv /\ [ZeroNext]_allVars => ZeroInv'
<1> SUFFICES ASSUME ZeroInv, [ZeroNext]_allVars PROVE ZeroInv'
  OBVIOUS
<1>1. HatDrawn /\ ZeroProgress /\ ZeroOutcome
  BY DEF ZeroInv, ZeroControl
<1>2. CASE ZeroProve
  <2>1. phase # "done"
    BY <1>1, <1>2, ZeroProveCases DEF ZeroProgress
  <2> QED BY <1>2, <2>1, ZeroProveCases, GivingUpKeeps, ProverDrawsKeeps
<1>3. CASE SumCheckProve
  BY <1>3, SumCheckProveKeeps
<1>a. CanVerify => phase # "done"
  BY <1>1 DEF CanVerify, ZeroProgress
<1>4. ASSUME NEW m \in Message, ZeroVerify(m)
      PROVE  ZeroInv'
  BY <1>4, <1>a, ZeroVerifyCases, GivingUpKeeps, VerifierDrawsKeeps
<1>5. CASE ZeroVerifyEmpty
  <2>1. GivesUp
    <3>1. Panic.kind # "ok"
      BY DEF Panic
    <3> QED BY <1>5, <3>1, FailGivesUp DEF ZeroVerifyEmpty
  <2> QED BY <1>5, <1>a, <2>1, GivingUpKeeps DEF ZeroVerifyEmpty
<1>6. CASE SumCheckVerify
  BY <1>6, SumCheckVerifyKeeps
<1>7. CASE ZeroVerifyEnd
  <2>1. /\ zero_phase = "verifying" /\ phase = "done"
        /\ zero_result' = ZeroVerdict /\ zero_phase' = "done"
        /\ UNCHANGED <<vars, f, r_prover, r_verifier>>
    BY <1>7 DEF ZeroVerifyEnd, Fail, ZeroVerdict
  <2>2. InnerInv' /\ ZeroShape' /\ ZeroTranscripts'
    BY <2>1, InnerStutter
  <2>3. UNCHANGED <<proof, poly, phase, aux_info, result>>
    BY <2>1 DEF vars
  <2>4. ZeroVerdict' = ZeroVerdict
    BY <2>1, <2>3 DEF ZeroVerdict
  <2>5. HatDrawn' /\ ZeroProgress' /\ ZeroOutcome'
    BY <1>1, <2>1, <2>3, <2>4 DEF HatDrawn, ZeroProgress, ZeroOutcome
  <2> QED BY <2>2, <2>5 DEF ZeroInv, ZeroControl
<1>8. CASE UNCHANGED allVars
  <2>1. UNCHANGED <<vars, f, zero_phase, r_prover, r_verifier, zero_result>>
    BY <1>8 DEF allVars, zeroVars
  <2>2. InnerInv' /\ ZeroShape' /\ ZeroTranscripts'
    BY <2>1, InnerStutter
  <2>3. UNCHANGED <<proof, poly, phase, aux_info, result>>
    BY <2>1 DEF vars
  <2>4. ZeroVerdict' = ZeroVerdict
    BY <2>1, <2>3 DEF ZeroVerdict
  <2>5. HatDrawn' /\ ZeroProgress' /\ ZeroOutcome'
    BY <1>1, <2>1, <2>3, <2>4 DEF HatDrawn, ZeroProgress, ZeroOutcome
  <2> QED BY <2>2, <2>5 DEF ZeroInv, ZeroControl
<1> QED BY <1>2, <1>3, <1>4, <1>5, <1>6, <1>7, <1>8 DEF ZeroNext

LEMMA ZeroInvariant == ZeroSpec => []ZeroInv
BY InitZero, StepZero, PTL DEF ZeroSpec

---------------------------------------------------------------------------
(* Both sides draw the same r.                                             *)

LEMMA SameVectors ==
  ASSUME NEW base, NEW pbase, NEW vbase, BothDrawn(base, pbase, vbase), ZeroShape,
         Len(r_prover) = Len(r_verifier)
  PROVE  r_prover = r_verifier /\ pbase = vbase
BY VectorUnique DEF BothDrawn, ZeroShape

\* A proof delivered as it was written, read with the aux info of f_hat: the
\* verifier's challenges are the prover's, and so are the transcripts.
HatDelivered ==
  /\ phase \in {"proved", "verifying", "done"} /\ r_prover # <<>>
  /\ Received = proof.proofs /\ Len(Received) = aux_info.num_variables
  /\ aux_info = poly.aux_info
  /\ Len(r_verifier) = aux_info.num_variables

LEMMA HatDeliveredFacts ==
  ASSUME ZeroInv, HatDelivered
  PROVE  /\ r_prover = r_verifier /\ ChallengesAgree
         /\ Len(Received) > 0
         /\ verifier_transcript = prover_transcript
<1> DEFINE n == f.aux_info.num_variables
<1>1. /\ ControlInv /\ PointHolds /\ ZeroShape /\ HatDrawn
  BY DEF ZeroInv, ZeroControl, InnerInv
<1>2. PICK base, pbase, vbase : BothDrawn(base, pbase, vbase)
  BY DEF ZeroInv, ZeroTranscripts
<1>3. /\ CanMultiply(f, r_prover) /\ poly.aux_info.num_variables = n /\ n \in Nat \ {0}
  BY <1>1, HatVariables DEF HatDelivered
<1>4. Len(r_prover) = n /\ Len(r_verifier) = n /\ Len(Received) = n
  BY <1>1, <1>3 DEF HatDelivered, HatDrawn
<1>5. r_prover = r_verifier /\ pbase = vbase
  BY <1>1, <1>2, <1>4, SameVectors
<1>6. ChallengesAgree
  BY <1>2, <1>5 DEF BothDrawn, TranscriptInv, InStep
<1>7. verifier_transcript = prover_transcript
  <2>1. proof.proofs # <<>> /\ Received # <<>>
    BY <1>3, <1>4, EmptySeq DEF HatDelivered
  <2>2. ProverHistory(pbase) /\ VerifierHistory(pbase)
    BY <1>2, <1>5, <2>1 DEF BothDrawn, TranscriptInv, Histories
  <2>3. /\ Drawn = proof.point /\ Len(proof.point) = n /\ prover_state.round = n
    BY <1>1, <1>4 DEF Drawn, PointHolds, ControlInv, TypeOK, HatDelivered
  <2>4. \A i \in 1 .. n : proof.proofs[i] = Received[i] /\ Drawn[i] = Chs[i]
    <3>1. SameAux
      BY DEF SameAux, HatDelivered
    <3>2. \A i \in 1 .. n : Chs[i] = proof.point[i]
      BY <1>4, <1>6, <2>3, <3>1 DEF ChallengesAgree, Chs, HatDelivered
    <3> QED BY <2>3, <3>2 DEF HatDelivered
  <2>5. /\ History(prover_transcript.log, pbase, poly.aux_info, proof.proofs, Drawn, n)
        /\ History(verifier_transcript.log, pbase, poly.aux_info, Received, Chs, n)
    BY <1>4, <2>2, <2>3 DEF ProverHistory, VerifierHistory, HatDelivered
  <2>6. prover_transcript.log = verifier_transcript.log
    <3> HIDE DEF n
    <3> QED BY <1>3, <2>4, <2>5, HistoryUnique
  <2> QED BY <2>2, <2>6 DEF ProverHistory, VerifierHistory
<1> QED BY <1>3, <1>4, <1>5, <1>6, <1>7

LEMMA ZeroInvGivesSameHat == ZeroInv => SameHat
<1> SUFFICES ASSUME ZeroInv PROVE SameHat
  OBVIOUS
<1>1. ZeroShape /\ HatDrawn /\ ZeroProgress
  BY DEF ZeroInv, ZeroControl
<1>2. ASSUME r_prover # <<>>, r_verifier # <<>>,
             aux_info.num_variables = f.aux_info.num_variables
      PROVE  r_prover = r_verifier
  <2>1. Len(r_prover) = Len(r_verifier)
    BY <1>1, <1>2 DEF HatDrawn, ZeroProgress
  <2> QED BY <1>1, <2>1, SameVectors DEF ZeroInv, ZeroTranscripts
<1>3. ASSUME zero_phase = "verifying", Received = proof.proofs,
             Len(Received) = aux_info.num_variables,
             aux_info = poly.aux_info, r_prover # <<>>
      PROVE  verifier_transcript = prover_transcript
  <2>1. phase \in {"proved", "verifying", "done"} /\ Len(r_verifier) = aux_info.num_variables
    BY <1>1, <1>3 DEF ZeroProgress
  <2>2. HatDelivered
    BY <1>3, <2>1 DEF HatDelivered
  <2> QED BY <2>2, HatDeliveredFacts
<1> QED BY <1>2, <1>3 DEF SameHat

\* In every reachable state the r of the two sides is the same one, and as
\* long as the messages are the prover's so is everything the two
\* transcripts absorbed (zero_check/mod.rs: prove and verify both draw
\* "0check r" before anything of the proof is absorbed).
THEOREM SameHatAlways == ZeroSpec => []SameHat
BY ZeroInvariant, ZeroInvGivesSameHat, PTL

---------------------------------------------------------------------------
(* A true sub-claim about a polynomial that does not vanish needs luck.    *)

\* The sub-claim of SumCheck is about the challenges, and its value is one
\* of the field.
LEMMA SubClaimFacts ==
  ASSUME ControlInv, AcceptedInv, MessagesRead, result.kind = "ok",
         aux_info.max_degree < P
  PROVE  LET n == aux_info.num_variables
         IN  /\ n \in Nat \ {0} /\ Len(Received) = n
             /\ result.point = Chs /\ Chs \in Seq(Field) /\ Len(Chs) = n
             /\ result.expected_evaluation \in Field
<1> DEFINE v == verifier_state
           n == aux_info.num_variables
           d == aux_info.max_degree
           m == Received[n]
           c == Chs[n]
<1>1. /\ n \in Nat /\ d \in Nat /\ v.max_degree = d
      /\ Len(Received) = n /\ Len(Received) > 0
      /\ IsSeq(Received) /\ Chs \in Seq(Challenge) /\ Len(Chs) = n
      /\ Malformed(v) = {} /\ Degenerate(v) = {}
      /\ result.point = Chs /\ result.expected_evaluation = expected(v, claimed_sum, n + 1)
  BY DEF ControlInv, Shape, AuxInfo, VerifierShape, TypeOK, AcceptedInv, SubClaim, Chs
<1>2. n \in Nat \ {0} /\ n \in 1 .. n /\ n + 1 # 1 /\ (n + 1) - 1 = n
  BY <1>1
<1>3. Chs \in Seq(Field)
  BY <1>1, InputAssumption, SeqMonotonic
<1>4. c \in Field /\ n \in DOMAIN Received
  BY <1>1, <1>2, <1>3, ElementOfSeq, SeqIsSeq DEF IsSeq
<1>5. WellFormed(m, d) /\ ~ IsNode(d, c)
  <2>1. n \in DOMAIN v.polynomials_received
    BY <1>4 DEF Received
  <2>2. n \notin Malformed(v) /\ n \notin Degenerate(v)
    BY <1>1
  <2>3. WellFormed(v.polynomials_received[n], v.max_degree)
    BY <2>1, <2>2 DEF Malformed
  <2>4. ~ IsNode(v.max_degree, v.challenges[n])
    BY <2>1, <2>2, <2>3 DEF Degenerate
  <2> QED BY <1>1, <2>3, <2>4 DEF Received, Chs
<1>6. DOMAIN m = 0 .. d /\ m \in [DOMAIN m -> Field]
  BY <1>4, <1>5, MessageAssumption DEF WellFormed, MessagesRead
<1>7. result.expected_evaluation = interpolate_uni_poly(m, d, c)
  <2>1. expected(v, claimed_sum, n + 1)
          = interpolate_uni_poly(v.polynomials_received[n], v.max_degree, v.challenges[n])
    BY <1>2 DEF expected
  <2> QED BY <1>1, <2>1 DEF Received, Chs
<1>8. interpolate_uni_poly(m, d, c) \in Field
  <2> HIDE DEF d, m, c, v, n
  <2>1. 0 .. d \in SUBSET Field /\ Cardinality(0 .. d) = d + 1
        /\ \A j \in 0 .. d : FromInt(j) = j
    BY <1>1, Nodes DEF d
  <2>2. c \notin 0 .. d
    BY <1>5, <2>1 DEF IsNode
  <2>3. \A j \in 0 .. d : m[j] \in Field
    BY <1>6
  <2>4. interpolate_uni_poly(m, d, c) = Through(0 .. d, m)[c]
    BY <1>1, <1>4, <2>2, <2>3, InterpolateIsThrough DEF d
  <2>5. DegreeAtMost(Through(0 .. d, m), d)
    BY <1>1, <2>1, <2>3, ThroughFacts
  <2>6. Through(0 .. d, m) \in [Field -> Field]
    BY <2>5 DEF DegreeAtMost, Functional
  <2> QED BY <1>4, <2>4, <2>6
<1> QED BY <1>1, <1>2, <1>3, <1>7, <1>8

\* Dividing what was multiplied.
LEMMA Dividing ==
  ASSUME NEW a \in Field, NEW b \in Field, NEW e \in Field, e # 0
  PROVE  a // e = b <=> a = b ** e
<1> DEFINE i == Inv(e)
<1>1. i \in Field /\ e ** i = 1
  BY InverseLaws
<1> HIDE DEF i
<1>2. i ** e = 1
  BY <1>1, FieldLaws
<1>3. (a ** i) ** e = a
  <2>1. (a ** i) ** e = a ** (i ** e)
    BY <1>1, FieldLaws
  <2> QED BY <1>2, <2>1, UnitLaws
<1>4. (b ** e) ** i = b
  <2>1. (b ** e) ** i = b ** (e ** i)
    BY <1>1, FieldLaws
  <2> QED BY <1>1, <2>1, UnitLaws
<1> QED BY <1>3, <1>4 DEF i, //

LEMMA ZeroInvGivesLuck == ZeroInv => NonZeroNeedsLuck
<1> SUFFICES ASSUME ZeroInv, TrueSubClaim,
                    aux_info = [f.aux_info EXCEPT !.max_degree = @ + 1],
                    ExtensionAt(r_verifier) # 0
             PROVE  \E k \in DOMAIN Received :
                      LET asked == RoundOfHat(Prefix(k))
                          c     == verifier_state.challenges[k]
                      IN  /\ Received[k] # asked
                          /\ interpolate_uni_poly(Received[k], aux_info.max_degree, c)
                               = interpolate_uni_poly(asked, aux_info.max_degree, c)
  BY DEF NonZeroNeedsLuck
<1> DEFINE n == f.aux_info.num_variables
           h == build_f_hat(f, r_verifier)
           eq == eq_eval(result.point, r_verifier)
<1>1. /\ ControlInv /\ AcceptedInv /\ MessagesRead
      /\ ZeroShape /\ ZeroProgress /\ ZeroOutcome
  BY DEF ZeroInv, ZeroControl, InnerInv
<1>2. /\ IsPolynomial(f) /\ f.aux_info.max_degree + 1 < P
      /\ n \in Nat /\ f.aux_info.max_degree \in Nat
      /\ f.aux_info = [num_variables |-> n, max_degree |-> f.aux_info.max_degree]
  BY <1>1 DEF ZeroShape, IsPolynomial, AuxInfo
<1>3. aux_info.num_variables = n /\ aux_info.max_degree = f.aux_info.max_degree + 1
  BY <1>2
<1>4. phase = "done" /\ zero_result = ZeroVerdict
  <2>1. zero_result.kind = "ok" /\ Running.kind # "ok"
    BY DEF TrueSubClaim, Running
  <2> QED BY <1>1, <2>1 DEF ZeroOutcome
<1>5. /\ result.kind = "ok" /\ eq # 0
      /\ zero_result.point = result.point
      /\ zero_result.expected_evaluation = result.expected_evaluation // eq
  <2>1. zero_result.kind = "ok" /\ Panic.kind # "ok"
    BY DEF TrueSubClaim, Panic
  <2> QED BY <1>4, <2>1 DEF ZeroVerdict
<1>6. /\ n \in Nat \ {0} /\ Len(Received) = n
      /\ result.point = Chs /\ Chs \in Seq(Field) /\ Len(Chs) = n
      /\ result.expected_evaluation \in Field
  BY <1>1, <1>2, <1>3, <1>5, SubClaimFacts
<1>7. CanMultiply(f, r_verifier)
  <2>1. Len(r_verifier) = n /\ r_verifier \in Seq(Challenge)
    BY <1>1, <1>3, <1>4 DEF ZeroProgress, ZeroShape
  <2>2. r_verifier \in Seq(Field)
    BY <2>1, InputAssumption, SeqMonotonic
  <2> QED BY <1>2, <1>6, <2>1, <2>2 DEF CanMultiply
<1>8. IsPolynomial(h) /\ h.aux_info = aux_info /\ h.aux_info.num_variables = n
  BY <1>7, BuildHat
<1>9. result.expected_evaluation = evaluate(h, result.point)
  <2>1. /\ evaluate(h, result.point) = evaluate(f, result.point) ** eq
        /\ evaluate(f, result.point) \in Field /\ eq \in Field
    BY <1>6, <1>7, HatValue
  <2>2. result.expected_evaluation // eq = evaluate(f, result.point)
    BY <1>5 DEF TrueSubClaim
  <2> HIDE DEF eq
  <2> QED BY <1>5, <1>6, <2>1, <2>2, Dividing
<1>10. claimed_sum # PartialSum(h, <<>>)
  BY <1>1, <1>7, HatSum DEF ZeroShape, ExtensionAt, ValuesOf
<1> HIDE DEF h
<1>11. PICK k \in 1 .. n :
         /\ k \in DOMAIN Received
         /\ Prefix(k) \in Seq(Field) /\ Len(Prefix(k)) = k-1
         /\ Chs[k] \in Field
         /\ ~ IsNode(aux_info.max_degree, Chs[k])
         /\ WellFormed(Received[k], aux_info.max_degree)
         /\ Received[k] # RoundOf(h, Prefix(k))
         /\ interpolate_uni_poly(Received[k], aux_info.max_degree, Chs[k])
              = PartialSum(h, Prefix(k) \o <<Chs[k]>>)
  BY <1>1, <1>3, <1>5, <1>8, <1>9, <1>10, SoundVerdict
<1>12. RoundOfHat(Prefix(k)) = RoundOf(h, Prefix(k))
  BY DEF RoundOfHat, RoundOf, h
<1>13. interpolate_uni_poly(RoundOf(h, Prefix(k)), aux_info.max_degree, Chs[k])
         = PartialSum(h, Prefix(k) \o <<Chs[k]>>)
  <2>1. Len(Prefix(k)) < h.aux_info.num_variables
    BY <1>6, <1>8, <1>11
  <2>2. aux_info.max_degree \in Nat /\ aux_info.max_degree < P
    BY <1>2, <1>3
  <2>3. \A j \in 0 .. aux_info.max_degree : FromInt(j) = j
    BY <2>2, Nodes
  <2>4. Chs[k] \notin 0 .. aux_info.max_degree
    BY <1>11, <2>3 DEF IsNode
  <2>5. \A r \in Field : r \notin 0 .. h.aux_info.max_degree =>
          interpolate_uni_poly(RoundOf(h, Prefix(k)), h.aux_info.max_degree, r)
            = PartialSum(h, Prefix(k) \o <<r>>)
    BY <1>8, <1>11, <2>1, RoundOfFacts
  <2> QED BY <1>8, <1>11, <2>4, <2>5
<1> QED BY <1>11, <1>12, <1>13 DEF Chs

\* In every reachable state in which the verifier has accepted f as zero and
\* its sub-claim is true of f, either the extension of the values of f is
\* zero at the r drawn, or some message that is not the one f_hat asks for
\* agrees with it at the challenge drawn after it (zero_check/mod.rs, verify:
\* the sum check of f_hat against zero, and the division by eq).
THEOREM NonZeroNeedsLuckAlways == ZeroSpec => []NonZeroNeedsLuck
BY ZeroInvariant, ZeroInvGivesLuck, PTL

---------------------------------------------------------------------------
(* A polynomial that vanishes is proved.                                   *)

LEMMA ZeroInvGivesCompleteness == Parallel /\ ZeroInv => ZeroCompleteness
<1> SUFFICES ASSUME Parallel, ZeroInv, zero_phase = "done", phase = "done",
                    proof.proofs # <<>>, Received = proof.proofs,
                    aux_info = poly.aux_info, Vanishes
             PROVE  \/ TrueSubClaim /\ zero_result.point = proof.point
                                    /\ zero_result.init_challenge = r_prover
                    \/ /\ zero_result = Panic
                       /\ \/ Degenerate(verifier_state) # {}
                          \/ eq_eval(verifier_state.challenges, r_verifier) = 0
  BY DEF ZeroCompleteness
<1> DEFINE n == f.aux_info.num_variables
           point == proof.point
           eq == eq_eval(point, r_verifier)
<1>1. /\ ControlInv /\ RoundsInv
      /\ ZeroShape /\ HatDrawn /\ ZeroProgress /\ ZeroOutcome
  BY DEF ZeroInv, ZeroControl, InnerInv
<1>2. /\ r_prover # <<>> /\ poly = build_f_hat(f, r_prover)
      /\ Len(proof.proofs) = n
  BY <1>1 DEF HatDrawn
<1>3. /\ CanMultiply(f, r_prover) /\ poly.aux_info.num_variables = n
      /\ n \in Nat \ {0}
  BY <1>1, <1>2, HatVariables
<1>4. Len(r_verifier) = n /\ zero_result = ZeroVerdict
  BY <1>1, <1>3 DEF ZeroProgress, ZeroOutcome
<1>5. r_prover = r_verifier /\ ChallengesAgree
  <2>1. HatDelivered
    BY <1>2, <1>3, <1>4 DEF HatDelivered
  <2> QED BY <2>1, HatDeliveredFacts
<1>6. PartialSum(poly, <<>>) = 0
  <2>1. \A b \in Index(n) : ValuesOf(f)[b] = 0
    BY DEF Vanishes, ValuesOf
  <2> QED BY <1>2, <1>3, <2>1, HatSumOfNothing
<1>7. Delivered
  BY <1>1, <1>2, <1>3, <1>6 DEF Delivered, SameAux, ZeroShape
<1>8. Chs = point /\ Chs \in Seq(Field) /\ Len(Chs) = n
  BY <1>1, <1>3, <1>5, <1>7, DeliveredFacts
<1>9. Degree # 0
  <2>1. poly.aux_info = [f.aux_info EXCEPT !.max_degree = @ + 1]
    BY <1>2, <1>3, BuildHat
  <2>2. /\ f.aux_info.max_degree \in Nat
        /\ f.aux_info = [num_variables |-> n, max_degree |-> f.aux_info.max_degree]
    BY <1>1 DEF ZeroShape, IsPolynomial, AuxInfo
  <2> QED BY <2>1, <2>2 DEF Degree
<1>10. \/ result = SubClaim(point, evaluate(poly, point))
       \/ result = Panic /\ Degenerate(verifier_state) # {}
  <2>1. Completeness
    BY <1>1, <1>5, RoundsInvGivesCompleteness
  <2>2. Len(Received) = aux_info.num_variables /\ Received # <<>>
    BY <1>2, <1>3
  <2> QED BY <1>1, <1>6, <1>9, <2>1, <2>2 DEF Completeness, SameAux, ZeroShape
<1>11. CASE result = Panic /\ Degenerate(verifier_state) # {}
  <2>1. zero_result = Panic
    BY <1>4, <1>11 DEF ZeroVerdict, Panic
  <2> QED BY <1>11, <2>1
<1>12. CASE result = SubClaim(point, evaluate(poly, point))
  <2>1. /\ result.kind = "ok" /\ result.point = point
        /\ result.expected_evaluation = evaluate(poly, point)
    BY <1>12 DEF SubClaim
  <2>2. CASE eq = 0
    <3>1. zero_result = Panic
      BY <1>4, <2>1, <2>2 DEF ZeroVerdict
    <3>2. eq_eval(verifier_state.challenges, r_verifier) = 0
      BY <1>8, <2>2 DEF Chs
    <3> QED BY <3>1, <3>2
  <2>3. CASE eq # 0
    <3>1. zero_result = [kind |-> "ok", point |-> point,
                         expected_evaluation |-> evaluate(poly, point) // eq,
                         init_challenge |-> r_verifier]
      BY <1>4, <2>1, <2>3 DEF ZeroVerdict
    <3>2. /\ evaluate(poly, point) = evaluate(f, point) ** eq
          /\ evaluate(f, point) \in Field /\ eq \in Field
      BY <1>2, <1>3, <1>5, <1>8, HatValue
    <3>3. evaluate(poly, point) // eq = evaluate(f, point)
      <4> HIDE DEF eq
      <4>1. evaluate(poly, point) \in Field
        <5>1. IsPolynomial(poly)
          BY <1>2, <1>3, BuildHat
        <5> QED BY <1>8, <5>1, EvaluateType
      <4> QED BY <2>3, <3>2, <4>1, Dividing
    <3> QED BY <1>5, <3>1, <3>3 DEF TrueSubClaim
  <2> QED BY <2>2, <2>3
<1> QED BY <1>10, <1>11, <1>12

\* With the feature "parallel", a polynomial that vanishes on the hypercube,
\* proved and delivered as it was written, yields the true sub-claim at the
\* prover's point and with the prover's r, unless the verifier panics at a
\* challenge that is a node or that makes eq zero (zero_check/mod.rs, prove
\* and verify).
THEOREM ZeroCompletenessAlways == Parallel => (ZeroSpec => []ZeroCompleteness)
<1>1. Parallel /\ ZeroInv => ZeroCompleteness
  BY ZeroInvGivesCompleteness
<1> SUFFICES ASSUME Parallel PROVE ZeroSpec => []ZeroCompleteness
  OBVIOUS
<1>2. ZeroInv => ZeroCompleteness
  BY <1>1
<1> QED BY <1>2, ZeroInvariant, PTL
=============================================================================
