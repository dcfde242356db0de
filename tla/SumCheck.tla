------------------------------ MODULE SumCheck ------------------------------
(***************************************************************************)
(* The non-interactive SumCheck of subroutines/src/poly_iop/sum_check:     *)
(* SumCheck::prove and SumCheck::verify (mod.rs) driving the prover and    *)
(* the verifier of prover.rs and verifier.rs over their two transcripts.   *)
(*                                                                         *)
(* Between the two calls the proof travels.  What the verifier reads in a  *)
(* round is the message the prover wrote, or a variant of it; a proof may  *)
(* end early; and, in phase "forge", it was not made by the prover at all. *)
(* A message is chosen when it is read, before the challenge that depends  *)
(* on it is drawn and knowing all the earlier ones, as a prover that can   *)
(* evaluate the hash itself would.                                         *)
(***************************************************************************)
EXTENDS SumCheckProver, SumCheckVerifier, Transcript, FiniteSets

CONSTANTS
  Polynomials,      \* the virtual polynomials proved
  Phases(_),        \* Phases(p): p's initial phases, "prove", "forge" or both
  Message,          \* every message the verifier may read
  Variant(_, _),    \* Variant(m, w): w may be read where m was written
  Unwritten(_),     \* Unwritten(p): what may be read where p has no message
  AuxInfos(_),      \* AuxInfos(p): the VPAuxInfo the verifier may hold
  Claims(_)         \* Claims(p): the sums that may be asserted

\* The counts are usize; max_degree of an aux info is free of the degrees of
\* the products.  A challenge is a field element, and a product multiplies
\* some of the listed tables (VirtualPolynomial::add_mle_list).
ASSUME InputAssumption ==
  /\ Challenge \subseteq Field
  /\ \A p \in Polynomials :
       /\ Phases(p) \subseteq {"prove", "forge"}
       /\ p.aux_info \in [num_variables : Nat, max_degree : Nat]
       /\ AuxInfos(p) \subseteq [num_variables : Nat, max_degree : Nat]
       /\ p.mles \in Seq(Table(p.aux_info.num_variables))
       /\ p.products \in Seq([coefficient : Field, factors : Seq(1 .. Len(p.mles))])

\* A usize is far below the characteristic, and every operation that adds
\* factors raises max_degree to cover them (AuxInfoCovers of VirtualPolynomial).
ASSUME DegreeAssumption ==
  \A p \in Polynomials :
    /\ p.aux_info.max_degree < P
    /\ \A k \in DOMAIN p.products :
         Len(p.products[k].factors) <= p.aux_info.max_degree

\* A message is a vector of field elements, of any length.
ASSUME MessageAssumption == \A m \in Message : m \in [DOMAIN m -> Field]

VARIABLES
  poly,             \* the prover's polynomial
  aux_info,         \* the verifier's argument aux_info
  claimed_sum,      \* the verifier's argument claimed_sum
  phase,            \* which call is running, and where it is
  prover_state,
  prover_transcript,
  challenge,        \* prove's local: <<>> or the last challenge drawn
  proof,            \* [point, proofs] under construction, then returned
  verifier_state,
  verifier_transcript,
  oracle,           \* the hash answers known so far
  result            \* what the last call returned

vars == <<poly, aux_info, claimed_sum, phase, prover_state,
          prover_transcript, challenge, proof, verifier_state,
          verifier_transcript, oracle, result>>

proverVars == <<prover_state, prover_transcript, challenge, proof>>
verifierVars == <<verifier_state, verifier_transcript>>
inputs == <<poly, aux_info, claimed_sum>>

Running == [kind |-> "none"]

Init ==
  /\ poly \in Polynomials
  /\ aux_info \in AuxInfos(poly)
  /\ claimed_sum \in Claims(poly)
  /\ phase \in Phases(poly)
  /\ prover_state = prover_init(poly)
  /\ prover_transcript = new("SumCheck")
  /\ challenge = <<>>
  /\ proof = [point |-> <<>>, proofs |-> <<>>]
  /\ verifier_state = verifier_init(aux_info)
  /\ verifier_transcript = new("SumCheck")
  /\ oracle = NoAnswers
  /\ result = Running

---------------------------------------------------------------------------
(* SumCheck::prove                                                         *)

\* The aux info is absorbed before prover_init refuses a constant.
ProveBegin ==
  /\ phase = "prove"
  /\ prover_transcript' =
       append(prover_transcript, "aux info", poly.aux_info)
  /\ IF poly.aux_info.num_variables = 0
     THEN /\ result' = Err("InvalidParameters")
          /\ phase' = "done"
     ELSE /\ phase' = "proving"
          /\ UNCHANGED result
  /\ UNCHANGED <<inputs, prover_state, challenge, proof, verifierVars, oracle>>

\* One iteration: the round, its message into the transcript and the proof,
\* and the challenge that the next iteration hands to the prover.
ProveRound ==
  /\ phase = "proving"
  /\ Accepts(poly, prover_state, challenge)
  /\ LET state == ProverRound(poly, prover_state, challenge)
         msg   == RoundMessage(poly, state.mles,
                               poly.aux_info.num_variables - state.round)
         t     == append(prover_transcript, "prover msg", msg)
         query == Query(t, "Internal round")
     IN  /\ prover_state' = state
         /\ proof' = [proof EXCEPT !.proofs = Append(@, msg)]
         /\ \E c \in Answers(oracle, query) :
              /\ challenge' = <<c>>
              /\ prover_transcript' = append(t, "Internal round", c)
              /\ oracle' = Record(oracle, query, c)
  /\ UNCHANGED <<inputs, phase, verifierVars, result>>

\* Mutant: the loop waits for one round too many.
ProveEndLate ==
  /\ phase = "proving"
  /\ prover_state.round > poly.aux_info.num_variables
  /\ phase' = "proved"
  /\ UNCHANGED <<inputs, proverVars, verifierVars, oracle, result>>

\* The last challenge never reaches the prover's tables, only the point.
ProveEnd ==
  /\ phase = "proving"
  /\ ~ Active(poly, prover_state)
  /\ prover_state' = [prover_state EXCEPT !.challenges = @ \o challenge]
  /\ proof' = [proof EXCEPT !.point = prover_state'.challenges]
  /\ phase' = "proved"
  /\ UNCHANGED <<inputs, prover_transcript, challenge, verifierVars, oracle,
                 result>>

---------------------------------------------------------------------------
(* SumCheck::verify                                                        *)

\* Mutant: the aux info is not absorbed.
VerifyBeginUnbound ==
  /\ phase \in {"proved", "forge"}
  /\ phase' = "verifying"
  /\ UNCHANGED <<inputs, proverVars, verifierVars, oracle, result>>

VerifyBegin ==
  /\ phase \in {"proved", "forge"}
  /\ phase' = "verifying"
  /\ verifier_transcript' = append(verifier_transcript, "aux info", aux_info)
  /\ UNCHANGED <<inputs, proverVars, verifier_state, oracle, result>>

\* The iteration the loop is at: it has not ended after num_variables.
Iteration == Len(verifier_state.polynomials_received) + 1
Looping == Iteration <= aux_info.num_variables

MayRead ==
  IF Iteration <= Len(proof.proofs)
  THEN {m \in Message : Variant(proof.proofs[Iteration], m)}
         \cup {proof.proofs[Iteration]}
  ELSE Unwritten(poly)

\* Mutant: the challenge is drawn before the message is absorbed.
VerifyRoundHasty(m) ==
  /\ phase = "verifying"
  /\ Looping
  /\ m \in MayRead
  /\ LET query == Query(verifier_transcript, "Internal round")
     IN  \E c \in Answers(oracle, query) :
           /\ verifier_state' = VerifierRound(verifier_state, m, c)
           /\ verifier_transcript' =
                append(append(verifier_transcript, "Internal round", c),
                       "prover msg", m)
           /\ oracle' = Record(oracle, query, c)
  /\ UNCHANGED <<inputs, phase, proverVars, result>>

\* The message is absorbed before the challenge is drawn.
VerifyRound(m) ==
  /\ phase = "verifying"
  /\ Looping
  /\ m \in MayRead
  /\ LET t     == append(verifier_transcript, "prover msg", m)
         query == Query(t, "Internal round")
     IN  \E c \in Answers(oracle, query) :
           /\ verifier_state' = VerifierRound(verifier_state, m, c)
           /\ verifier_transcript' = append(t, "Internal round", c)
           /\ oracle' = Record(oracle, query, c)
  /\ UNCHANGED <<inputs, phase, proverVars, result>>

\* proof.proofs.get(i).expect("proof is incomplete")
VerifyIncomplete ==
  /\ phase = "verifying"
  /\ Looping
  /\ result' = Panic
  /\ phase' = "done"
  /\ UNCHANGED <<inputs, proverVars, verifierVars, oracle>>

VerifyEnd ==
  /\ phase = "verifying"
  /\ ~ Looping
  /\ result' \in check_and_generate_subclaim(verifier_state, claimed_sum)
  /\ phase' = "done"
  /\ UNCHANGED <<inputs, proverVars, verifierVars, oracle>>

Next ==
  \/ ProveBegin
  \/ ProveRound
  \/ ProveEnd
  \/ VerifyBegin
  \/ \E m \in Message : VerifyRound(m)
  \/ VerifyIncomplete
  \/ VerifyEnd

Spec == Init /\ [][Next]_vars

\* Both calls are loops that run to their end once entered; whether the
\* verifier is called at all is its caller's choice.
Fairness ==
  /\ WF_vars(ProveBegin \/ ProveRound \/ ProveEnd)
  /\ WF_vars((\E m \in Message \cap MayRead : VerifyRound(m)) \/ VerifyIncomplete
               \/ VerifyEnd)

FairSpec == Spec /\ Fairness
---------------------------------------------------------------------------
(* Properties                                                              *)

Received == verifier_state.polynomials_received
Degree == poly.aux_info.max_degree
SameAux == aux_info = poly.aux_info

\* The control state of the two parties.  The prover holds one challenge
\* less than it has played rounds until prove returns; the verifier draws
\* one challenge for each message, never plays more rounds than its aux info
\* announces, and is finished exactly when it has played them all.
TypeOK ==
  /\ phase \in {"prove", "proving", "proved", "forge", "verifying", "done"}
  /\ prover_state.round = Len(proof.proofs)
  /\ prover_state.round <= poly.aux_info.num_variables
  /\ challenge = <<>> <=> prover_state.round = 0
  /\ Len(proof.point) \in {0, Len(proof.proofs)}
  /\ Len(prover_state.challenges) + 1 = prover_state.round
       \/ prover_state.challenges = proof.point
  /\ verifier_state.num_vars = aux_info.num_variables
  /\ verifier_state.max_degree = aux_info.max_degree
  /\ Len(verifier_state.challenges) = Len(Received)
  /\ Len(Received) <= aux_info.num_variables
  /\ verifier_state.finished <=>
       Len(Received) = aux_info.num_variables /\ Len(Received) > 0
  /\ ~ verifier_state.finished => verifier_state.round = Len(Received) + 1

\* The univariate polynomial the protocol asks for after the challenges in
\* prefix: the sum of poly over the variables beyond the next one.
RoundPolynomial(prefix) ==
  [t \in 0 .. Degree |-> PartialSum(poly, prefix \o <<FromInt(t)>>)]

\* What the prover computes by binding tables, stepping along lines and
\* extrapolating short products is, in every round, the sum the protocol
\* defines over the original polynomial (prover.rs, rounds of
\* prove_round_and_update_state).
MessagesAreRoundSums ==
  (phase = "proving" /\ proof.proofs # <<>>) =>
    proof.proofs[Len(proof.proofs)] = RoundPolynomial(prover_state.challenges)

\* A true sum, proved and delivered as it was written, is accepted with the
\* subclaim that is true of the polynomial at the prover's point; the only
\* other outcome is the panic of an unusable challenge or of a constant.
Completeness ==
  (/\ phase = "done" /\ SameAux
   /\ Received = proof.proofs
   /\ Len(Received) = aux_info.num_variables /\ Received # <<>>
   /\ claimed_sum = PartialSum(poly, <<>>))
  => \/ result = SubClaim(proof.point, evaluate(poly, proof.point))
     \/ result = Panic /\ (Degree = 0 \/ Degenerate(verifier_state) # {})

\* The two transcripts stay in step: as long as the messages read are the
\* messages written, verifier and prover draw the same challenges, whatever
\* happens to the proof later on.
ChallengesAgree ==
  SameAux =>
    \A i \in 1 .. Len(Received) :
      (i <= Len(proof.point)
         /\ \A j \in 1 .. i : Received[j] = proof.proofs[j])
      => verifier_state.challenges[i] = proof.point[i]

\* No challenge is drawn before the message it tests: each one answers a
\* query that contains the messages of its own and of all earlier rounds.
MessagesIn(log) ==
  LET read[k \in 0 .. Len(log)] ==
        IF k = 0 THEN <<>>
        ELSE IF log[k][1] = "prover msg" THEN Append(read[k-1], log[k][2])
        ELSE read[k-1]
  IN  read[Len(log)]

ChallengesBindMessages ==
  \A i \in 1 .. Len(Received) :
    \E query \in DOMAIN oracle :
      /\ oracle[query] = verifier_state.challenges[i]
      /\ MessagesIn(query) = SubSeq(Received, 1, i)

\* A false sum is accepted with a true subclaim only by luck: in some round
\* the message is not the polynomial it should be, yet agrees with it at
\* the challenge drawn.
Prefix(k) == SubSeq(verifier_state.challenges, 1, k-1)
LuckyChallenges(k) ==
  {r \in Field \ {FromInt(j) : j \in 0 .. Degree} :
     interpolate_uni_poly(Received[k], Degree, r)
       = PartialSum(poly, Prefix(k) \o <<r>>)}

FalseSumsNeedLuck ==
  (/\ SameAux
   /\ result.kind = "ok"
   /\ claimed_sum # PartialSum(poly, <<>>)
   /\ result.expected_evaluation = evaluate(poly, result.point))
  => \E k \in DOMAIN Received :
       /\ Received[k] # RoundPolynomial(Prefix(k))
       /\ verifier_state.challenges[k] \in LuckyChallenges(k)

\* Luck is rare: at most max_degree challenges agree with a wrong message.
LuckIsRare ==
  (SameAux /\ result.kind = "ok") =>
    \A k \in DOMAIN Received :
      Received[k] # RoundPolynomial(Prefix(k)) =>
        Cardinality(LuckyChallenges(k)) <= Degree

\* prove returns, and so does verify, also when it stops half-way.
CallsReturn ==
  /\ phase = "prove" ~> phase \in {"proved", "verifying", "done"}
  /\ phase = "verifying" ~> phase = "done"

---------------------------------------------------------------------------
(* Refinement: the deferred checks decide as the interactive verifier.     *)

Usable(m, d) == WellFormed(m, d) /\ d > 0

Spoilt == \E i \in DOMAIN Received :
            IsNode(aux_info.max_degree, verifier_state.challenges[i])

Alive ==
  \A i \in DOMAIN Received :
    /\ Usable(Received[i], aux_info.max_degree)
    /\ \/ \E j \in 1 .. i-1 :
            IsNode(aux_info.max_degree, verifier_state.challenges[j])
       \/ Opening(Received[i]) = expected(verifier_state, claimed_sum, i)

NoClaim == "no claim"
CurrentClaim ==
  IF Alive /\ ~ Spoilt
  THEN expected(verifier_state, claimed_sum, Len(Received) + 1)
  ELSE NoClaim

Verdict ==
  CASE result.kind = "ok" -> "accept"
    [] result.kind = "panic" -> "abort"
    [] result.kind = "err" /\ phase = "done" /\ result # Err("InvalidParameters") -> "reject"
    [] OTHER -> "none"

Interactive == INSTANCE InteractiveSumCheck WITH
  Sum01 <- Opening, At <- interpolate_uni_poly, Bad <- IsNode,
  rounds <- aux_info.num_variables, degree <- aux_info.max_degree,
  claim <- CurrentClaim, alive <- Alive, spoilt <- Spoilt,
  point <- verifier_state.challenges, verdict <- Verdict

\* Deferring every check to check_and_generate_subclaim loses nothing: the
\* verifier of verifier.rs behaves as the one that checks each message when
\* it arrives ("it is sufficient to defer such checks", verifier.rs).
ImplementsInteractive == Interactive!Spec
=============================================================================
