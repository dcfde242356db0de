------------------------------ MODULE ZeroCheck ------------------------------
(***************************************************************************)
(* ZeroCheck of subroutines/src/poly_iop/zero_check/mod.rs, on top of      *)
(* SumCheck: f is zero on the whole hypercube if, at a random r, the sum   *)
(* of f(x) * eq(x, r) is.  The actions of SumCheck run unchanged between   *)
(* the ones added here; its variable poly is f_hat once r is drawn.        *)
(***************************************************************************)
EXTENDS SumCheck

\* A usize is far below the characteristic, also once eq is a factor more.
ASSUME HatAssumption ==
  \A p \in Polynomials : p.aux_info.max_degree + 1 < P

VARIABLES
  f,              \* the polynomial said to vanish
  zero_phase,     \* which ZeroCheck call is running
  r_prover,       \* r as the prover drew it
  first,          \* <<>>, or the message the verifier found in proofs[0]
  r_verifier,     \* r as the verifier drew it
  zero_result

zeroVars == <<f, zero_phase, r_prover, first, r_verifier, zero_result>>
allVars == <<vars, zeroVars>>

\* A ZeroCheck called on its own has its caller put something into the
\* transcript first, or forget to.
Begun == {new("ZeroCheck"), append(new("ZeroCheck"), "testing", "init")}

ZeroInit ==
  /\ f \in Polynomials
  /\ poly = f
  /\ aux_info \in {[a EXCEPT !.max_degree = @ + 1] : a \in AuxInfos(f)}
  /\ claimed_sum = 0
  /\ phase = "prove"
  /\ prover_state = prover_init(f)
  /\ prover_transcript \in Begun
  /\ challenge = <<>>
  /\ proof = [point |-> <<>>, proofs |-> <<>>]
  /\ verifier_state = verifier_init(aux_info)
  /\ verifier_transcript = prover_transcript
  /\ oracle = NoAnswers
  /\ result = Running
  /\ zero_phase \in Phases(f)
  /\ r_prover = <<>>
  /\ first = <<>>
  /\ r_verifier = <<>>
  /\ zero_result = Running

---------------------------------------------------------------------------
Fail(why) ==
  /\ zero_result' = why
  /\ zero_phase' = "done"

\* ZeroCheck::prove up to its call of SumCheck::prove.  An empty transcript
\* is refused before anything is drawn, and build_eq_x_r refuses an empty r.
ZeroProve ==
  /\ zero_phase = "prove"
  /\ LET n == f.aux_info.num_variables
     IN  \/ /\ Refuses(prover_transcript) \/ n = 0
            /\ Fail(Err(IF Refuses(prover_transcript)
                     THEN "InvalidTranscript" ELSE "ArithErrors"))
            /\ UNCHANGED <<vars, r_prover>>
         \/ /\ ~ Refuses(prover_transcript) /\ n > 0
            /\ \E d \in Draws(prover_transcript, oracle, "0check r", n) :
                 /\ prover_transcript' = d.transcript
                 /\ oracle' = d.oracle
                 /\ r_prover' = d.values
            /\ poly' = build_f_hat(f, r_prover')
            /\ prover_state' = prover_init(poly')
            /\ zero_phase' = "proving"
            /\ UNCHANGED <<aux_info, claimed_sum, phase, challenge, proof,
                           verifierVars, result, zero_result>>
  /\ UNCHANGED <<f, first, r_verifier>>

SumCheckProve ==
  /\ zero_phase = "proving"
  /\ ProveBegin \/ ProveRound \/ ProveEnd
  /\ UNCHANGED zeroVars

\* What proofs[0] may be.
FirstMessages ==
  IF zero_phase = "forge" \/ proof.proofs = <<>>
  THEN Unwritten(f)
  ELSE {proof.proofs[1]} \cup {m \in Message : Variant(proof.proofs[1], m)}

CanVerify ==
  zero_phase = "forge" \/ (zero_phase = "proving" /\ phase = "proved")

\* Mutant: r is drawn under another label.
ZeroVerifyUnlabelled(m) ==
  /\ CanVerify
  /\ m \in FirstMessages
  /\ LET n == aux_info.num_variables
         complete == {0, 1} \subseteq DOMAIN m
     IN  \/ /\ ~ complete
            /\ Fail(Panic)
            /\ UNCHANGED <<vars, first, r_verifier>>
         \/ /\ complete
            /\ Opening(m) # 0
            /\ Fail(Err("InvalidProof"))
            /\ UNCHANGED <<vars, first, r_verifier>>
         \/ /\ complete
            /\ Opening(m) = 0
            /\ Refuses(verifier_transcript)
            /\ Fail(Err("InvalidTranscript"))
            /\ UNCHANGED <<vars, first, r_verifier>>
         \/ /\ complete
            /\ Opening(m) = 0
            /\ ~ Refuses(verifier_transcript)
            /\ \E d \in Draws(verifier_transcript, oracle, "Internal round", n) :
                 /\ verifier_transcript' = d.transcript
                 /\ oracle' = d.oracle
                 /\ r_verifier' = d.values
            /\ first' = <<m>>
            /\ zero_phase' = "verifying"
            /\ phase' = "proved"
            /\ UNCHANGED <<inputs, proverVars, verifier_state, result,
                           zero_result>>
  /\ UNCHANGED <<f, r_prover>>

\* ZeroCheck::verify up to its call of SumCheck::verify: the first message is
\* read at 0 and 1 before r is drawn.
ZeroVerify(m) ==
  /\ CanVerify
  /\ m \in FirstMessages
  /\ LET n == aux_info.num_variables
         complete == {0, 1} \subseteq DOMAIN m
     IN  \/ /\ ~ complete
            /\ Fail(Panic)
            /\ UNCHANGED <<vars, first, r_verifier>>
         \/ /\ complete
            /\ Opening(m) # 0
            /\ Fail(Err("InvalidProof"))
            /\ UNCHANGED <<vars, first, r_verifier>>
         \/ /\ complete
            /\ Opening(m) = 0
            /\ Refuses(verifier_transcript)
            /\ Fail(Err("InvalidTranscript"))
            /\ UNCHANGED <<vars, first, r_verifier>>
         \/ /\ complete
            /\ Opening(m) = 0
            /\ ~ Refuses(verifier_transcript)
            /\ \E d \in Draws(verifier_transcript, oracle, "0check r", n) :
                 /\ verifier_transcript' = d.transcript
                 /\ oracle' = d.oracle
                 /\ r_verifier' = d.values
            /\ first' = <<m>>
            /\ zero_phase' = "verifying"
            /\ phase' = "proved"
            /\ UNCHANGED <<inputs, proverVars, verifier_state, result,
                           zero_result>>
  /\ UNCHANGED <<f, r_prover>>

\* proofs[0] of a proof without messages.
ZeroVerifyEmpty ==
  /\ CanVerify
  /\ Fail(Panic)
  /\ UNCHANGED <<vars, f, r_prover, first, r_verifier>>

\* SumCheck::verify reads the first message again.
SumCheckVerify ==
  /\ zero_phase = "verifying"
  /\ \/ VerifyBegin
     \/ \E m \in Message : (Iteration = 1 => m = first[1]) /\ VerifyRound(m)
     \/ Iteration > 1 /\ VerifyIncomplete
     \/ VerifyEnd
  /\ UNCHANGED zeroVars

\* Mutant: the evaluation of f_hat is passed off as that of f.
ZeroVerifyEndUndivided ==
  /\ zero_phase = "verifying"
  /\ phase = "done"
  /\ LET eq == eq_eval(result.point, r_verifier)
     IN  Fail(IF result.kind # "ok" THEN result
              ELSE IF eq = 0 THEN Panic
              ELSE [kind |-> "ok",
                    point |-> result.point,
                    expected_evaluation |-> result.expected_evaluation,
                    init_challenge |-> r_verifier])
  /\ UNCHANGED <<vars, f, r_prover, first, r_verifier>>

\* The rest of ZeroCheck::verify: the division by eq(point, r), which panics
\* on zero.
ZeroVerifyEnd ==
  /\ zero_phase = "verifying"
  /\ phase = "done"
  /\ LET eq == eq_eval(result.point, r_verifier)
     IN  Fail(IF result.kind # "ok" THEN result
              ELSE IF eq = 0 THEN Panic
              ELSE [kind |-> "ok",
                    point |-> result.point,
                    expected_evaluation |-> result.expected_evaluation // eq,
                    init_challenge |-> r_verifier])
  /\ UNCHANGED <<vars, f, r_prover, first, r_verifier>>

ZeroNext ==
  \/ ZeroProve
  \/ SumCheckProve
  \/ \E m \in Message : ZeroVerify(m)
  \/ ZeroVerifyEmpty
  \/ SumCheckVerify
  \/ ZeroVerifyEnd

ZeroSpec == ZeroInit /\ [][ZeroNext]_allVars
---------------------------------------------------------------------------
Vanishes ==
  \A b \in Index(f.aux_info.num_variables) :
    evaluate(f, bit_decompose(b, f.aux_info.num_variables)) = 0

\* A sub-claim is what the caller still has to check against f.
TrueSubClaim ==
  /\ zero_result.kind = "ok"
  /\ zero_result.expected_evaluation = evaluate(f, zero_result.point)

\* A polynomial that vanishes, proved and delivered as it was written, yields
\* a true sub-claim; the only other outcomes are the panics of a challenge
\* that is an interpolation node or annihilates eq, and of the empty proof.
ZeroCompleteness ==
  (/\ zero_phase = "done"
   /\ phase = "done"
   /\ proof.proofs # <<>>
   /\ Received = proof.proofs
   /\ aux_info = poly.aux_info
   /\ Vanishes)
  => \/ TrueSubClaim /\ zero_result.point = proof.point
                     /\ zero_result.init_challenge = r_prover
     \/ /\ zero_result = Panic
        /\ \/ Degenerate(verifier_state) # {}
           \/ eq_eval(verifier_state.challenges, r_verifier) = 0

\* The sum of f against eq(., r) over the hypercube: the multilinear
\* extension of the values of f at r.
ExtensionAt(r) ==
  LET n == f.aux_info.num_variables
  IN  Extension([b \in Index(n) |-> evaluate(f, bit_decompose(b, n))], r)

\* f_hat as the verifier's r defines it, and the messages it asks for.
RoundOfHat(prefix) ==
  LET hat == build_f_hat(f, r_verifier)
  IN  [t \in 0 .. hat.aux_info.max_degree |->
         PartialSum(hat, prefix \o <<FromInt(t)>>)]

\* A polynomial that does not vanish yields a true sub-claim only by luck:
\* either r is a zero of the extension of its values, or some message is not
\* the polynomial asked for and meets it at the challenge drawn after it.
\* The verifier holds the aux info of f with the degree of f_hat.
NonZeroNeedsLuck ==
  (TrueSubClaim /\ ~ Vanishes
     /\ aux_info = [f.aux_info EXCEPT !.max_degree = @ + 1])
  => \/ ExtensionAt(r_verifier) = 0
     \/ \E k \in DOMAIN Received :
          LET asked == RoundOfHat(Prefix(k))
              c     == verifier_state.challenges[k]
          IN  /\ Received[k] # asked
              /\ interpolate_uni_poly(Received[k], aux_info.max_degree, c)
                   = interpolate_uni_poly(asked, aux_info.max_degree, c)

\* Both sides multiply by the same eq: r is drawn from transcripts that are
\* still equal, whatever the proof turns out to be, and then everything the
\* two sides absorb stays equal for as long as the messages are.  A verifier
\* told of another number of variables draws another number of coordinates.
SameHat ==
  /\ (r_prover # <<>> /\ r_verifier # <<>>
        /\ aux_info.num_variables = f.aux_info.num_variables)
       => r_prover = r_verifier
  /\ (zero_phase = "verifying" /\ Received = proof.proofs
        /\ Len(Received) = aux_info.num_variables
        /\ aux_info = poly.aux_info /\ r_prover # <<>>)
       => verifier_transcript = prover_transcript
=============================================================================
