-------------------------- MODULE SumCheckVerifier --------------------------
(***************************************************************************)
(* The verifier of the SumCheck protocol,                                  *)
(* subroutines/src/poly_iop/sum_check/verifier.rs.  A prover message is a  *)
(* function from 0 .. d to the field.                                      *)
(***************************************************************************)
EXTENDS PrimeField, Sequences

verifier_init(aux) ==
  [round |-> 1, finished |-> FALSE,
   num_vars |-> aux.num_variables, max_degree |-> aux.max_degree,
   polynomials_received |-> <<>>, challenges |-> <<>>]

\* Mutant: finished a round early.
VerifierRoundEarly(v, msg, challenge) ==
  [v EXCEPT !.challenges = Append(@, challenge),
            !.polynomials_received = Append(@, msg),
            !.finished = (v.round + 1 >= v.num_vars),
            !.round = IF v.round = v.num_vars THEN @ ELSE @ + 1]

\* verify_round_and_update_state, once the transcript has answered
\* `challenge`; nothing of the message is looked at yet.  A finished
\* verifier refuses (InvalidVerifier) and keeps its state.
VerifierRound(v, msg, challenge) ==
  [v EXCEPT !.challenges = Append(@, challenge),
            !.polynomials_received = Append(@, msg),
            !.finished = (v.round = v.num_vars),
            !.round = IF v.round = v.num_vars THEN @ ELSE @ + 1]

---------------------------------------------------------------------------
\* Mutant: the alternating sign of the denominators is lost.
interpolate_uni_poly_unsigned(p, d, r) ==
  LET prod == FProd([e \in 0 .. d |-> r -- FromInt(e)])
  IN  FSum([i \in 0 .. d |->
              (p[i] ** prod) //
                (FProd([e \in (0 .. d) \ {i} |->
                          FromInt(IF e < i THEN i - e ELSE e - i)])
                   ** (r -- FromInt(i)))])

\* The degree-d polynomial through (j, p[j]), j \in 0 .. d, at r, by the
\* formula of the code: one common product, the factorial of d, and for
\* each i the ratio between its denominator and that of i = d.
interpolate_uni_poly(p, d, r) ==
  LET prod == FProd([e \in 0 .. d |-> r -- FromInt(e)])
      last_denominator == FProd([e \in 1 .. d |-> FromInt(e)])
      ratio_numerator(i) == FProd([j \in i+1 .. d |-> FromInt(j - (d + 1))])
      ratio_denominator(i) == FProd([j \in i+1 .. d |-> FromInt(j)])
  IN  FSum([i \in 0 .. d |->
              (p[i] ** prod ** ratio_denominator(i)) //
                (last_denominator ** ratio_numerator(i) ** (r -- FromInt(i)))])

\* The formula divides by r - i: at an interpolation point it panics.
IsNode(d, r) == \E j \in 0 .. d : r = FromInt(j)

WellFormed(msg, d) == DOMAIN msg = 0 .. d
Opening(msg) == msg[0] ++ msg[1]

---------------------------------------------------------------------------
Err(why) == [kind |-> "err", why |-> why]
Panic == [kind |-> "panic"]
SubClaim(point, value) ==
  [kind |-> "ok", point |-> point, expected_evaluation |-> value]

\* expected_vec: the asserted sum, then each message at its challenge.
expected(v, asserted_sum, i) ==
  IF i = 1 THEN asserted_sum
  ELSE interpolate_uni_poly(v.polynomials_received[i-1], v.max_degree,
                            v.challenges[i-1])

Malformed(v) ==
  {i \in DOMAIN v.polynomials_received :
     ~ WellFormed(v.polynomials_received[i], v.max_degree)}
Degenerate(v) ==
  {i \in DOMAIN v.polynomials_received :
     WellFormed(v.polynomials_received[i], v.max_degree)
       /\ IsNode(v.max_degree, v.challenges[i])}

\* Mutants: the last comparison, or the first one, is left out.
ConsistentButLast(v, asserted_sum) ==
  \A i \in 1 .. v.num_vars - 1 :
    Opening(v.polynomials_received[i]) = expected(v, asserted_sum, i)
ConsistentButFirst(v, asserted_sum) ==
  \A i \in 2 .. v.num_vars :
    Opening(v.polynomials_received[i]) = expected(v, asserted_sum, i)

\* Constant messages have no value at 1 to read: evaluations[1] panics.
Consistent(v, asserted_sum) ==
  \A i \in 1 .. v.num_vars :
    Opening(v.polynomials_received[i]) = expected(v, asserted_sum, i)

\* check_and_generate_subclaim: the results it may have.  The messages are
\* interpolated in parallel, so when one is malformed and another one is
\* evaluated at a node, either the error or the panic comes out.
check_and_generate_subclaim(v, asserted_sum) ==
  IF ~ v.finished \/ Len(v.polynomials_received) # v.num_vars
  THEN {Err("InvalidVerifier")}
  ELSE IF Malformed(v) # {} \/ Degenerate(v) # {}
  THEN {r \in {Err("InvalidVerifier"), Panic} :
          \/ r.kind = "err"   /\ Malformed(v) # {}
          \/ r.kind = "panic" /\ Degenerate(v) # {}}
  ELSE IF v.max_degree = 0
  THEN {Panic}
  ELSE IF ~ Consistent(v, asserted_sum)
  THEN {Err("InvalidProof")}
  ELSE {SubClaim(v.challenges, expected(v, asserted_sum, v.num_vars + 1))}
=============================================================================
