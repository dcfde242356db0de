------------------------- MODULE InteractiveSumCheck -------------------------
(***************************************************************************)
(* What the SumCheck verifier promises: the interactive protocol, where    *)
(* each message is checked against the current claim when it arrives and   *)
(* the claim is then reduced at a challenge drawn after it.  verifier.rs   *)
(* defers all the checks to the last step and takes its challenges from a  *)
(* transcript; its comment says that this is sufficient.                   *)
(***************************************************************************)
EXTENDS Naturals, Sequences

CONSTANTS
  Message,          \* prover messages
  Challenge,        \* what the verifier's coins may be
  Usable(_, _),     \* Usable(m, d): the message has the shape of degree d
  Sum01(_),         \* Sum01(m): the message's value at 0 plus that at 1
  At(_, _, _),      \* At(m, d, r): the message as a polynomial, at r
  Bad(_, _),        \* Bad(d, r): a challenge the verifier cannot use
  NoClaim           \* there is nothing left to check against

VARIABLES
  rounds,           \* number of rounds to play
  degree,           \* degree bound
  claim,            \* what the remaining sum is claimed to be
  alive,            \* no check has failed so far
  spoilt,           \* some challenge cannot be used
  point,            \* challenges so far
  verdict           \* "none", "accept", "reject" or "abort"

vars == <<rounds, degree, claim, alive, spoilt, point, verdict>>

Init ==
  /\ alive = TRUE
  /\ spoilt = FALSE
  /\ point = <<>>
  /\ verdict = "none"

\* A protocol that has failed a check stays failed, whatever follows.
Round(m, r) ==
  /\ verdict = "none"
  /\ Len(point) < rounds
  /\ point' = Append(point, r)
  /\ alive' = (alive /\ Usable(m, degree) /\ (spoilt \/ Sum01(m) = claim))
  /\ spoilt' = (spoilt \/ Bad(degree, r))
  /\ claim' = IF alive' /\ ~ spoilt' THEN At(m, degree, r) ELSE NoClaim
  /\ UNCHANGED <<rounds, degree, verdict>>

\* Acceptance: every round was played and passed its check.
Accept ==
  /\ verdict = "none"
  /\ rounds > 0
  /\ Len(point) = rounds
  /\ alive
  /\ ~ spoilt
  /\ verdict' = "accept"
  /\ UNCHANGED <<rounds, degree, claim, alive, spoilt, point>>

\* A rejection has a reason.
Reject ==
  /\ verdict = "none"
  /\ Len(point) = rounds
  /\ rounds = 0 \/ ~ alive
  /\ verdict' = "reject"
  /\ UNCHANGED <<rounds, degree, claim, alive, spoilt, point>>

\* The verifier stops without a verdict only for want of a message or a
\* usable challenge.
Abort ==
  /\ verdict = "none"
  /\ Len(point) < rounds \/ spoilt \/ degree = 0
  /\ verdict' = "abort"
  /\ UNCHANGED <<rounds, degree, claim, alive, spoilt, point>>

Next ==
  \/ \E m \in Message, r \in Challenge : Round(m, r)
  \/ Accept
  \/ Reject
  \/ Abort

Spec == Init /\ [][Next]_vars
=============================================================================
