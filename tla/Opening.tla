------------------------------ MODULE Opening ------------------------------
(***************************************************************************)
(* Opening a committed polynomial at a point and verifying the opening     *)
(* (PolynomialCommitmentScheme::open, open_with_commitment and verify,     *)
(* subroutines/src/pcs), for every scheme that makes one proof over one    *)
(* transcript.  A scheme is given by the scripts of its two parties, which *)
(* are translated one by one from its prover and from its verifier, and by *)
(* what the steps of the scripts compute.  The two parties run after each  *)
(* other, each over a transcript and with an environment of its own: the   *)
(* messages and challenges it knows, by label.                             *)
(*                                                                         *)
(* What the verifier reads is what the prover wrote or, at most            *)
(* MaxReplaced times, something else; in phase "forge" there was no honest *)
(* prover.                                                                 *)
(***************************************************************************)
EXTENDS Transcript, FiniteSets

CONSTANTS
  Scheme,
  Asked(_),             \* statements the prover may be asked to prove
  Claimed(_, _),        \* statements the verifier may be given for one
  ProverScript(_, _), VerifierScript(_, _),
                        \* the steps of the two parties for a statement
  Tries(_),             \* how often a draw may be repeated
  Usable(_, _, _, _, _),
                        \* Usable(s, st, env, l, c): c may be used for the draw l
  Guard(_, _, _, _),    \* Guard(s, st, env, l)
  Message(_, _, _, _),  \* Message(s, st, env, l): computed as the prover does
  Offers(_, _, _, _, _),
                        \* Offers(s, st, env, l, m): what may be read for m
  Verdict(_, _, _),     \* Verdict(s, st, env): what verify finally returns
  MaxReplaced,          \* bound: messages replaced in a behaviour
  MaxRefused,           \* bound: challenges refused in a behaviour
  Stated(_, _, _, _),   \* Stated(s, st, env, l): what part l of it is absorbed as
  Carried(_, _),        \* Carried(s, l): the message absorbed as l, if there is one
  Bound(_, _),          \* Bound(s, l): the parts of the statement absorbed
                        \* before the draw l
  Sample(_, _),         \* bound: the challenges draw l of scheme s may return
  Honest(_, _),         \* Honest(s, st): a statement the scheme can prove
  Excused(_, _, _),     \* Excused(s, st, env): the challenges are such
                        \* that even an honest proof does not verify
  AllChallenges,        \* the field, of which Challenge is a sample
  Challenges(_, _),     \* Challenges(s, st): the labels drawn, in order
  Claim(_, _, _, _),    \* Claim(s, st, env, k): still true after k draws
  Luck(_, _, _),        \* Luck(s, st, k): the challenges draw k may err on
  Fits(_, _, _)         \* Fits(s, st, env): what was read has the form that
                        \* verify takes for granted

ASSUME OpeningAssumption ==
  /\ MaxReplaced \in Nat /\ MaxRefused \in Nat
  /\ \A s \in Scheme : Tries(s) \in Nat \ {0}

---------------------------------------------------------------------------
(* Scripts: sequences of <<operation, label>>.                             *)

Exchanged == {"bind", "carry"}
Produces == Exchanged \cup {"peek", "draw"}

Where(steps, operations) == {i \in DOMAIN steps : steps[i][1] \in operations}
Labels(steps, operations) == {steps[i][2] : i \in Where(steps, operations)}

\* What a party knows before step j.
KnownBefore(steps, j) == {steps[i][2] : i \in {k \in Where(steps, Produces) : k < j}}

\* The transcript of step d already existed at step i.
SameTranscript(steps, i, d) == \A n \in Where(steps, {"renew"}) : n < d => n < i

\* Nothing is drawn under a name already in use.
DrawsAnew(steps) ==
  \A d \in Where(steps, {"draw"}) : steps[d][2] \notin KnownBefore(steps, d)

\* Before a draw, what it must depend on is absorbed, and so is every message
\* read.
BindsInOrder(s, steps) ==
  \A d \in Where(steps, {"draw"}) :
    LET absorbing == {j \in Where(steps, {"absorb"}) : j < d /\ SameTranscript(steps, j, d)}
    IN  /\ \A l \in Bound(s, steps[d][2]) : \E j \in absorbing : steps[j][2] = l
        /\ \A i \in Where(steps, {"carry"}) :
             (i < d /\ SameTranscript(steps, i, d)) =>
               \E j \in absorbing : i < j /\ Carried(s, steps[j][2]) = steps[i][2]

\* The steps that use the transcript; k is the first of them from i on.
Speaks == {"bind", "absorb", "draw", "renew"}
Ahead(steps, i, k) ==
  k \in Where(steps, Speaks) /\ i <= k /\ \A n \in Where(steps, Speaks) : n < i \/ k <= n

\* Where the prover does what the verifier does at its step j.
Partner(written, read, j) ==
  CHOOSE k \in Where(written, Speaks) : written[k][2] = read[j][2]

\* Every step of the verifier that uses the transcript has a partner, and
\* they come in the same order with nothing in between.
KeepStep(written, read) ==
  \A j \in Where(read, Speaks) :
    LET k == Partner(written, read, j)
    IN  /\ k \in Where(written, Speaks) /\ written[k][2] = read[j][2]
        /\ \/ written[k][1] = read[j][1]
           \/ {written[k][1], read[j][1]} = {"bind", "absorb"}
        /\ Ahead(read, 1, j) => Ahead(written, 1, k)
        /\ \A i \in Where(read, Speaks) :
             Ahead(read, j + 1, i) => Ahead(written, k + 1, Partner(written, read, i))

\* Two scripts fit: the prover writes what the verifier reads.
ASSUME ScriptsAssumption ==
  \A s \in Scheme : \A st \in Asked(s) :
    LET written == ProverScript(s, st)
    IN  /\ written \in Seq({written[i] : i \in DOMAIN written})
        /\ Where(written, {"check"}) = {} /\ DrawsAnew(written)
        /\ \A cl \in Claimed(s, st) :
             LET read == VerifierScript(s, cl)
             IN  /\ read \in Seq({read[i] : i \in DOMAIN read})
                 /\ Labels(read, Exchanged) \subseteq Labels(written, Produces)
                 /\ DrawsAnew(read) /\ BindsInOrder(s, read)

VARIABLES
  scheme,
  asked,            \* the prover's statement
  claimed,          \* the verifier's
  phase,            \* "open", "opened", "refused", "forge", "verify", "done"
  script,           \* the steps of the running party
  pc,               \* its next step
  tries,            \* challenges refused by the running draw
  env,              \* messages and challenges of the running party
  transcript,       \* of the running party
  proof,            \* what the prover knew when it returned
  oracle,           \* the hash answers known so far
  replaced,         \* number of messages replaced
  refused,          \* number of challenges refused when first drawn
  result

vars == <<scheme, asked, claimed, phase, script, pc, tries, env, transcript,
          proof, oracle, replaced, refused, result>>

inputs == <<scheme, asked, claimed>>
counts == <<replaced, refused>>

Nothing == [l \in {} |-> 0]
Know(e, l, v) == [k \in DOMAIN e \cup {l} |-> IF k = l THEN v ELSE e[k]]

Ok(b) == [kind |-> "ok", value |-> b]
Err == [kind |-> "err"]
Running == [kind |-> "none"]

Init ==
  /\ scheme \in Scheme
  /\ asked \in Asked(scheme)
  /\ claimed \in Claimed(scheme, asked)
  /\ phase \in {"open", "forge"}
  /\ script = IF phase = "open" THEN ProverScript(scheme, asked) ELSE <<>>
  /\ pc = 1
  /\ tries = 0
  /\ env = Nothing
  /\ transcript = new(scheme)
  /\ proof = Nothing
  /\ oracle = NoAnswers
  /\ replaced = 0
  /\ refused = 0
  /\ result = Running

---------------------------------------------------------------------------
(* One step of the running party                                           *)

Statement == IF phase = "open" THEN asked ELSE claimed

Doing(operations) ==
  /\ phase \in {"open", "verify"}
  /\ pc <= Len(script)
  /\ script[pc][1] \in operations
Label == script[pc][2]

\* A call that fails returns its error at once.
Fail ==
  /\ phase' = IF phase = "open" THEN "refused" ELSE "done"
  /\ result' = Err

\* A message carried before, or a part of the statement.
Content(st, e, l) ==
  IF Carried(scheme, l) \in DOMAIN e THEN e[Carried(scheme, l)]
  ELSE Stated(scheme, st, e, l)

Absorb ==
  /\ Doing({"absorb"})
  /\ transcript' = append(transcript, Label, Content(Statement, env, Label))
  /\ pc' = pc + 1
  /\ UNCHANGED <<inputs, script, phase, tries, env, proof, oracle, counts, result>>

\* An opening made inside another call may have a transcript of its own.
Renew ==
  /\ Doing({"renew"})
  /\ transcript' = new(Label)
  /\ pc' = pc + 1
  /\ UNCHANGED <<inputs, script, phase, tries, env, proof, oracle, counts, result>>

\* A guard is on what the caller or the proof gives, avoid on the challenges
\* drawn; both return an error.  A check returns Ok(false).
Conditions == {"guard", "avoid", "check"}

Pass ==
  /\ Doing(Conditions)
  /\ Guard(scheme, Statement, env, Label)
  /\ pc' = pc + 1
  /\ UNCHANGED <<inputs, script, phase, tries, env, transcript, proof, oracle, counts, result>>

Refuse ==
  /\ Doing(Conditions)
  /\ ~ Guard(scheme, Statement, env, Label)
  /\ IF Doing({"check"})
     THEN phase' = "done" /\ result' = Ok(FALSE) ELSE Fail
  /\ UNCHANGED <<inputs, script, pc, tries, env, transcript, proof, oracle, counts>>

\* The messages that may stand at Label; as a bound, none is replaced in a
\* behaviour in which a challenge was refused, and conversely.
Expected ==
  IF Label \in DOMAIN env THEN env[Label]
  ELSE IF phase = "verify" /\ Label \in DOMAIN proof THEN proof[Label]
  ELSE Message(scheme, Statement, env, Label)
Alternatives(m) ==
  IF phase = "verify" /\ Label \notin DOMAIN env /\ replaced < MaxReplaced /\ refused = 0
  THEN Offers(scheme, Statement, env, Label, m) ELSE {}

\* Write a message, or read one, and absorb it unless it is only carried; a
\* message peeked at before is read once more, from the same proof.
Exchange ==
  /\ Doing({"bind", "carry", "peek"})
  /\ \E expected \in {Expected} :
       \E m \in {expected} \cup Alternatives(expected) :
         /\ env' = Know(env, Label, m)
         /\ transcript' = IF Doing({"bind"}) THEN append(transcript, Label, m)
                          ELSE transcript
         /\ replaced' = IF m = expected THEN replaced ELSE replaced + 1
  /\ pc' = pc + 1
  /\ UNCHANGED <<inputs, script, phase, tries, proof, oracle, refused, result>>

\* One draw; a refused challenge stays in the transcript.
Drawn(c) ==
  LET query == Query(transcript, Label)
  IN  /\ c \in Answers(oracle, query) \cap Sample(scheme, Label)
      /\ refused' = IF Usable(scheme, Statement, env, Label, c) \/ query \in DOMAIN oracle
                    THEN refused ELSE refused + 1
      /\ refused' <= (IF replaced = 0 THEN MaxRefused ELSE refused)
      /\ oracle' = Record(oracle, query, c)
      /\ transcript' = append(transcript, Label, c)

DrawUsed ==
  /\ Doing({"draw"})
  /\ \E c \in Challenge :
       /\ Usable(scheme, Statement, env, Label, c)
       /\ Drawn(c)
       /\ env' = Know(env, Label, c)
  /\ pc' = pc + 1
  /\ tries' = 0
  /\ UNCHANGED <<inputs, script, phase, proof, replaced, result>>

\* Mutant: one repetition too many.
DrawOnceMore ==
  /\ Doing({"draw"})
  /\ tries < Tries(scheme)
  /\ \E c \in Challenge : ~ Usable(scheme, Statement, env, Label, c) /\ Drawn(c)
  /\ tries' = tries + 1
  /\ UNCHANGED <<inputs, script, phase, pc, env, proof, replaced, result>>

DrawAgain ==
  /\ Doing({"draw"})
  /\ tries + 1 < Tries(scheme)
  /\ \E c \in Challenge : ~ Usable(scheme, Statement, env, Label, c) /\ Drawn(c)
  /\ tries' = tries + 1
  /\ UNCHANGED <<inputs, script, phase, pc, env, proof, replaced, result>>

DrawFailed ==
  /\ Doing({"draw"})
  /\ tries + 1 = Tries(scheme)
  /\ \E c \in Challenge : ~ Usable(scheme, Statement, env, Label, c) /\ Drawn(c)
  /\ Fail
  /\ UNCHANGED <<inputs, script, pc, tries, env, proof, replaced>>

---------------------------------------------------------------------------
(* Begin and end of the calls                                              *)

OpenReturns ==
  /\ phase = "open"
  /\ pc > Len(script)
  /\ phase' = "opened"
  /\ proof' = env
  /\ UNCHANGED <<inputs, script, pc, tries, env, transcript, oracle, counts, result>>

VerifyBegins ==
  /\ phase \in {"opened", "forge"}
  /\ phase' = "verify"
  /\ script' = VerifierScript(scheme, claimed)
  /\ pc' = 1
  /\ env' = Nothing
  /\ transcript' = new(scheme)
  /\ UNCHANGED <<inputs, tries, proof, oracle, counts, result>>

VerifyReturns ==
  /\ phase = "verify"
  /\ pc > Len(script)
  /\ phase' = "done"
  /\ result' = Ok(Verdict(scheme, claimed, env))
  /\ UNCHANGED <<inputs, script, pc, tries, env, transcript, proof, oracle, counts>>

Next ==
  \/ Absorb
  \/ Renew
  \/ Pass
  \/ Refuse
  \/ Exchange
  \/ DrawUsed
  \/ DrawAgain
  \/ DrawFailed
  \/ OpenReturns
  \/ VerifyBegins
  \/ VerifyReturns

Spec == Init /\ [][Next]_vars
---------------------------------------------------------------------------
(* Properties                                                              *)

Verified == phase \in {"verify", "done"}
Positions(operations) == Where(script, operations)

\* A party knows exactly what the steps behind it have produced, has
\* repeated no draw too often, and the verifier finds in the proof either
\* every message of its script or, when nobody has opened, none.
TypeOK ==
  /\ phase \in {"open", "opened", "refused", "forge", "verify", "done"}
  /\ phase \in {"open", "verify"} =>
       DOMAIN env = KnownBefore(script, pc)
  /\ tries < Tries(scheme)
  /\ replaced <= MaxReplaced
  /\ refused <= MaxRefused
  /\ Verified =>
       \/ proof = Nothing
       \/ {script[i][2] : i \in Positions(Exchanged)} \subseteq DOMAIN proof

\* A true statement that the scheme supports is opened, and the opening,
\* delivered as it was written for the same statement, verifies; both calls
\* stop half-way only over challenges: one that every repetition refused or
\* a combination the scheme avoids, and then before the proof is written,
\* never while it is verified (open and verify of the schemes; the comment on
\* the identity in their module headers).
Completeness ==
  /\ (phase = "refused" /\ Honest(scheme, asked)) =>
       script[pc][1] \in {"draw", "avoid"}
  /\ (/\ phase = "done" /\ claimed = asked /\ proof # Nothing
      /\ \A l \in DOMAIN env : env[l] = proof[l]
      /\ Honest(scheme, asked))
     => result = Ok(TRUE) \/ Excused(scheme, claimed, env)

\* What a party knew before step j, what step j put into its transcript, and
\* whether it would use c there.
Before(steps, e, j) == [k \in KnownBefore(steps, j) |-> e[k]]
EntryOf(steps, st, e, j) ==
  LET l == steps[j][2]
  IN  <<l, IF steps[j][1] = "bind" THEN e[l] ELSE Content(st, Before(steps, e, j), l)>>
UsableAt(steps, st, e, j, c) == Usable(scheme, st, Before(steps, e, j), steps[j][2], c)
Entry(j) == EntryOf(script, claimed, env, j)

\* The two parties compute alike what they absorb before draw d, and use the
\* same challenges up to it.
Alike(d) ==
  LET written == ProverScript(scheme, asked)
  IN  /\ \A j \in Positions({"bind", "absorb"}) :
           j < d => Entry(j) = EntryOf(written, asked, proof, Partner(written, script, j))
      /\ \A j \in Positions({"draw"}), c \in Challenge :
           j <= d => (UsableAt(script, claimed, env, j, c) <=>
                        UsableAt(written, asked, proof, Partner(written, script, j), c))

\* The draws before which everything was read as it was written, by a
\* verifier that was asked what the prover was asked.
Intact ==
  {d \in Positions({"draw"}) :
     /\ phase = "done" /\ claimed = asked /\ proof # Nothing
     /\ script[d][2] \in DOMAIN env
     /\ \A i \in Positions(Exchanged) : i < d => env[script[i][2]] = proof[script[i][2]]}
ComputeAlike ==
  \A d \in Intact : KeepStep(ProverScript(scheme, asked), script) /\ Alike(d)

\* The transcripts stay in step: a verifier with the prover's statement that
\* has read what the prover wrote draws what the prover drew, whatever it
\* reads later (the order of absorptions in the prover and the verifier, and
\* what each computes to absorb).  Nothing read or drawn is forgotten, so this
\* and the next may wait for the end of verify.
DrawsAgree ==
  /\ ComputeAlike
  /\ \A d \in Intact : env[script[d][2]] = proof[script[d][2]]

\* Every challenge depends on the parts of the statement its scheme absorbs
\* before it, Bound, and on every message read before it over the same
\* transcript: the hash was asked for it with all of them in the query.  Bound
\* need not be the whole statement: Mulcs absorbs only mu of it, and the SNARK
\* neither its index nor its public input.
DrawsBind ==
  phase = "done" =>
    \A d \in {i \in Positions({"draw"}) : script[i][2] \in DOMAIN env} :
      \E query \in DOMAIN oracle :
        LET absorbed == {j \in Positions({"bind", "absorb"}) :
                           j < d /\ \E i \in DOMAIN query : query[i] = Entry(j)}
        IN  /\ oracle[query] = env[script[d][2]]
            /\ query[Len(query)] = <<script[d][2]>>
            /\ \A l \in Bound(scheme, script[d][2]) : \E j \in absorbed : script[j][2] = l
            /\ \A i \in Positions(Exchanged) :
                 (i < d /\ SameTranscript(script, i, d)) =>
                   \E j \in absorbed :
                     /\ script[i][2] \in {script[j][2], Carried(scheme, script[j][2])}
                     /\ Entry(j)[2] = env[script[i][2]]

\* The belief left after each draw is false at the start and true at the
\* end, so some draw turns it, and no draw does so for more challenges than
\* the degree of what is tested there.
LuckyAt(k) ==
  LET l == Challenges(scheme, claimed)[k]
  IN  {c \in AllChallenges :
         Usable(scheme, claimed, env, l, c) /\ Claim(scheme, claimed, Know(env, l, c), k)}

Beliefs ==
  [k \in 0 .. Len(Challenges(scheme, claimed)) |-> Claim(scheme, claimed, env, k)]

FalseNeedsLuck ==
  \A believed \in {Beliefs} :
    LET last == Cardinality(DOMAIN believed) - 1
    IN  ~ believed[0] =>
          /\ believed[last]
          /\ \A k \in 1 .. last :
               (believed[k] /\ ~ believed[k-1])
               => Cardinality(LuckyAt(k)) <= Luck(scheme, claimed, k)


\* The same of whatever is accepted: a proof checks "custom
\* gate-satisfiability" and "the copy constraints" (the comment on
\* HyperPlonkProof), whatever its form.
EveryFalseOpeningNeedsLuck ==
  result = Ok(TRUE) => FalseNeedsLuck
=============================================================================
