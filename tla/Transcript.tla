----------------------------- MODULE Transcript -----------------------------
(***************************************************************************)
(* The Fiat-Shamir transcript, transcript/src/lib.rs.                      *)
(*                                                                         *)
(* The Merlin state is modelled by what determines it: the sequence of     *)
(* everything absorbed so far.  Merlin's challenge bytes are a random      *)
(* function of that sequence and of the label of the draw; the function is *)
(* sampled lazily.  `oracle` is the part of it that some party has already *)
(* asked for: a draw at a known history repeats the recorded answer, a     *)
(* draw at a new one takes any element of Challenge.                       *)
(***************************************************************************)
EXTENDS Sequences, Naturals

CONSTANT Challenge      \* the field elements a draw may return

ASSUME ChallengeAssumption == Challenge # {}

new(label) == [log |-> <<<<label>>>>, is_empty |-> TRUE]

\* Mutant: the label is absorbed without the message.
append_label(t, label, msg) ==
  [log |-> Append(t.log, <<label>>), is_empty |-> FALSE]

\* append_message, and append_field_element / append_serializable_element,
\* which serialize and then call it.
append(t, label, msg) ==
  [log |-> Append(t.log, <<label, msg>>), is_empty |-> FALSE]

\* get_and_append_challenge, in three parts: what the hash is asked, what it
\* may answer, and the transcript once the answer is absorbed.  The code
\* refuses to draw (InvalidTranscript) from an empty transcript.
Refuses(t) == t.is_empty
Query(t, label) == Append(t.log, <<label>>)
Answers(oracle, query) ==
  IF query \in DOMAIN oracle THEN {oracle[query]} ELSE Challenge
Record(oracle, query, c) ==
  [q \in DOMAIN oracle \cup {query} |-> IF q = query THEN c ELSE oracle[q]]

\* get_and_append_challenge_vectors: the ways n draws in a row may come out.
Draws(t, o, label, n) ==
  LET drawn[k \in 0 .. n] ==
        IF k = 0
        THEN {[transcript |-> t, oracle |-> o, values |-> <<>>]}
        ELSE UNION {LET query == Query(d.transcript, label)
                    IN  {[transcript |-> append(d.transcript, label, c),
                          oracle     |-> Record(d.oracle, query, c),
                          values     |-> Append(d.values, c)] :
                           c \in Answers(d.oracle, query)} :
                      d \in drawn[k-1]}
  IN  drawn[n]

NoAnswers == [q \in {} |-> 0]
=============================================================================
