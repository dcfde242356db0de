------------------------ MODULE MCPartialEvaluation ------------------------
(* Tables with at most two non-zero entries: every operation checked is    *)
(* linear in the table, so unit tables and pairs of them already separate  *)
(* any two index maps.                                                     *)
EXTENDS PartialEvaluation

MCTables(k) ==
  {[b \in Index(k) |-> IF b = c THEN 1 ELSE IF b = d THEN P-1 ELSE 0] :
     c, d \in Index(k)}
=============================================================================
