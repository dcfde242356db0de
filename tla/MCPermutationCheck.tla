------------------------- MODULE MCPermutationCheck -------------------------
(* Small instances of PermutationCheck, and of ProductCheck called on its  *)
(* own, by an honest prover or not.                                        *)
EXTENDS PermutationCheck

Mle(n, seq) ==
  [num_vars |-> n, evals |-> [b \in Index(n) |-> FromInt(seq[b+1])]]

Values(n, S) == {[num_vars |-> n, evals |-> e] : e \in [Index(n) -> S]}

---------------------------------------------------------------------------
(* ProductCheck on its own.                                                *)

\* Lists that the code refuses: empty, of different lengths, of different
\* sizes, with a zero below the line.
RefusedLists ==
  {<<<<>>, <<>>>>,
   <<<<Mle(1, <<1, 2>>)>>, <<Mle(1, <<1, 2>>), Mle(1, <<1, 1>>)>>>>,
   <<<<Mle(1, <<1, 2>>)>>, <<Mle(2, <<1, 2, 1, 1>>)>>>>,
   <<<<Mle(1, <<1, 2>>)>>, <<Mle(1, <<1, 0>>)>>>>}

\* Two lists of two tables, and pairs of tables of one to three variables,
\* the last for the depth of the tree.
Proved ==
  RefusedLists
    \cup {<<<<f, Mle(1, <<0, 1>>)>>, <<g, Mle(1, <<2, 1>>)>>>> :
            f, g \in Values(1, 1 .. 4)}
    \cup {<<<<f>>, <<g>>>> : f \in Values(2, 0 .. 2), g \in Values(2, {1, 3})}
    \cup {<<<<f>>, <<Mle(3, <<2, 1, 2, 2, 1, 3, 2, 1>>)>>>> : f \in Values(3, 1 .. 2)}

Attacked ==
  {<<<<Mle(1, <<1, 1>>)>>, <<Mle(1, <<2, 1>>)>>>>,
   <<<<Mle(1, <<1, 1>>)>>, <<Mle(1, <<0, 1>>)>>>>,
   <<<<Mle(2, <<1, 1, 2, 1>>)>>, <<Mle(2, <<1, 2, 2, 1>>)>>>>}

AnyTables(f, g) ==
  IF <<f, g>> \notin Attacked THEN {}
  ELSE LET Entries == IF f[1].num_vars = 1 THEN Field ELSE 0 .. 2
           tables  == [Index(f[1].num_vars) -> Entries]
       IN  [frac : tables, prod : tables]

EqualOrNot == Proved \cup Attacked

---------------------------------------------------------------------------
(* PermutationCheck.                                                       *)

Of(t) == [num_vars |-> 1, evals |-> t]

\* One list of one variable: every pair of tables, every map of positions.
Single ==
  {[fs |-> <<Mle(1, f)>>, gs |-> <<Of(g)>>, perms |-> <<Of(p)>>] :
     f \in {<<0, 1>>, <<2, 2>>, <<4, 3>>}, g \in Table(1),
     p \in [Index(1) -> 0 .. 1]}

\* Two lists of one variable, four positions in all: every permutation of
\* the positions against every placement of the values.
Bijections == {p \in [0 .. 3 -> 0 .. 3] : {p[i] : i \in 0 .. 3} = 0 .. 3}
Halves(t) == <<Mle(1, <<t[0], t[1]>>), Mle(1, <<t[2], t[3]>>)>>
Moved == [i \in 0 .. 3 |-> <<0, 3, 3, 1>>[i+1]]
Double ==
  {[fs |-> Halves(Moved), gs |-> Halves([i \in 0 .. 3 |-> Moved[g[i]]]),
    perms |-> Halves(p)] : g, p \in Bijections}

Counting == Halves([i \in 0 .. 3 |-> i])
Refused ==
  {[fs |-> <<>>, gs |-> <<>>, perms |-> <<>>],
   [fs |-> Counting, gs |-> Counting, perms |-> <<Mle(1, <<0, 1>>)>>],
   [fs |-> <<Mle(1, <<0, 1>>)>>, gs |-> <<Mle(1, <<0, 1>>)>>,
    perms |-> <<Mle(2, <<0, 1, 2, 3>>)>>]}

Wired == Single \cup Double \cup Refused

---------------------------------------------------------------------------
NoWiring == [fs |-> <<>>, gs |-> <<>>, perms |-> <<>>]

StandaloneInit ==
  /\ ProductInit
  /\ phase = IF <<fxs, gxs>> \in Attacked THEN "forge" ELSE "prove"
  /\ wiring = NoWiring
  /\ begun = TRUE
  /\ beta = 0
  /\ gamma = 0

AllSpec == (PermInit \/ StandaloneInit) /\ [][PermNext]_allVars
=============================================================================
