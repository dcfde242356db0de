---------------------------- MODULE MCZeroCheck ----------------------------
(* Small instances of ZeroCheck.                                           *)
EXTENDS ZeroCheck

Tab(seq) == [b \in 0 .. Len(seq) - 1 |-> FromInt(seq[b+1])]
Term(c, factors) == [coefficient |-> FromInt(c), factors |-> factors]
Poly(n, d, products, mles) ==
  [aux_info |-> [num_variables |-> n, max_degree |-> d],
   products |-> products, mles |-> mles]

\* One variable; A * B is zero at both points, and 2C - 2C everywhere.
Vanishing1 == Poly(1, 2, <<Term(1, <<1, 2>>), Term(2, <<3>>), Term(-2, <<3>>)>>,
                   <<Tab(<<1, 0>>), Tab(<<0, 3>>), Tab(<<2, 3>>)>>)
\* Two variables; A * A - A for a table of bits.
Vanishing2 == Poly(2, 2, <<Term(1, <<1, 1>>), Term(-1, <<1>>)>>,
                   <<Tab(<<1, 0, 1, 1>>)>>)
NonZero1 == Poly(1, 1, <<Term(1, <<1>>)>>, <<Tab(<<0, 1>>)>>)
NonZero2 == Poly(2, 1, <<Term(1, <<1>>), Term(3, <<2>>)>>,
                 <<Tab(<<0, 1, 2, 0>>), Tab(<<1, 0, 0, 0>>)>>)
Constant == Poly(0, 1, <<Term(1, <<1>>)>>, <<Tab(<<2>>)>>)

Functions(d) == [0 .. d -> Field]
Quadratics == Functions(2)
Messages == Functions(3) \cup Quadratics \cup Functions(0)

\* Made-up messages: all of them in one round, fewer in two.
Forged(p) ==
  IF p = NonZero1 THEN Quadratics ELSE {m \in Quadratics : m[2] \in {0, 1}}

\* The last value changed, or cut off with all but the first.
LastChanged(m, w) ==
  \/ /\ DOMAIN m = DOMAIN w
     /\ \A t \in DOMAIN m : t + 1 \in DOMAIN m => m[t] = w[t]
  \/ DOMAIN w = {0} /\ w[0] = m[0]

OwnAux(p) == {p.aux_info}
NoClaims(p) == {0}
BothPhases(p) ==
  CASE p = NonZero1 -> {"prove", "forge"}
    [] p = NonZero2 -> {"forge"}
    [] OTHER -> {"prove"}
All == {Vanishing1, Vanishing2, NonZero1, NonZero2, Constant}
=============================================================================
