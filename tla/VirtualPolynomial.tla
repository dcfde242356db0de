------------------------- MODULE VirtualPolynomial -------------------------
(***************************************************************************)
(* Virtual polynomials (arithmetic/src/virtual_polynomial.rs): sums of     *)
(* products of multilinear extensions which callers share through `Arc`.   *)
(* A polynomial recognises an extension it already stores by its ADDRESS,  *)
(* so what it means depends on the allocator: an address that was freed    *)
(* and handed out again must never be taken for the old extension.         *)
(* The heap and the reference counts are therefore part of the state.      *)
(* An extension is its number of variables and an identity standing for    *)
(* its evaluation table.                                                   *)
(***************************************************************************)
EXTENDS Integers, Sequences, FiniteSets, SequencesExt

CONSTANTS Address,     \* addresses the allocator can hand out
          Slot,        \* the program's variables that hold a polynomial
          Null,        \* no extension at an address, no polynomial in a slot
          Name,        \* identities of evaluation tables
          Eq,          \* the table build_eq_x_r computes
          NumVars,     \* numbers of variables in use
          Coefficient, \* coefficients the callers pass
          Modulus,     \* the field's characteristic
          MaxFactors,  \* bound: multiplicands in a product
          MaxProducts  \* bound: products in a polynomial

ASSUME AddressAssumption ==
  /\ IsFiniteSet(Address)
  /\ NumVars \subseteq Nat
  /\ Modulus \in Nat \ {0} /\ Coefficient \subseteq 0 .. Modulus - 1
  /\ MaxFactors \in Nat /\ MaxProducts \in Nat
  /\ Eq \notin Name

VARIABLES heap,      \* what each address holds
          held,      \* addresses of the Arcs the caller owns
          poly,      \* the polynomials
          meant,     \* history: the products asked for, as extensions
          panicked   \* `expect` has failed in an addition

vars == <<heap, held, poly, meant, panicked>>

Extension == [nv : NumVars, table : Name \cup {Eq}]

\* A product refers to stored extensions by their indices; the lookup table
\* gives the index of an address.
Product == [coefficient : 0 .. Modulus - 1, indices : Seq(Nat \ {0})]
Polynomial ==
  [max_degree : Nat, num_variables : NumVars, products : Seq(Product),
   flattened : Seq(Address), lookup : UNION {[A -> Nat] : A \in SUBSET Address}]

ASSUME NullAssumption == Null \notin Extension /\ Null \notin Polynomial

Filled == {s \in Slot : poly[s] # Null}
\* Mutant: a polynomial refers to the extensions without owning an Arc.
KeptByNobody(ps, ss) == {}

\* Addresses kept alive by the Arcs in the polynomials of the slots ss.
KeptBy(ps, ss) == UNION {Range(ps[s].flattened) : s \in {t \in ss : ps[t] # Null}}
\* The heap once nobody but `owned` and the polynomials ps refers to it.
Collect(h, owned, ps) ==
  [a \in Address |-> IF a \in owned \cup KeptBy(ps, Slot) THEN h[a] ELSE Null]

----------------------------------------------------------------------------
(* The record and its operations.                                          *)

EmptyPolynomial(nv) ==
  [max_degree |-> 0, num_variables |-> nv, products |-> <<>>,
   flattened |-> <<>>, lookup |-> <<>>]

\* Mutant: the table learns the address, the extension is not stored.
StoreUnpushed(p, a) ==
  IF a \in DOMAIN p.lookup THEN p
  ELSE [p EXCEPT !.lookup = [b \in DOMAIN @ \cup {a} |->
                               IF b = a THEN Len(p.flattened) + 1 ELSE @[b]]]

\* Mutant: the table is not consulted.
StoreAgain(p, a) ==
  [p EXCEPT !.flattened = Append(@, a),
            !.lookup = [b \in DOMAIN @ \cup {a} |->
                          IF b = a THEN Len(p.flattened) + 1 ELSE @[b]]]

\* Find the extension's index by its address, or store it: the body that
\* add_mle_list and mul_by_mle share.  Indices count from 1.
Store(p, a) ==
  IF a \in DOMAIN p.lookup THEN p
  ELSE [p EXCEPT !.flattened = Append(@, a),
                 !.lookup = [b \in DOMAIN @ \cup {a} |->
                               IF b = a THEN Len(p.flattened) + 1 ELSE @[b]]]

\* The extensions of a list, one after the other.
StoreAll(p, list) ==
  LET after[j \in 0 .. Len(list)] ==
        IF j = 0 THEN p ELSE Store(after[j-1], list[j])
  IN  after[Len(list)]

\* The extensions of a list that are not of p's size.
Wrong(p, h, list) == {j \in DOMAIN list : h[list[j]].nv # p.num_variables}

\* add_mle_list up to the push of the product: the degree is raised first, and
\* the extensions before the first one of a wrong size are stored.
AddedList(p, h, list) ==
  LET wrong  == Wrong(p, h, list)
      prefix == IF wrong = {} THEN list
                ELSE SubSeq(list, 1, CHOOSE j \in 0 .. Len(list) :
                               j + 1 \in wrong /\ \A k \in wrong : j + 1 <= k)
      raised == [p EXCEPT !.max_degree = IF @ < Len(list) THEN Len(list) ELSE @]
  IN  StoreAll(raised, prefix)

Succeeds(p, h, list) == list # <<>> /\ Wrong(p, h, list) = {}

add_mle_list(p, h, list, c) ==
  LET added == AddedList(p, h, list)
  IN  IF list = <<>> THEN p
      ELSE IF ~ Succeeds(p, h, list) THEN added
      ELSE [added EXCEPT !.products =
              Append(@, [coefficient |-> c,
                         indices |-> [j \in DOMAIN list |-> added.lookup[list[j]]]])]

\* Mutant: the degree is not raised.
mul_by_mle_flat(p, a, c) ==
  LET stored == Store(p, a)
  IN  [stored EXCEPT
         !.products = [i \in DOMAIN @ |->
            [coefficient |-> (@[i].coefficient * c) % Modulus,
             indices |-> Append(@[i].indices, stored.lookup[a])]]]

mul_by_mle(p, a, c) ==
  LET stored == Store(p, a)
  IN  [stored EXCEPT
         !.products = [i \in DOMAIN @ |->
            [coefficient |-> (@[i].coefficient * c) % Modulus,
             indices |-> Append(@[i].indices, stored.lookup[a])]],
         !.max_degree = @ + 1]

\* The Arcs of q's kth product, and p with all the products of q added.
ArcsOf(q, k) ==
  [j \in DOMAIN q.products[k].indices |-> q.flattened[q.products[k].indices[j]]]
AddProducts(p, h, q) ==
  LET sum[k \in 0 .. Len(q.products)] ==
        IF k = 0 THEN p
        ELSE add_mle_list(sum[k-1], h, ArcsOf(q, k), q.products[k].coefficient)
  IN  sum[Len(q.products)]

\* What a polynomial denotes: its products with the stored extensions.
Denotation(p) ==
  [i \in DOMAIN p.products |->
     [coefficient |-> p.products[i].coefficient,
      factors |-> [j \in DOMAIN p.products[i].indices |->
                     heap[p.flattened[p.products[i].indices[j]]]]]]

Multiplied(ps, f, c) ==
  [i \in DOMAIN ps |-> [coefficient |-> (ps[i].coefficient * c) % Modulus,
                        factors |-> Append(ps[i].factors, f)]]

----------------------------------------------------------------------------
(* The steps of a program that uses them.                                  *)

Init ==
  /\ heap = [a \in Address |-> Null]
  /\ held = {}
  /\ poly = [s \in Slot |-> Null]
  /\ meant = [s \in Slot |-> <<>>]
  /\ panicked = FALSE

\* Arc::new: any free address may be handed out, also one used before.
Allocate(a, e) ==
  /\ heap[a] = Null
  /\ heap' = [heap EXCEPT ![a] = e]
  /\ held' = held \cup {a}
  /\ UNCHANGED <<poly, meant, panicked>>

DropArc(a) ==
  /\ a \in held
  /\ held' = held \ {a}
  /\ heap' = Collect(heap, held', poly)
  /\ UNCHANGED <<poly, meant, panicked>>

DropPolynomial(s) ==
  /\ s \in Filled
  /\ poly' = [poly EXCEPT ![s] = Null]
  /\ meant' = [meant EXCEPT ![s] = <<>>]
  /\ heap' = Collect(heap, held, poly')
  /\ UNCHANGED <<held, panicked>>

New(s, nv) ==
  /\ s \notin Filled
  /\ poly' = [poly EXCEPT ![s] = EmptyPolynomial(nv)]
  /\ UNCHANGED <<heap, held, meant, panicked>>

NewFromMle(s, a, c) ==
  /\ s \notin Filled /\ a \in held
  /\ poly' = [poly EXCEPT ![s] =
       [max_degree |-> 1, num_variables |-> heap[a].nv,
        products |-> <<[coefficient |-> c, indices |-> <<1>>]>>,
        flattened |-> <<a>>, lookup |-> [b \in {a} |-> 1]]]
  /\ meant' = [meant EXCEPT ![s] = <<[coefficient |-> c, factors |-> <<heap[a]>>]>>]
  /\ UNCHANGED <<heap, held, panicked>>

\* The caller keeps its Arcs (it passes clones); on Err what was stored stays.
AddMleList(s, list, c) ==
  /\ s \in Filled /\ Len(poly[s].products) < MaxProducts
  /\ poly' = [poly EXCEPT ![s] = add_mle_list(@, heap, list, c)]
  /\ meant' = IF Succeeds(poly[s], heap, list)
              THEN [meant EXCEPT ![s] = Append(@,
                      [coefficient |-> c, factors |-> [j \in DOMAIN list |-> heap[list[j]]]])]
              ELSE meant
  /\ UNCHANGED <<heap, held, panicked>>

Room(p) == p.max_degree < MaxFactors

MulByMle(s, a, c) ==
  /\ s \in Filled /\ a \in held /\ Room(poly[s])
  /\ heap[a].nv = poly[s].num_variables
  /\ poly' = [poly EXCEPT ![s] = mul_by_mle(@, a, c)]
  /\ meant' = [meant EXCEPT ![s] = Multiplied(@, heap[a], c)]
  /\ UNCHANGED <<heap, held, panicked>>

\* build_f_hat: a clone times eq(., r); only the clone owns the new extension.
BuildFHat(s, t, a) ==
  /\ s \in Filled /\ t \notin Filled /\ Room(poly[s])
  /\ heap[a] = Null
  /\ heap' = [heap EXCEPT ![a] = [nv |-> poly[s].num_variables, table |-> Eq]]
  /\ poly' = [poly EXCEPT ![t] = mul_by_mle(poly[s], a, 1)]
  /\ meant' = [meant EXCEPT ![t] = Multiplied(meant[s], heap'[a], 1)]
  /\ UNCHANGED <<held, panicked>>

\* &p + &q: a clone of p takes q's products one by one; one that does not fit
\* is a panic, and unwinding drops the clone.
Plus(s, t, u) ==
  LET arcs(k) == ArcsOf(poly[t], k)
  IN  /\ {s, t} \subseteq Filled /\ u \notin Filled
      /\ Len(poly[s].products) + Len(poly[t].products) <= MaxProducts
      /\ IF \A k \in DOMAIN poly[t].products : Succeeds(poly[s], heap, arcs(k))
         THEN /\ poly' = [poly EXCEPT ![u] = AddProducts(poly[s], heap, poly[t])]
              /\ meant' = [meant EXCEPT ![u] = meant[s] \o meant[t]]
              /\ UNCHANGED panicked
         ELSE panicked' = TRUE /\ UNCHANGED <<poly, meant>>
      /\ UNCHANGED <<heap, held>>

Next ==
  /\ ~panicked
  /\ \/ \E a \in Address, nv \in NumVars, n \in Name : Allocate(a, [nv |-> nv, table |-> n])
     \/ \E a \in Address : DropArc(a)
     \/ \E s \in Slot : DropPolynomial(s)
     \/ \E s \in Slot, nv \in NumVars : New(s, nv)
     \/ \E s \in Slot, c \in Coefficient : \E a \in held : NewFromMle(s, a, c)
     \/ \E s \in Slot, c \in Coefficient : \E list \in BoundedSeq(held, MaxFactors) : AddMleList(s, list, c)
     \/ \E s \in Slot, c \in Coefficient : \E a \in held : MulByMle(s, a, c)
     \/ \E s, t \in Slot, a \in Address : BuildFHat(s, t, a)
     \/ \E s, t, u \in Slot : Plus(s, t, u)

Spec == Init /\ [][Next]_vars

----------------------------------------------------------------------------
(* Properties.                                                             *)

\* The state has its type: an address somebody owns holds an extension, and an
\* index in a product or in the lookup table is one of the stored extensions'.
TypeOK ==
  /\ heap \in [Address -> Extension \cup {Null}]
  /\ held \subseteq {a \in Address : heap[a] # Null}
  /\ DOMAIN poly = Slot
  /\ \A s \in Filled :
       /\ poly[s].num_variables \in NumVars /\ poly[s].max_degree \in Nat
       /\ poly[s].flattened \in Seq(Address)
       /\ poly[s].products \in Seq(Product)
       /\ \A i \in DOMAIN poly[s].products :
            Range(poly[s].products[i].indices) \subseteq DOMAIN poly[s].flattened
  /\ panicked \in BOOLEAN

\* A polynomial is the sum of exactly the products its owner asked for, over
\* the extensions that were at those addresses when it asked (add_mle_list,
\* mul_by_mle, Add, build_f_hat), whatever was freed, handed out again, shared
\* or half-added by a refused call since.
DenotesHistory == \A s \in Filled : Denotation(poly[s]) = meant[s]

\* The lookup table is the inverse of the list of stored extensions: none is
\* stored twice and none is missing, so that the prover restricts each
\* shared extension once (the table of raw pointers of VirtualPolynomial).
LookupExact ==
  \A s \in Filled :
    LET p == poly[s]
    IN  /\ DOMAIN p.lookup = Range(p.flattened)
        /\ \A i \in DOMAIN p.flattened : p.lookup[p.flattened[i]] = i

\* What the sum check takes from aux_info: the degree bounds every product and
\* every stored extension has the announced number of variables, also after a
\* call that was refused half-way.
AuxInfoCovers ==
  \A s \in Filled :
    /\ \A i \in DOMAIN poly[s].products : Len(poly[s].products[i].indices) <= poly[s].max_degree
    /\ \A a \in Range(poly[s].flattened) : heap[a].nv = poly[s].num_variables
=============================================================================
