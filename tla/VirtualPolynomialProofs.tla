---------------------- MODULE VirtualPolynomialProofs ----------------------
(***************************************************************************)
(* Theorems about module VirtualPolynomial, for any number of addresses,   *)
(* slots, extensions and coefficients, and without regard to its bounds.   *)
(***************************************************************************)
EXTENDS VirtualPolynomial, SequenceTheorems, TLAPS

Steps == INSTANCE Folding WITH op <- +, base <- 0

Scalar == 0 .. Modulus - 1

\* The list of stored extensions and the table of addresses are each other's
\* inverse, and the products refer to the list and respect the degree.
WellFormed(p) ==
  /\ p \in Polynomial
  /\ DOMAIN p.lookup = Range(p.flattened)
  /\ \A i \in DOMAIN p.flattened : p.lookup[p.flattened[i]] = i
  /\ \A k \in DOMAIN p.products :
       /\ p.products[k].indices \in Seq(DOMAIN p.flattened)
       /\ Len(p.products[k].indices) <= p.max_degree

\* What p has stored is in the heap h, and of its size.
Fits(h, p, a) == h[a] \in Extension /\ h[a].nv = p.num_variables
Stands(h, p) == \A a \in Range(p.flattened) : Fits(h, p, a)

\* What p's kth product means in the heap h.
Meaning(h, p, k) ==
  [coefficient |-> p.products[k].coefficient,
   factors |-> [j \in DOMAIN p.products[k].indices |->
                  h[p.flattened[p.products[k].indices[j]]]]]
Meanings == [coefficient : Scalar, factors : Seq(Extension)]

Denoted(h, p) == [k \in DOMAIN p.products |-> Meaning(h, p, k)]

\* A slot with polynomial p, of which m was asked.
SlotInv(h, p, m) == WellFormed(p) /\ Stands(h, p) /\ m = Denoted(h, p)

\* The inductive invariant.
VirtualInv ==
  /\ heap \in [Address -> Extension \cup {Null}]
  /\ held \subseteq {a \in Address : heap[a] # Null}
  /\ poly \in [Slot -> Polynomial \cup {Null}]
  /\ meant \in [Slot -> Seq(Meanings)]
  /\ panicked \in BOOLEAN
  /\ \A s \in Slot : IF poly[s] # Null THEN SlotInv(heap, poly[s], meant[s])
                                       ELSE meant[s] = <<>>

---------------------------------------------------------------------------
(* Storing extensions.                                                     *)

\* q is p with perhaps more extensions stored.
Grown(p, q) ==
  /\ q.products = p.products
  /\ q.num_variables = p.num_variables
  /\ q.max_degree = p.max_degree
  /\ Len(p.flattened) <= Len(q.flattened)
  /\ \A i \in DOMAIN p.flattened : q.flattened[i] = p.flattened[i]

LEMMA Elements ==
  ASSUME NEW S, NEW s \in Seq(S)
  PROVE  /\ DOMAIN s = 1 .. Len(s) /\ Len(s) \in Nat
         /\ \A i \in DOMAIN s : s[i] \in S
         /\ Range(s) = {s[i] : i \in DOMAIN s} /\ Range(s) \subseteq S
BY LenProperties, ElementOfSeq DEF Range

LEMMA Fields ==
  ASSUME NEW p \in Polynomial
  PROVE  /\ p.max_degree \in Nat /\ p.num_variables \in NumVars
         /\ p.products \in Seq(Product) /\ p.flattened \in Seq(Address)
         /\ p.lookup \in UNION {[A -> Nat] : A \in SUBSET Address}
BY DEF Polynomial

LEMMA StoreKeeps ==
  ASSUME NEW p, WellFormed(p), NEW a \in Address
  PROVE  /\ WellFormed(Store(p, a))
         /\ Grown(p, Store(p, a))
         /\ Range(Store(p, a).flattened) = Range(p.flattened) \cup {a}
         /\ a \in DOMAIN Store(p, a).lookup
<1>1. CASE a \in DOMAIN p.lookup
  <2>1. Store(p, a) = p
    BY <1>1 DEF Store
  <2>2. Len(p.flattened) \in Nat
    BY LenProperties, Fields DEF WellFormed
  <2> QED BY <1>1, <2>1, <2>2 DEF WellFormed, Grown
<1>2. CASE a \notin DOMAIN p.lookup
  <2> DEFINE n == Len(p.flattened)
             q == Store(p, a)
             table == [b \in DOMAIN p.lookup \cup {a} |->
                         IF b = a THEN n + 1 ELSE p.lookup[b]]
  <2>1. /\ p.max_degree \in Nat /\ p.num_variables \in NumVars
        /\ p.products \in Seq(Product) /\ p.flattened \in Seq(Address)
        /\ p.lookup \in UNION {[A -> Nat] : A \in SUBSET Address}
    BY Fields DEF WellFormed
  <2>2. /\ q.max_degree = p.max_degree /\ q.num_variables = p.num_variables
        /\ q.products = p.products
        /\ q.flattened = Append(p.flattened, a)
        /\ q.lookup = table
        /\ q = [max_degree |-> p.max_degree, num_variables |-> p.num_variables,
                products |-> p.products, flattened |-> Append(p.flattened, a),
                lookup |-> table]
    BY <1>2 DEF Store, WellFormed, Polynomial
  <2>3. /\ n \in Nat /\ DOMAIN p.flattened = 1 .. n
        /\ Append(p.flattened, a) \in Seq(Address)
        /\ DOMAIN Append(p.flattened, a) = 1 .. n+1
        /\ Len(Append(p.flattened, a)) = n+1
        /\ Append(p.flattened, a)[n+1] = a
        /\ \A i \in 1 .. n : Append(p.flattened, a)[i] = p.flattened[i]
    BY <2>1, LenProperties, AppendProperties
  <2>4. Range(q.flattened) = Range(p.flattened) \cup {a}
    BY <2>2, <2>3 DEF Range
  <2>5. table \in UNION {[A -> Nat] : A \in SUBSET Address}
    <3>1. PICK A \in SUBSET Address : p.lookup \in [A -> Nat]
      BY <2>1
    <3>2. table \in [A \cup {a} -> Nat] /\ A \cup {a} \in SUBSET Address
      BY <2>3, <3>1
    <3> QED BY <3>2
  <2> HIDE DEF n, q, table
  <2>6. q \in Polynomial
    BY <2>1, <2>2, <2>3, <2>5 DEF Polynomial
  <2>7. DOMAIN q.lookup = Range(q.flattened) /\ a \in DOMAIN q.lookup
    BY <2>2, <2>4 DEF WellFormed, table
  <2>8. ASSUME NEW i \in DOMAIN q.flattened
        PROVE  q.lookup[q.flattened[i]] = i
    <3>1. CASE i = n+1
      BY <2>2, <2>3, <3>1 DEF table
    <3>2. CASE i \in 1 .. n
      <4>1. q.flattened[i] = p.flattened[i] /\ p.flattened[i] \in DOMAIN p.lookup
        BY <2>2, <2>3, <3>2 DEF WellFormed, Range
      <4>2. p.lookup[p.flattened[i]] = i
        BY <2>3, <3>2 DEF WellFormed
      <4> QED BY <1>2, <2>2, <4>1, <4>2 DEF table
    <3> QED BY <2>2, <2>3, <3>1, <3>2
  <2>9. ASSUME NEW k \in DOMAIN q.products
        PROVE  /\ q.products[k].indices \in Seq(DOMAIN q.flattened)
               /\ Len(q.products[k].indices) <= q.max_degree
    <3>1. /\ p.products[k].indices \in Seq(DOMAIN p.flattened)
          /\ Len(p.products[k].indices) <= p.max_degree
      BY <2>2 DEF WellFormed
    <3>2. DOMAIN p.flattened \subseteq DOMAIN q.flattened
      BY <2>2, <2>3
    <3> QED BY <2>2, <3>1, <3>2
  <2>10. Grown(p, q)
    BY <2>2, <2>3 DEF Grown, n
  <2> QED BY <2>4, <2>6, <2>7, <2>8, <2>9, <2>10 DEF WellFormed, q
<1> QED BY <1>1, <1>2

Storing(g, p, list, n) ==
  g = [j \in 0 .. n |-> IF j = 0 THEN p ELSE Store(g[j-1], list[j])]

LEMMA StoringExists ==
  ASSUME NEW p, NEW list, NEW n \in Nat
  PROVE  \E g : Storing(g, p, list, n)
<1> DEFINE S == {m \in Nat : \E g : Storing(g, p, list, m)}
<1>1. 0 \in S
  <2>1. Storing([j \in 0 .. 0 |-> p], p, list, 0)
    BY DEF Storing
  <2> QED BY <2>1
<1>2. ASSUME NEW m \in Nat, m \in S
      PROVE  m + 1 \in S
  <2>1. PICK g : Storing(g, p, list, m)
    BY <1>2
  <2> DEFINE h == [j \in 0 .. m+1 |-> IF j = m+1 THEN Store(g[m], list[m+1]) ELSE g[j]]
  <2>2. ASSUME NEW j \in 0 .. m+1
        PROVE  h[j] = IF j = 0 THEN p ELSE Store(h[j-1], list[j])
    <3>1. CASE j = m+1
      <4>1. j - 1 = m /\ h[j-1] = g[m]
        BY <3>1
      <4> QED BY <3>1, <4>1
    <3>2. CASE j \in 0 .. m /\ j # 0
      <4>1. j - 1 \in 0 .. m /\ h[j-1] = g[j-1] /\ h[j] = g[j]
        BY <3>2
      <4> QED BY <2>1, <3>2, <4>1 DEF Storing
    <3>3. CASE j = 0
      <4>1. h[0] = g[0]
        OBVIOUS
      <4> QED BY <2>1, <3>3, <4>1 DEF Storing
    <3> QED BY <3>1, <3>2, <3>3
  <2>3. Storing(h, p, list, m+1)
    <3>1. h = [j \in 0 .. m+1 |-> h[j]]
      OBVIOUS
    <3> HIDE DEF h
    <3> QED BY <2>2, <3>1 DEF Storing
  <2> HIDE DEF h
  <2> QED BY <2>3
<1>3. n \in S
  <2> HIDE DEF S
  <2> QED BY <1>1, <1>2, Steps!NaturalInduction
<1> QED BY <1>3

\* All of the extensions that fit are there after they were stored, each
\* once, and nothing else of the polynomial has changed.
LEMMA StoreAllKeeps ==
  ASSUME NEW p, WellFormed(p), NEW h, Stands(h, p),
         NEW list \in Seq(Address),
         \A j \in DOMAIN list : Fits(h, p, list[j])
  PROVE  /\ WellFormed(StoreAll(p, list))
         /\ Grown(p, StoreAll(p, list))
         /\ Stands(h, StoreAll(p, list))
         /\ \A j \in DOMAIN list : list[j] \in DOMAIN StoreAll(p, list).lookup
<1> DEFINE n == Len(list)
<1>1. n \in Nat /\ DOMAIN list = 1 .. n /\ \A j \in 1 .. n : list[j] \in Address
  BY Elements
<1>2. PICK g : Storing(g, p, list, n) /\ StoreAll(p, list) = g[n]
  <2> DEFINE g == CHOOSE g : Storing(g, p, list, n)
  <2>1. Storing(g, p, list, n)
    BY <1>1, StoringExists
  <2>2. StoreAll(p, list) = g[n]
    BY DEF StoreAll, Storing
  <2> HIDE DEF g
  <2> QED BY <2>1, <2>2
<1> DEFINE Done(q, j) ==
             /\ WellFormed(q)
             /\ Grown(p, q)
             /\ Stands(h, q)
             /\ \A i \in 1 .. j : list[i] \in DOMAIN q.lookup
           S == {j \in Nat : j <= n => Done(g[j], j)}
<1>3. 0 \in S
  <2>1. g[0] = p
    BY <1>1, <1>2 DEF Storing
  <2>2. Grown(p, p)
    BY Elements, Fields DEF WellFormed, Grown
  <2> QED BY <2>1, <2>2
<1>4. ASSUME NEW j \in Nat, j \in S
      PROVE  j + 1 \in S
  <2> SUFFICES ASSUME j + 1 <= n PROVE Done(g[j+1], j+1)
    OBVIOUS
  <2>1. Done(g[j], j)
    BY <1>1, <1>4
  <2>2. PICK a \in Address : a = list[j+1] /\ Fits(h, p, a)
    <3>1. j + 1 \in 1 .. n
      BY <1>1
    <3> QED BY <1>1, <3>1
  <2>3. g[j+1] = Store(g[j], a)
    <3>1. j + 1 \in 0 .. n /\ j + 1 # 0 /\ (j + 1) - 1 = j
      BY <1>1
    <3> QED BY <1>2, <2>2, <3>1 DEF Storing
  <2> DEFINE q == g[j]
             r == g[j+1]
  <2>4. /\ WellFormed(r) /\ Grown(q, r) /\ a \in DOMAIN r.lookup
        /\ Range(r.flattened) = Range(q.flattened) \cup {a}
    BY <2>1, <2>3, StoreKeeps
  <2>5. WellFormed(q) /\ Grown(p, q) /\ Stands(h, q)
          /\ \A i \in 1 .. j : list[i] \in DOMAIN q.lookup
    BY <2>1
  <2> HIDE DEF q, r
  <2>6. Grown(p, r)
    <3>1. DOMAIN p.flattened \subseteq DOMAIN q.flattened
            /\ Len(p.flattened) \in Nat /\ Len(q.flattened) \in Nat /\ Len(r.flattened) \in Nat
      BY <2>4, <2>5, Elements, Fields DEF WellFormed, Grown
    <3> QED BY <2>4, <2>5, <3>1 DEF Grown
  <2>7. Stands(h, r)
    BY <2>2, <2>4, <2>5 DEF Stands, Fits, Grown
  <2>8. ASSUME NEW i \in 1 .. j+1
        PROVE  list[i] \in DOMAIN r.lookup
    <3>1. CASE i = j+1
      BY <2>2, <2>4, <3>1
    <3>2. CASE i \in 1 .. j
      BY <2>4, <2>5, <3>2 DEF WellFormed
    <3> QED BY <3>1, <3>2
  <2> QED BY <2>4, <2>6, <2>7, <2>8 DEF r
<1>5. n \in S
  <2> HIDE DEF S
  <2> QED BY <1>1, <1>3, <1>4, Steps!NaturalInduction
<1> QED BY <1>1, <1>2, <1>5

---------------------------------------------------------------------------
(* What a polynomial means.                                                *)

\* More extensions stored leave the meaning of the products alone.
LEMMA GrownMeans ==
  ASSUME NEW p, WellFormed(p), NEW q, Grown(p, q), NEW h,
         NEW k \in DOMAIN p.products
  PROVE  Meaning(h, q, k) = Meaning(h, p, k)
<1>1. /\ p.products[k].indices \in Seq(DOMAIN p.flattened)
      /\ q.products = p.products
      /\ \A i \in DOMAIN p.flattened : q.flattened[i] = p.flattened[i]
  BY DEF WellFormed, Grown
<1>2. \A j \in DOMAIN p.products[k].indices :
        p.products[k].indices[j] \in DOMAIN p.flattened
  BY <1>1, Elements
<1> QED BY <1>1, <1>2 DEF Meaning

\* A heap that has the same at the addresses stored gives the same meaning.
LEMMA HeapMeans ==
  ASSUME NEW p, WellFormed(p), NEW h, NEW g,
         \A a \in Range(p.flattened) : g[a] = h[a]
  PROVE  /\ \A k \in DOMAIN p.products : Meaning(g, p, k) = Meaning(h, p, k)
         /\ Stands(h, p) => Stands(g, p)
<1>1. ASSUME NEW k \in DOMAIN p.products
      PROVE  Meaning(g, p, k) = Meaning(h, p, k)
  <2>1. p.products[k].indices \in Seq(DOMAIN p.flattened)
    BY DEF WellFormed
  <2>2. \A j \in DOMAIN p.products[k].indices :
          p.products[k].indices[j] \in DOMAIN p.flattened
    BY <2>1, Elements
  <2>3. \A j \in DOMAIN p.products[k].indices :
          p.flattened[p.products[k].indices[j]] \in Range(p.flattened)
    BY <2>2 DEF Range
  <2> QED BY <2>3 DEF Meaning
<1> QED BY <1>1 DEF Stands, Fits

LEMMA MeaningType ==
  ASSUME NEW p, WellFormed(p), NEW h, Stands(h, p), NEW k \in DOMAIN p.products
  PROVE  Meaning(h, p, k) \in Meanings
<1>1. /\ p.products[k].indices \in Seq(DOMAIN p.flattened)
      /\ p.products \in Seq(Product)
  BY Fields DEF WellFormed
<1>2. p.products[k] \in Product
  BY <1>1, Elements
<1> DEFINE is == p.products[k].indices
           m == Len(is)
<1>3. m \in Nat /\ DOMAIN is = 1 .. m /\ \A j \in 1 .. m : is[j] \in DOMAIN p.flattened
  BY <1>1, Elements
<1> HIDE DEF is, m
<1>4. \A j \in 1 .. m : h[p.flattened[is[j]]] \in Extension
  BY <1>3 DEF Stands, Fits, Range
<1>5. [j \in 1 .. m |-> h[p.flattened[is[j]]]] \in Seq(Extension)
  BY <1>3, <1>4
<1>6. p.products[k].coefficient \in Scalar
  BY <1>2 DEF Product, Scalar
<1> QED BY <1>3, <1>5, <1>6 DEF Meaning, Meanings, is

LEMMA SumType ==
  ASSUME NEW p, WellFormed(p), NEW h, Stands(h, p)
  PROVE  /\ Denoted(h, p) \in Seq(Meanings)
         /\ Len(Denoted(h, p)) = Len(p.products)
         /\ Len(p.products) \in Nat /\ DOMAIN p.products = 1 .. Len(p.products)
<1>1. /\ DOMAIN p.products = 1 .. Len(p.products) /\ Len(p.products) \in Nat
  BY Elements, Fields DEF WellFormed
<1>2. \A k \in 1 .. Len(p.products) : Meaning(h, p, k) \in Meanings
  BY <1>1, MeaningType
<1> QED BY <1>1, <1>2 DEF Denoted

---------------------------------------------------------------------------
(* Adding and multiplying.                                                 *)

Raised(p, d) == [p EXCEPT !.max_degree = IF @ < d THEN d ELSE @]

LEMMA RaisedKeeps ==
  ASSUME NEW p, WellFormed(p), NEW d \in Nat
  PROVE  /\ WellFormed(Raised(p, d))
         /\ Raised(p, d).products = p.products
         /\ Raised(p, d).num_variables = p.num_variables
         /\ Raised(p, d).flattened = p.flattened
         /\ d <= Raised(p, d).max_degree
<1> DEFINE q == Raised(p, d)
<1>1. p \in Polynomial
  BY DEF WellFormed
<1>2. /\ q.products = p.products /\ q.num_variables = p.num_variables
      /\ q.flattened = p.flattened /\ q.lookup = p.lookup
      /\ q.max_degree = IF p.max_degree < d THEN d ELSE p.max_degree
      /\ q \in Polynomial
  BY <1>1 DEF Raised, Polynomial
<1> HIDE DEF q
<1>3. p.max_degree \in Nat
  BY <1>1, Fields
<1>4. /\ q.max_degree \in Nat /\ p.max_degree <= q.max_degree
      /\ d <= q.max_degree
  BY <1>2, <1>3
<1>5. ASSUME NEW k \in DOMAIN q.products
      PROVE  /\ q.products[k].indices \in Seq(DOMAIN q.flattened)
             /\ Len(q.products[k].indices) <= q.max_degree
  <2>1. /\ p.products[k].indices \in Seq(DOMAIN p.flattened)
        /\ Len(p.products[k].indices) <= p.max_degree
    BY <1>2 DEF WellFormed
  <2>2. Len(p.products[k].indices) \in Nat
    BY <2>1, LenProperties
  <2> QED BY <1>2, <1>3, <1>4, <2>1, <2>2
<1> QED BY <1>2, <1>4, <1>5 DEF WellFormed, q

LEMMA AddedListKeeps ==
  ASSUME NEW p, WellFormed(p), NEW h, Stands(h, p),
         NEW list \in Seq(Address), \A j \in DOMAIN list : h[list[j]] \in Extension
  PROVE  /\ WellFormed(AddedList(p, h, list))
         /\ Grown(Raised(p, Len(list)), AddedList(p, h, list))
         /\ Stands(h, AddedList(p, h, list))
         /\ Wrong(p, h, list) = {} =>
              \A j \in DOMAIN list : list[j] \in DOMAIN AddedList(p, h, list).lookup
<1> DEFINE wrong == Wrong(p, h, list)
           first == CHOOSE j \in 0 .. Len(list) :
                      j + 1 \in wrong /\ \A k \in wrong : j + 1 <= k
           prefix == IF wrong = {} THEN list ELSE SubSeq(list, 1, first)
           raised == Raised(p, Len(list))
<1>1. AddedList(p, h, list) = StoreAll(raised, prefix)
  BY DEF AddedList, Raised
<1>2. Len(list) \in Nat /\ DOMAIN list = 1 .. Len(list)
  BY Elements
<1>3. /\ prefix \in Seq(Address)
      /\ \A j \in DOMAIN prefix : j \in DOMAIN list /\ prefix[j] = list[j] /\ j \notin wrong
  <2>1. CASE wrong = {}
    BY <2>1
  <2>2. CASE wrong # {}
    <3>1. PICK n \in wrong : \A m \in wrong : n <= m
      <4>1. wrong \in SUBSET Nat
        BY <1>2 DEF Wrong
      <4> HIDE DEF wrong
      <4> QED BY <2>2, <4>1, Steps!LeastNatural
    <3>2. n \in 1 .. Len(list)
      BY <1>2 DEF Wrong
    <3>3. first \in 0 .. Len(list) /\ first + 1 \in wrong /\ \A k \in wrong : first + 1 <= k
      <4>1. n - 1 \in 0 .. Len(list) /\ (n - 1) + 1 = n
        BY <1>2, <3>2
      <4> HIDE DEF wrong
      <4>2. \E j \in 0 .. Len(list) : j + 1 \in wrong /\ \A k \in wrong : j + 1 <= k
        BY <3>1, <4>1
      <4> QED BY <4>2
    <3> HIDE DEF first
    <3>4. \A j \in 1 .. first : j \notin wrong
      <4> HIDE DEF wrong
      <4> QED BY <1>2, <3>3
    <3>5. first + 1 <= Len(list)
      BY <1>2, <3>3 DEF Wrong
    <3>6. /\ SubSeq(list, 1, first) \in Seq(Address)
          /\ DOMAIN SubSeq(list, 1, first) = 1 .. first
          /\ \A j \in 1 .. first : SubSeq(list, 1, first)[j] = list[j]
      BY <1>2, <3>3, <3>5, SubSeqProperties
    <3>7. prefix = SubSeq(list, 1, first) /\ 1 .. first \subseteq DOMAIN list
      BY <1>2, <2>2, <3>3
    <3> HIDE DEF prefix, wrong
    <3> QED BY <3>4, <3>6, <3>7
  <2> QED BY <2>1, <2>2
<1>4. /\ WellFormed(raised) /\ raised.num_variables = p.num_variables
      /\ raised.flattened = p.flattened
  BY <1>2, RaisedKeeps
<1>5. Stands(h, raised)
  BY <1>4 DEF Stands, Fits
<1>6. \A j \in DOMAIN prefix : Fits(h, raised, prefix[j])
  <2> HIDE DEF prefix, raised
  <2> QED BY <1>3, <1>4 DEF Fits, Wrong
<1>7. wrong = {} => prefix = list
  OBVIOUS
<1> HIDE DEF prefix, raised, wrong
<1>8. /\ WellFormed(StoreAll(raised, prefix))
      /\ Grown(raised, StoreAll(raised, prefix))
      /\ Stands(h, StoreAll(raised, prefix))
      /\ \A j \in DOMAIN prefix : prefix[j] \in DOMAIN StoreAll(raised, prefix).lookup
  BY <1>3, <1>4, <1>5, <1>6, StoreAllKeeps
<1> QED BY <1>1, <1>7, <1>8 DEF raised, wrong

Asked(h, list, c) ==
  [coefficient |-> c, factors |-> [j \in DOMAIN list |-> h[list[j]]]]

\* A sequence that agrees with another and has one element more.
LEMMA Appending ==
  ASSUME NEW S, NEW s \in Seq(S), NEW v \in S, NEW t \in Seq(S),
         Len(t) = Len(s) + 1, t[Len(t)] = v,
         \A k \in 1 .. Len(s) : t[k] = s[k]
  PROVE  t = Append(s, v)
<1> DEFINE u == Append(s, v)
<1>1. /\ u \in Seq(S) /\ Len(u) = Len(s) + 1 /\ u[Len(s) + 1] = v
      /\ \A k \in 1 .. Len(s) : u[k] = s[k]
      /\ Len(s) \in Nat
  BY AppendProperties, LenProperties
<1> HIDE DEF u
<1>2. \A k \in 1 .. Len(t) : t[k] = u[k]
  BY <1>1
<1> QED BY <1>1, <1>2, SeqEqual DEF u

LEMMA AskedType ==
  ASSUME NEW h, NEW c \in Scalar, NEW list \in Seq(Address),
         \A j \in DOMAIN list : h[list[j]] \in Extension
  PROVE  Asked(h, list, c) \in Meanings
<1>1. DOMAIN list = 1 .. Len(list) /\ Len(list) \in Nat
  BY Elements
<1>2. [j \in 1 .. Len(list) |-> h[list[j]]] \in Seq(Extension)
  BY <1>1
<1> QED BY <1>1, <1>2 DEF Asked, Meanings

\* The index of a stored extension leads back to it.
LEMMA IndexOf ==
  ASSUME NEW p, WellFormed(p), NEW a \in DOMAIN p.lookup
  PROVE  p.lookup[a] \in DOMAIN p.flattened /\ p.flattened[p.lookup[a]] = a
<1>1. PICK i \in DOMAIN p.flattened : p.flattened[i] = a
  BY DEF WellFormed, Range
<1> QED BY <1>1 DEF WellFormed

LEMMA SumOfAddedList ==
  ASSUME NEW p, WellFormed(p), NEW h, Stands(h, p),
         NEW list \in Seq(Address), \A j \in DOMAIN list : h[list[j]] \in Extension
  PROVE  Denoted(h, AddedList(p, h, list)) = Denoted(h, p)
<1> DEFINE q == AddedList(p, h, list)
           raised == Raised(p, Len(list))
<1>1. Len(list) \in Nat
  BY Elements
<1>2. /\ WellFormed(raised) /\ raised.products = p.products
      /\ raised.flattened = p.flattened
  BY <1>1, RaisedKeeps
<1>3. Grown(raised, q)
  BY AddedListKeeps
<1> HIDE DEF q, raised
<1>4. \A k \in DOMAIN p.products : Meaning(h, q, k) = Meaning(h, p, k)
  <2> SUFFICES ASSUME NEW k \in DOMAIN p.products
               PROVE  Meaning(h, q, k) = Meaning(h, p, k)
    OBVIOUS
  <2>1. Meaning(h, q, k) = Meaning(h, raised, k)
    BY <1>2, <1>3, GrownMeans
  <2> QED BY <1>2, <2>1 DEF Meaning
<1>5. DOMAIN q.products = DOMAIN p.products
  BY <1>2, <1>3 DEF Grown
<1> QED BY <1>4, <1>5 DEF Denoted, q

\* A list that is accepted adds its product, one that is refused adds none.
LEMMA AddKeeps ==
  ASSUME NEW p, WellFormed(p), NEW h, Stands(h, p), NEW c \in Scalar,
         NEW list \in Seq(Address), \A j \in DOMAIN list : h[list[j]] \in Extension
  PROVE  /\ WellFormed(add_mle_list(p, h, list, c))
         /\ Stands(h, add_mle_list(p, h, list, c))
         /\ add_mle_list(p, h, list, c).num_variables = p.num_variables
         /\ Denoted(h, add_mle_list(p, h, list, c)) =
              IF Succeeds(p, h, list) THEN Append(Denoted(h, p), Asked(h, list, c))
                                      ELSE Denoted(h, p)
<1> DEFINE added == AddedList(p, h, list)
           q == add_mle_list(p, h, list, c)
           m == Len(list)
<1>1. m \in Nat /\ DOMAIN list = 1 .. m /\ \A j \in 1 .. m : list[j] \in Address
  BY Elements
<1>2. /\ WellFormed(added) /\ Stands(h, added)
      /\ Grown(Raised(p, m), added)
      /\ Wrong(p, h, list) = {} =>
           \A j \in DOMAIN list : list[j] \in DOMAIN added.lookup
  BY AddedListKeeps
<1>3. /\ added.num_variables = p.num_variables /\ m <= added.max_degree
  BY <1>1, <1>2, RaisedKeeps DEF Grown
<1>4. Denoted(h, added) = Denoted(h, p)
  BY SumOfAddedList
<1> HIDE DEF added
<1>5. CASE ~ Succeeds(p, h, list)
  <2>1. q = p \/ q = added
    BY <1>5 DEF add_mle_list, added
  <2> QED BY <1>2, <1>3, <1>4, <1>5, <2>1
<1>6. CASE Succeeds(p, h, list)
  <2> DEFINE is == [j \in 1 .. m |-> added.lookup[list[j]]]
             new == [coefficient |-> c, indices |-> is]
             n == Len(added.products)
  <2>1. q = [added EXCEPT !.products = Append(@, new)]
    BY <1>1, <1>6 DEF add_mle_list, added, Succeeds
  <2>2. added \in Polynomial
    BY <1>2 DEF WellFormed
  <2>3. \A j \in 1 .. m : /\ is[j] \in DOMAIN added.flattened
                          /\ added.flattened[is[j]] = list[j]
    BY <1>1, <1>2, <1>6, IndexOf DEF Succeeds
  <2>4. /\ is \in Seq(DOMAIN added.flattened) /\ DOMAIN is = 1 .. m /\ Len(is) = m
    BY <1>1, <2>3
  <2>5. DOMAIN added.flattened \subseteq Nat \ {0}
    BY <2>2, Elements, Fields
  <2>6. new \in Product
    <3>1. is \in Seq(Nat \ {0})
      BY <2>4, <2>5
    <3> HIDE DEF is
    <3> QED BY <3>1 DEF Product, Scalar
  <2>7. /\ n \in Nat /\ DOMAIN added.products = 1 .. n
        /\ Append(added.products, new) \in Seq(Product)
        /\ DOMAIN Append(added.products, new) = 1 .. n+1
        /\ Append(added.products, new)[n+1] = new
        /\ \A k \in 1 .. n : Append(added.products, new)[k] = added.products[k]
    BY <2>2, <2>6, Elements, Fields, AppendProperties
  <2>8. /\ q.products = Append(added.products, new)
        /\ q.flattened = added.flattened /\ q.lookup = added.lookup
        /\ q.num_variables = added.num_variables /\ q.max_degree = added.max_degree
        /\ q \in Polynomial
    <3> HIDE DEF new
    <3> QED BY <2>1, <2>2, <2>7 DEF Polynomial
  <2>9. new.indices = is /\ new.coefficient = c
    OBVIOUS
  <2> HIDE DEF q, n, new
  <2>10. ASSUME NEW k \in DOMAIN q.products
         PROVE  /\ q.products[k].indices \in Seq(DOMAIN q.flattened)
                /\ Len(q.products[k].indices) <= q.max_degree
    <3>1. CASE k = n+1
      BY <1>3, <2>4, <2>7, <2>8, <2>9, <3>1
    <3>2. CASE k \in 1 .. n
      BY <1>2, <2>7, <2>8, <3>2 DEF WellFormed
    <3> QED BY <2>7, <2>8, <3>1, <3>2
  <2>11. WellFormed(q)
    BY <1>2, <2>8, <2>10 DEF WellFormed
  <2>12. Stands(h, q)
    BY <1>2, <2>8 DEF Stands, Fits
  <2>13. \A k \in 1 .. n : Meaning(h, q, k) = Meaning(h, added, k)
    BY <2>7, <2>8 DEF Meaning
  <2>14. Meaning(h, q, n+1) = Asked(h, list, c)
    <3>1. [j \in DOMAIN is |-> h[added.flattened[is[j]]]]
            = [j \in DOMAIN list |-> h[list[j]]]
      BY <1>1, <2>3, <2>4
    <3>2. q.products[n+1] = new
      BY <2>7, <2>8
    <3> HIDE DEF is
    <3>3. Meaning(h, q, n+1) =
            [coefficient |-> q.products[n+1].coefficient,
             factors |-> [j \in DOMAIN q.products[n+1].indices |->
                            h[q.flattened[q.products[n+1].indices[j]]]]]
      BY DEF Meaning
    <3>4. Meaning(h, q, n+1) =
            [coefficient |-> c,
             factors |-> [j \in DOMAIN is |-> h[added.flattened[is[j]]]]]
      BY <2>8, <2>9, <3>2, <3>3, Zenon
    <3> QED BY <3>1, <3>4 DEF Asked
  <2>15. Denoted(h, q) = Append(Denoted(h, added), Asked(h, list, c))
    <3> DEFINE s == Denoted(h, added)
               t == Denoted(h, q)
               v == Asked(h, list, c)
    <3>1. /\ s \in Seq(Meanings) /\ Len(s) = n
          /\ \A k \in 1 .. n : s[k] = Meaning(h, added, k)
      BY <1>2, <2>7, SumType DEF Denoted, n
    <3>2. /\ t \in Seq(Meanings) /\ Len(t) = n+1
          /\ \A k \in 1 .. n+1 : t[k] = Meaning(h, q, k)
      <4>1. t \in Seq(Meanings) /\ Len(t) = Len(q.products)
              /\ DOMAIN q.products = 1 .. Len(q.products)
        BY <2>11, <2>12, SumType
      <4>2. Len(q.products) = n+1
        BY <2>7, <2>8, LenProperties, Fields
      <4> QED BY <4>1, <4>2 DEF Denoted
    <3>3. v \in Meanings
      BY AskedType
    <3> HIDE DEF s, t, v
    <3>4. t[n+1] = v /\ \A k \in 1 .. n : t[k] = s[k]
      BY <2>7, <2>13, <2>14, <3>1, <3>2 DEF v
    <3>5. t = Append(s, v)
      BY <3>1, <3>2, <3>3, <3>4, Appending
    <3> QED BY <3>5 DEF s, t, v
  <2> QED BY <1>3, <1>4, <1>6, <2>8, <2>11, <2>12, <2>15 DEF q
<1> QED BY <1>5, <1>6

LEMMA WiderSeq ==
  ASSUME NEW S, NEW T, S \subseteq T, NEW s \in Seq(S)
  PROVE  s \in Seq(T)
<1>1. DOMAIN s = 1 .. Len(s) /\ Len(s) \in Nat /\ \A i \in 1 .. Len(s) : s[i] \in T
  BY Elements
<1>2. s = [i \in 1 .. Len(s) |-> s[i]]
  OBVIOUS
<1> QED BY <1>1, <1>2

\* A multiplication appends the extension to every product.
LEMMA MulKeeps ==
  ASSUME NEW p, WellFormed(p), NEW h, Stands(h, p), NEW c \in Nat,
         NEW a \in Address, Fits(h, p, a)
  PROVE  /\ WellFormed(mul_by_mle(p, a, c))
         /\ Stands(h, mul_by_mle(p, a, c))
         /\ Denoted(h, mul_by_mle(p, a, c)) = Multiplied(Denoted(h, p), h[a], c)
<1> DEFINE stored == Store(p, a)
           q == mul_by_mle(p, a, c)
           x == stored.lookup[a]
           n == Len(p.products)
           new(k) == [coefficient |-> (p.products[k].coefficient * c) % Modulus,
                      indices |-> Append(p.products[k].indices, x)]
           products == [k \in 1 .. n |-> new(k)]
<1>1. /\ WellFormed(stored) /\ Grown(p, stored) /\ a \in DOMAIN stored.lookup
      /\ Range(stored.flattened) = Range(p.flattened) \cup {a}
  BY StoreKeeps
<1>2. Stands(h, stored)
  BY <1>1 DEF Stands, Fits, Grown
<1>3. /\ stored \in Polynomial /\ stored.products = p.products
      /\ stored.num_variables = p.num_variables /\ stored.max_degree = p.max_degree
  BY <1>1 DEF WellFormed, Grown
<1>4. n \in Nat /\ DOMAIN p.products = 1 .. n /\ p.max_degree \in Nat
      /\ p.products \in Seq(Product)
  BY Elements, Fields DEF WellFormed
<1>5. x \in DOMAIN stored.flattened /\ stored.flattened[x] = a
        /\ DOMAIN stored.flattened \subseteq Nat \ {0}
  BY <1>1, <1>3, IndexOf, Elements, Fields
<1>6. q = [stored EXCEPT !.products = products, !.max_degree = @ + 1]
  BY <1>3, <1>4 DEF mul_by_mle
<1> HIDE DEF stored, x, n
<1>7. ASSUME NEW k \in 1 .. n
      PROVE  LET is == p.products[k].indices
             IN  /\ p.products[k].coefficient \in Scalar
                 /\ is \in Seq(DOMAIN stored.flattened)
                 /\ Append(is, x) \in Seq(DOMAIN stored.flattened)
                 /\ Len(is) \in Nat /\ DOMAIN is = 1 .. Len(is)
                 /\ Len(Append(is, x)) = Len(is) + 1
                 /\ DOMAIN Append(is, x) = 1 .. Len(is) + 1
                 /\ Append(is, x)[Len(is) + 1] = x
                 /\ \A j \in 1 .. Len(is) : Append(is, x)[j] = is[j]
                 /\ Len(is) <= p.max_degree
                 /\ new(k) \in Product
  <2> DEFINE is == p.products[k].indices
             D == DOMAIN stored.flattened
  <2>1. is \in Seq(D) /\ Len(is) <= p.max_degree
    BY <1>1, <1>3, <1>4 DEF WellFormed
  <2>2. p.products[k].coefficient \in Scalar
    <3>1. p.products[k] \in Product
      BY <1>4, Elements
    <3> QED BY <3>1 DEF Product, Scalar
  <2> HIDE DEF is
  <2>3. x \in D /\ D \subseteq Nat \ {0}
    BY <1>5
  <2> HIDE DEF D
  <2>4. /\ Append(is, x) \in Seq(D)
        /\ Len(is) \in Nat /\ DOMAIN is = 1 .. Len(is)
        /\ Len(Append(is, x)) = Len(is) + 1
        /\ DOMAIN Append(is, x) = 1 .. Len(is) + 1
        /\ Append(is, x)[Len(is) + 1] = x
        /\ \A j \in 1 .. Len(is) : Append(is, x)[j] = is[j]
    BY <2>1, <2>3, Elements, AppendProperties
  <2>5. Append(is, x) \in Seq(Nat \ {0})
    BY <2>3, <2>4, WiderSeq
  <2>6. (p.products[k].coefficient * c) % Modulus \in Scalar
    <3> DEFINE d == p.products[k].coefficient
    <3>1. d \in Nat /\ Modulus \in Nat \ {0}
      BY <2>2, AddressAssumption DEF Scalar
    <3> HIDE DEF d
    <3>2. d * c \in Nat
      BY <3>1
    <3> QED BY <3>1, <3>2 DEF Scalar, d
  <2>7. new(k) \in Product
    BY <2>5, <2>6 DEF Product, Scalar, is
  <2> QED BY <2>1, <2>2, <2>4, <2>7 DEF is, D
<1>8. products \in Seq(Product) /\ DOMAIN products = 1 .. n /\ Len(products) = n
  <2> HIDE DEF new
  <2>1. \A k \in 1 .. n : new(k) \in Product
    BY <1>7
  <2> QED BY <1>4, <2>1
<1> HIDE DEF products
<1>9. /\ q.products = products /\ q.flattened = stored.flattened
      /\ q.lookup = stored.lookup /\ q.num_variables = stored.num_variables
      /\ q.max_degree = p.max_degree + 1 /\ q \in Polynomial
  <2>1. p.max_degree + 1 \in Nat
    BY <1>4
  <2> HIDE DEF q
  <2> QED BY <1>3, <1>6, <1>8, <2>1 DEF Polynomial
<1> HIDE DEF q
<1>10. ASSUME NEW k \in 1 .. n
       PROVE  /\ q.products[k].coefficient = (p.products[k].coefficient * c) % Modulus
              /\ q.products[k].indices = Append(p.products[k].indices, x)
  BY <1>9 DEF products
<1>11. WellFormed(q)
  <2>1. ASSUME NEW k \in DOMAIN q.products
        PROVE  /\ q.products[k].indices \in Seq(DOMAIN q.flattened)
               /\ Len(q.products[k].indices) <= q.max_degree
    <3>1. k \in 1 .. n
      BY <1>8, <1>9
    <3> DEFINE is == p.products[k].indices
    <3>2. /\ Append(is, x) \in Seq(DOMAIN stored.flattened)
          /\ Len(is) \in Nat /\ Len(Append(is, x)) = Len(is) + 1
          /\ Len(is) <= p.max_degree
      BY <1>7, <3>1
    <3>3. q.products[k].indices = Append(is, x)
      BY <1>10, <3>1
    <3> HIDE DEF is
    <3>4. Len(Append(is, x)) <= p.max_degree + 1
      BY <1>4, <3>2
    <3> QED BY <1>9, <3>2, <3>3, <3>4
  <2> QED BY <1>1, <1>9, <2>1 DEF WellFormed
<1>12. Stands(h, q)
  BY <1>2, <1>9 DEF Stands, Fits
<1>13. ASSUME NEW k \in 1 .. n
       PROVE  Meaning(h, q, k) =
                [coefficient |-> (Meaning(h, p, k).coefficient * c) % Modulus,
                 factors |-> Append(Meaning(h, p, k).factors, h[a])]
  <2> DEFINE is == p.products[k].indices
             old == [j \in DOMAIN is |-> h[stored.flattened[is[j]]]]
             all == [j \in DOMAIN Append(is, x) |-> h[stored.flattened[Append(is, x)[j]]]]
  <2>1. Meaning(h, stored, k) = Meaning(h, p, k)
    BY <1>1, <1>4, GrownMeans
  <2>2. /\ Meaning(h, p, k).coefficient = p.products[k].coefficient
        /\ Meaning(h, p, k).factors = old
    <3>1. /\ Meaning(h, stored, k).coefficient = p.products[k].coefficient
          /\ Meaning(h, stored, k).factors = old
      BY <1>3 DEF Meaning
    <3> QED BY <2>1, <3>1
  <2>3. Meaning(h, q, k) =
          [coefficient |-> (p.products[k].coefficient * c) % Modulus, factors |-> all]
    <3>1. Meaning(h, q, k) =
            [coefficient |-> q.products[k].coefficient,
             factors |-> [j \in DOMAIN q.products[k].indices |->
                            h[q.flattened[q.products[k].indices[j]]]]]
      BY DEF Meaning
    <3> QED BY <1>9, <1>10, <3>1, Zenon
  <2>4. all = Append(old, h[a])
    <3>1. /\ is \in Seq(DOMAIN stored.flattened) /\ Len(is) \in Nat
          /\ DOMAIN is = 1 .. Len(is)
          /\ Append(is, x) \in Seq(DOMAIN stored.flattened)
          /\ Len(Append(is, x)) = Len(is) + 1
          /\ DOMAIN Append(is, x) = 1 .. Len(is) + 1
          /\ Append(is, x)[Len(is) + 1] = x
          /\ \A j \in 1 .. Len(is) : Append(is, x)[j] = is[j]
      BY <1>7
    <3> DEFINE m == Len(is)
               ix == Append(is, x)
    <3>2. /\ \A j \in 1 .. m : is[j] \in DOMAIN stored.flattened
          /\ \A j \in 1 .. m+1 : ix[j] \in DOMAIN stored.flattened
      BY <3>1, Elements
    <3> HIDE DEF is, ix, m
    <3>3. \A i \in DOMAIN stored.flattened : h[stored.flattened[i]] \in Extension
      BY <1>2 DEF Stands, Fits, Range
    <3>4. old \in Seq(Extension) /\ Len(old) = m /\ \A j \in 1 .. m : old[j] = h[stored.flattened[is[j]]]
      BY <3>1, <3>2, <3>3 DEF m
    <3>5. all \in Seq(Extension) /\ Len(all) = m+1
            /\ \A j \in 1 .. m+1 : all[j] = h[stored.flattened[ix[j]]]
      BY <3>1, <3>2, <3>3 DEF m, ix
    <3>6. h[a] \in Extension
      BY DEF Fits
    <3> HIDE DEF old, all
    <3>7. all[m+1] = h[a] /\ \A j \in 1 .. m : all[j] = old[j]
      BY <1>5, <3>1, <3>4, <3>5, SMTT(20) DEF m, ix
    <3> QED BY <3>4, <3>5, <3>6, <3>7, Appending
  <2> HIDE DEF old, all
  <2> QED BY <2>2, <2>3, <2>4
<1>14. Denoted(h, q) = Multiplied(Denoted(h, p), h[a], c)
  <2>1. Denoted(h, q) = [k \in 1 .. n |-> Meaning(h, q, k)]
    BY <1>8, <1>9 DEF Denoted
  <2>2. /\ DOMAIN Denoted(h, p) = 1 .. n
        /\ \A k \in 1 .. n : Denoted(h, p)[k] = Meaning(h, p, k)
    BY <1>4 DEF Denoted
  <2> QED BY <1>13, <2>1, <2>2 DEF Multiplied
<1> QED BY <1>11, <1>12, <1>14 DEF q

Adding(g, p, h, q, n) ==
  g = [k \in 0 .. n |->
         IF k = 0 THEN p
         ELSE add_mle_list(g[k-1], h, ArcsOf(q, k), q.products[k].coefficient)]

LEMMA AddingExists ==
  ASSUME NEW p, NEW h, NEW q, NEW n \in Nat
  PROVE  \E g : Adding(g, p, h, q, n)
<1> DEFINE Next_(r, k) == add_mle_list(r, h, ArcsOf(q, k), q.products[k].coefficient)
           S == {m \in Nat : \E g : Adding(g, p, h, q, m)}
<1>1. 0 \in S
  <2>1. Adding([k \in 0 .. 0 |-> p], p, h, q, 0)
    BY DEF Adding
  <2> QED BY <2>1
<1>2. ASSUME NEW m \in Nat, m \in S
      PROVE  m + 1 \in S
  <2>1. PICK g : Adding(g, p, h, q, m)
    BY <1>2
  <2> DEFINE f == [k \in 0 .. m+1 |-> IF k = m+1 THEN Next_(g[m], m+1) ELSE g[k]]
  <2>2. ASSUME NEW k \in 0 .. m+1
        PROVE  f[k] = IF k = 0 THEN p ELSE Next_(f[k-1], k)
    <3>1. CASE k = m+1
      <4>1. k - 1 = m /\ f[k-1] = g[m]
        BY <3>1
      <4> QED BY <3>1, <4>1
    <3>2. CASE k \in 0 .. m /\ k # 0
      <4>1. k - 1 \in 0 .. m /\ f[k-1] = g[k-1] /\ f[k] = g[k]
        BY <3>2
      <4> QED BY <2>1, <3>2, <4>1 DEF Adding
    <3>3. CASE k = 0
      <4>1. f[0] = g[0]
        OBVIOUS
      <4> QED BY <2>1, <3>3, <4>1 DEF Adding
    <3> QED BY <3>1, <3>2, <3>3
  <2>3. Adding(f, p, h, q, m+1)
    <3>1. f = [k \in 0 .. m+1 |-> f[k]]
      OBVIOUS
    <3> HIDE DEF f
    <3> QED BY <2>2, <3>1 DEF Adding
  <2> HIDE DEF f
  <2> QED BY <2>3
<1>3. n \in S
  <2> HIDE DEF S
  <2> QED BY <1>1, <1>2, Steps!NaturalInduction
<1> QED BY <1>3

LEMMA Arcs ==
  ASSUME NEW q, WellFormed(q), NEW h, Stands(h, q), NEW k \in DOMAIN q.products
  PROVE  /\ ArcsOf(q, k) \in Seq(Address)
         /\ \A j \in DOMAIN ArcsOf(q, k) : h[ArcsOf(q, k)[j]] \in Extension
         /\ q.products[k].coefficient \in Scalar
         /\ Asked(h, ArcsOf(q, k), q.products[k].coefficient) = Meaning(h, q, k)
<1> DEFINE is == q.products[k].indices
           D == DOMAIN q.flattened
<1>1. /\ is \in Seq(D) /\ q.products \in Seq(Product) /\ q.flattened \in Seq(Address)
  BY Fields DEF WellFormed
<1>2. q.products[k].coefficient \in Scalar
  <2>1. q.products[k] \in Product
    BY <1>1, Elements
  <2> QED BY <2>1 DEF Product, Scalar
<1>3. /\ DOMAIN is = 1 .. Len(is) /\ Len(is) \in Nat
      /\ \A j \in 1 .. Len(is) : is[j] \in D
  BY <1>1, Elements
<1>4. \A i \in D : q.flattened[i] \in Address /\ h[q.flattened[i]] \in Extension
  BY <1>1, Elements DEF Stands, Fits, Range
<1>5. ArcsOf(q, k) = [j \in 1 .. Len(is) |-> q.flattened[is[j]]]
  BY <1>3 DEF ArcsOf
<1>6. /\ ArcsOf(q, k) \in Seq(Address)
      /\ \A j \in DOMAIN ArcsOf(q, k) : h[ArcsOf(q, k)[j]] \in Extension
  <2> HIDE DEF is, D
  <2> QED BY <1>3, <1>4, <1>5
<1>7. Asked(h, ArcsOf(q, k), q.products[k].coefficient) = Meaning(h, q, k)
  BY <1>3, <1>5 DEF Asked, Meaning
<1> QED BY <1>2, <1>6, <1>7

\* The sum of two polynomials has the products of the one and then of the
\* other, if each of these fits.
LEMMA AddProductsKeeps ==
  ASSUME NEW h, NEW p, WellFormed(p), Stands(h, p), NEW q, WellFormed(q), Stands(h, q),
         \A k \in DOMAIN q.products : Succeeds(p, h, ArcsOf(q, k))
  PROVE  /\ WellFormed(AddProducts(p, h, q))
         /\ Stands(h, AddProducts(p, h, q))
         /\ Denoted(h, AddProducts(p, h, q)) = Denoted(h, p) \o Denoted(h, q)
<1> DEFINE n == Len(q.products)
           m == Len(p.products)
           sp == Denoted(h, p)
           sq == Denoted(h, q)
<1>1. /\ n \in Nat /\ DOMAIN q.products = 1 .. n /\ m \in Nat
      /\ sp \in Seq(Meanings) /\ Len(sp) = m
      /\ sq \in Seq(Meanings) /\ Len(sq) = n
      /\ \A k \in 1 .. n : sq[k] = Meaning(h, q, k)
  BY SumType DEF Denoted
<1>2. PICK g : Adding(g, p, h, q, n) /\ AddProducts(p, h, q) = g[n]
  <2> DEFINE g == CHOOSE g : Adding(g, p, h, q, n)
  <2>1. Adding(g, p, h, q, n)
    BY <1>1, AddingExists
  <2>2. AddProducts(p, h, q) = g[n]
    BY DEF AddProducts, Adding
  <2> HIDE DEF g
  <2> QED BY <2>1, <2>2
<1> DEFINE Done(r, k) ==
             /\ WellFormed(r)
             /\ Stands(h, r)
             /\ r.num_variables = p.num_variables
             /\ Len(Denoted(h, r)) = m + k
             /\ \A i \in 1 .. m : Denoted(h, r)[i] = sp[i]
             /\ \A i \in 1 .. k : Denoted(h, r)[m + i] = sq[i]
           S == {k \in Nat : k <= n => Done(g[k], k)}
<1>3. 0 \in S
  <2>1. g[0] = p
    BY <1>1, <1>2 DEF Adding
  <2> QED BY <1>1, <2>1
<1>4. ASSUME NEW k \in Nat, k \in S
      PROVE  k + 1 \in S
  <2> SUFFICES ASSUME k + 1 <= n PROVE Done(g[k+1], k+1)
    OBVIOUS
  <2> DEFINE r == g[k]
             z == g[k+1]
             sr == Denoted(h, r)
             sz == Denoted(h, z)
  <2>1. Done(r, k)
    BY <1>1, <1>4
  <2>2. PICK l \in 1 .. n : l = k + 1
    BY <1>1
  <2> DEFINE list == ArcsOf(q, l)
             c == q.products[l].coefficient
             v == Meaning(h, q, l)
  <2>3. z = add_mle_list(r, h, list, c)
    <3>1. l \in 0 .. n /\ l # 0 /\ l - 1 = k
      BY <2>2
    <3> QED BY <1>2, <2>2, <3>1 DEF Adding
  <2>4. /\ list \in Seq(Address)
        /\ \A j \in DOMAIN list : h[list[j]] \in Extension
        /\ c \in Scalar
        /\ Asked(h, list, c) = v
    BY <1>1, Arcs
  <2>5. Succeeds(r, h, list)
    BY <1>1, <2>1 DEF Succeeds, Wrong
  <2>6. v \in Meanings
    BY <1>1, MeaningType
  <2>7. sr \in Seq(Meanings)
    BY <2>1, SumType
  <2> HIDE DEF list, c, z, r
  <2>8. WellFormed(r) /\ Stands(h, r)
    BY <2>1
  <2>9. /\ WellFormed(z) /\ Stands(h, z) /\ z.num_variables = p.num_variables
        /\ sz = Append(sr, v)
    BY <2>1, <2>3, <2>4, <2>5, <2>8, AddKeeps
  <2>10. /\ Len(sr) = m + k /\ \A i \in 1 .. m : sr[i] = sp[i]
         /\ \A i \in 1 .. k : sr[m + i] = sq[i]
    BY <2>1
  <2>11. v = sq[k+1]
    BY <1>1, <2>2
  <2> HIDE DEF sr, sz, v, sp, sq, m, n
  <2>12. /\ Len(sz) = Len(sr) + 1 /\ sz[Len(sr) + 1] = v
         /\ \A i \in 1 .. Len(sr) : sz[i] = sr[i]
    BY <2>6, <2>7, <2>9, AppendProperties
  <2>13. Len(sz) = m + (k+1)
    BY <1>1, <2>10, <2>12
  <2>14. \A i \in 1 .. m : sz[i] = sp[i]
    BY <1>1, <2>10, <2>12
  <2>15. ASSUME NEW i \in 1 .. k+1
         PROVE  sz[m + i] = sq[i]
    <3>1. CASE i = k+1
      <4>1. m + i = Len(sr) + 1
        BY <1>1, <2>10, <3>1
      <4> QED BY <2>11, <2>12, <3>1, <4>1
    <3>2. CASE i \in 1 .. k
      <4>1. m + i \in 1 .. Len(sr)
        BY <1>1, <2>10, <3>2
      <4> QED BY <2>10, <2>12, <3>2, <4>1
    <3> QED BY <3>1, <3>2
  <2> QED BY <2>9, <2>13, <2>14, <2>15 DEF z, sz
<1>5. n \in S
  <2> HIDE DEF S
  <2> QED BY <1>1, <1>3, <1>4, Steps!NaturalInduction
<1> DEFINE r == g[n]
           s == Denoted(h, r)
<1>6. Done(r, n)
  <2> HIDE DEF Done, n
  <2> QED BY <1>1, <1>5
<1>7. s \in Seq(Meanings)
  BY <1>6, SumType
<1>8. /\ Len(s) = m + n /\ \A i \in 1 .. m : s[i] = sp[i]
      /\ \A i \in 1 .. n : s[m + i] = sq[i]
  BY <1>6
<1> HIDE DEF s, sp, sq, m, n
<1>9. s = sp \o sq
  <2>1. /\ sp \o sq \in Seq(Meanings) /\ Len(sp \o sq) = m + n
        /\ \A i \in 1 .. m : (sp \o sq)[i] = sp[i]
        /\ \A i \in m+1 .. m+n : (sp \o sq)[i] = sq[i - m]
    <3>1. sp \in Seq(Meanings) /\ sq \in Seq(Meanings)
      BY <1>1
    <3>2. /\ sp \o sq \in Seq(Meanings) /\ Len(sp \o sq) = Len(sp) + Len(sq)
          /\ \A i \in 1 .. Len(sp) + Len(sq) :
               (sp \o sq)[i] = IF i <= Len(sp) THEN sp[i] ELSE sq[i - Len(sp)]
      BY <3>1, ConcatProperties
    <3> QED BY <1>1, <3>2
  <2>2. ASSUME NEW i \in 1 .. Len(s)
        PROVE  s[i] = (sp \o sq)[i]
    <3>1. CASE i \in 1 .. m
      BY <1>8, <2>1, <3>1
    <3>2. CASE i \in m+1 .. m+n
      <4>1. i - m \in 1 .. n /\ m + (i - m) = i
        BY <1>1, <3>2
      <4> QED BY <1>8, <2>1, <3>2, <4>1
    <3> QED BY <1>1, <1>8, <3>1, <3>2
  <2> HIDE DEF r
  <2> QED BY <1>7, <1>8, <2>1, <2>2, SeqEqual
<1> QED BY <1>2, <1>6, <1>9 DEF s, sp, sq, n

---------------------------------------------------------------------------
(* The invariant is inductive.                                             *)

LEMMA SlotFacts ==
  ASSUME VirtualInv, NEW s \in Filled
  PROVE  /\ s \in Slot /\ poly[s] # Null
         /\ WellFormed(poly[s]) /\ Stands(heap, poly[s])
         /\ meant[s] = Denoted(heap, poly[s])
         /\ poly[s].flattened \in Seq(Address)
         /\ Range(poly[s].flattened) \subseteq Address
<1>1. s \in Slot /\ poly[s] # Null
  BY DEF Filled
<1>2. SlotInv(heap, poly[s], meant[s])
  BY <1>1 DEF VirtualInv
<1>3. poly[s].flattened \in Seq(Address)
  BY <1>2, Fields DEF SlotInv, WellFormed
<1> QED BY <1>1, <1>2, <1>3, Elements DEF SlotInv

\* An Arc the caller holds is of an extension.
LEMMA HeldFacts ==
  ASSUME VirtualInv, NEW a \in held
  PROVE  a \in Address /\ heap[a] \in Extension
BY DEF VirtualInv

\* A free address is in no polynomial.
LEMMA FreeFacts ==
  ASSUME VirtualInv, NEW a \in Address, heap[a] = Null, NEW s \in Filled
  PROVE  a \notin Range(poly[s].flattened)
BY SlotFacts, NullAssumption DEF Stands, Fits

LEMMA InitVirtual == Init => VirtualInv
<1>1. <<>> \in Seq(Meanings)
  OBVIOUS
<1> QED BY <1>1 DEF Init, VirtualInv

\* A step that only moves the heap, and keeps it at what is still owned.
LEMMA HeapMoves ==
  ASSUME VirtualInv,
         heap' \in [Address -> Extension \cup {Null}],
         held' \subseteq {a \in Address : heap'[a] # Null},
         UNCHANGED <<poly, meant, panicked>>,
         \A s \in Filled : \A a \in Range(poly[s].flattened) : heap'[a] = heap[a]
  PROVE  VirtualInv'
<1>1. ASSUME NEW s \in Slot, poly[s] # Null
      PROVE  SlotInv(heap', poly[s], meant[s])
  <2>1. s \in Filled
    BY <1>1 DEF Filled
  <2>2. WellFormed(poly[s]) /\ Stands(heap, poly[s]) /\ meant[s] = Denoted(heap, poly[s])
    BY <2>1, SlotFacts
  <2>3. /\ \A k \in DOMAIN poly[s].products :
             Meaning(heap', poly[s], k) = Meaning(heap, poly[s], k)
        /\ Stands(heap', poly[s])
    BY <2>1, <2>2, HeapMeans
  <2> QED BY <2>2, <2>3 DEF SlotInv, Denoted
<1> QED BY <1>1 DEF VirtualInv

\* A step that only puts a well-formed polynomial into a slot, and remembers
\* what it denotes.
LEMMA SlotMoves ==
  ASSUME VirtualInv, NEW s \in Slot, NEW p, WellFormed(p), Stands(heap, p),
         poly' = [poly EXCEPT ![s] = p],
         meant' = [meant EXCEPT ![s] = Denoted(heap, p)],
         UNCHANGED <<heap, held, panicked>>
  PROVE  VirtualInv'
<1>1. p \in Polynomial /\ p # Null
  BY NullAssumption DEF WellFormed
<1>2. Denoted(heap, p) \in Seq(Meanings)
  BY SumType
<1>3. SlotInv(heap, p, Denoted(heap, p))
  BY DEF SlotInv
<1>4. ASSUME NEW t \in Slot
      PROVE  IF poly'[t] # Null THEN SlotInv(heap, poly'[t], meant'[t])
                                ELSE meant'[t] = <<>>
  <2>1. CASE t = s
    <3>1. poly'[t] = p /\ meant'[t] = Denoted(heap, p)
      BY <2>1 DEF VirtualInv
    <3> QED BY <1>1, <1>3, <3>1
  <2>2. CASE t # s
    <3>1. poly'[t] = poly[t] /\ meant'[t] = meant[t]
      BY <2>2 DEF VirtualInv
    <3> QED BY <3>1 DEF VirtualInv
  <2> QED BY <2>1, <2>2
<1> QED BY <1>1, <1>2, <1>4 DEF VirtualInv

LEMMA AllocateKeeps ==
  ASSUME VirtualInv, NEW a \in Address, NEW nv \in NumVars, NEW n \in Name,
         Allocate(a, [nv |-> nv, table |-> n])
  PROVE  VirtualInv'
<1>1. [nv |-> nv, table |-> n] \in Extension
  BY DEF Extension
<1>2. PICK e \in Extension : Allocate(a, e)
  BY <1>1
<1>3. heap[a] = Null /\ heap' = [heap EXCEPT ![a] = e] /\ held' = held \cup {a}
        /\ UNCHANGED <<poly, meant, panicked>>
  BY <1>2 DEF Allocate
<1>4. heap \in [Address -> Extension \cup {Null}] /\ held \subseteq {b \in Address : heap[b] # Null}
  BY DEF VirtualInv
<1>5. \A s \in Filled : \A b \in Range(poly[s].flattened) : heap'[b] = heap[b]
  BY <1>3, <1>4, FreeFacts, SlotFacts
<1>6. /\ heap' \in [Address -> Extension \cup {Null}]
      /\ held' \subseteq {b \in Address : heap'[b] # Null}
  BY <1>3, <1>4, NullAssumption
<1> QED BY <1>3, <1>5, <1>6, HeapMoves

LEMMA DropArcKeeps ==
  ASSUME VirtualInv, NEW a \in Address, DropArc(a)
  PROVE  VirtualInv'
<1>1. held' = held \ {a} /\ heap' = Collect(heap, held', poly)
        /\ UNCHANGED <<poly, meant, panicked>>
  BY DEF DropArc
<1>2. heap \in [Address -> Extension \cup {Null}] /\ held \subseteq {b \in Address : heap[b] # Null}
  BY DEF VirtualInv
<1>3. \A s \in Filled : \A b \in Range(poly[s].flattened) : heap'[b] = heap[b]
  <2> SUFFICES ASSUME NEW s \in Filled, NEW b \in Range(poly[s].flattened)
               PROVE  heap'[b] = heap[b]
    OBVIOUS
  <2>1. b \in KeptBy(poly, Slot) /\ b \in Address
    BY SlotFacts DEF KeptBy
  <2> QED BY <1>1, <2>1 DEF Collect
<1>4. /\ heap' \in [Address -> Extension \cup {Null}]
      /\ held' \subseteq {b \in Address : heap'[b] # Null}
  BY <1>1, <1>2 DEF Collect
<1> QED BY <1>1, <1>3, <1>4, HeapMoves

LEMMA DropPolynomialKeeps ==
  ASSUME VirtualInv, NEW s \in Slot, DropPolynomial(s)
  PROVE  VirtualInv'
<1>1. /\ poly' = [poly EXCEPT ![s] = Null] /\ meant' = [meant EXCEPT ![s] = <<>>]
      /\ heap' = Collect(heap, held, poly') /\ UNCHANGED <<held, panicked>>
  BY DEF DropPolynomial
<1>2. /\ heap \in [Address -> Extension \cup {Null}]
      /\ held \subseteq {b \in Address : heap[b] # Null}
      /\ poly \in [Slot -> Polynomial \cup {Null}]
      /\ meant \in [Slot -> Seq(Meanings)]
  BY DEF VirtualInv
<1>3. ASSUME NEW t \in Slot
      PROVE  IF poly'[t] # Null THEN SlotInv(heap', poly'[t], meant'[t])
                                ELSE meant'[t] = <<>>
  <2>1. CASE t = s
    BY <1>1, <1>2, <2>1
  <2>2. CASE t # s /\ poly[t] = Null
    BY <1>1, <1>2, <2>2 DEF VirtualInv
  <2>3. CASE t # s /\ poly[t] # Null
    <3>1. t \in Filled /\ poly'[t] = poly[t] /\ meant'[t] = meant[t]
      BY <1>1, <1>2, <2>3 DEF Filled
    <3>2. /\ WellFormed(poly[t]) /\ Stands(heap, poly[t])
          /\ meant[t] = Denoted(heap, poly[t])
          /\ Range(poly[t].flattened) \subseteq Address
      BY <3>1, SlotFacts
    <3>3. \A b \in Range(poly[t].flattened) : heap'[b] = heap[b]
      <4> SUFFICES ASSUME NEW b \in Range(poly[t].flattened)
                   PROVE  heap'[b] = heap[b]
        OBVIOUS
      <4>1. b \in KeptBy(poly', Slot) /\ b \in Address
        BY <2>3, <3>1, <3>2 DEF KeptBy
      <4> QED BY <1>1, <4>1 DEF Collect
    <3>4. /\ \A k \in DOMAIN poly[t].products :
               Meaning(heap', poly[t], k) = Meaning(heap, poly[t], k)
          /\ Stands(heap', poly[t])
      BY <3>2, <3>3, HeapMeans
    <3> QED BY <2>3, <3>1, <3>2, <3>4 DEF SlotInv, Denoted
  <2> QED BY <2>1, <2>2, <2>3
<1>4. heap' \in [Address -> Extension \cup {Null}] /\ held' \subseteq {b \in Address : heap'[b] # Null}
  BY <1>1, <1>2 DEF Collect
<1>5. poly' \in [Slot -> Polynomial \cup {Null}] /\ meant' \in [Slot -> Seq(Meanings)]
  BY <1>1, <1>2
<1> QED BY <1>1, <1>3, <1>4, <1>5 DEF VirtualInv

\* Remembering what the step remembers already changes nothing.
LEMMA SameMeant ==
  ASSUME VirtualInv, NEW s \in Slot
  PROVE  meant = [meant EXCEPT ![s] = meant[s]]
<1>1. meant \in [Slot -> Seq(Meanings)]
  BY DEF VirtualInv
<1> QED BY <1>1

LEMMA NewKeeps ==
  ASSUME VirtualInv, NEW s \in Slot, NEW nv \in NumVars, New(s, nv)
  PROVE  VirtualInv'
<1> DEFINE p == EmptyPolynomial(nv)
<1>1. /\ poly[s] = Null /\ poly' = [poly EXCEPT ![s] = p]
      /\ UNCHANGED <<heap, held, meant, panicked>>
  BY DEF New, Filled
<1>2. p \in Polynomial
  <2>1. <<>> \in [{} -> Nat] /\ {} \in SUBSET Address
    OBVIOUS
  <2>2. <<>> \in UNION {[A -> Nat] : A \in SUBSET Address}
    BY <2>1
  <2>3. <<>> \in Seq(Product) /\ <<>> \in Seq(Address)
    OBVIOUS
  <2> QED BY <2>2, <2>3 DEF EmptyPolynomial, Polynomial
<1>3. /\ p.products = <<>> /\ p.flattened = <<>> /\ p.lookup = <<>>
  BY DEF EmptyPolynomial
<1> HIDE DEF p
<1>4. WellFormed(p) /\ Stands(heap, p)
  BY <1>2, <1>3 DEF WellFormed, Stands, Range
<1>5. Denoted(heap, p) = <<>>
  BY <1>3 DEF Denoted
<1>6. meant[s] = <<>>
  BY <1>1 DEF VirtualInv
<1>7. meant' = [meant EXCEPT ![s] = Denoted(heap, p)]
  BY <1>1, <1>5, <1>6, SameMeant
<1> QED BY <1>1, <1>4, <1>7, SlotMoves

LEMMA NewFromMleKeeps ==
  ASSUME VirtualInv, NEW s \in Slot, NEW a \in held, NEW c \in Scalar,
         NewFromMle(s, a, c)
  PROVE  VirtualInv'
<1> DEFINE term == [coefficient |-> c, indices |-> <<1>>]
           p == [max_degree |-> 1, num_variables |-> heap[a].nv,
                 products |-> <<term>>, flattened |-> <<a>>, lookup |-> [b \in {a} |-> 1]]
<1>1. /\ poly' = [poly EXCEPT ![s] = p]
      /\ meant' = [meant EXCEPT ![s] = <<[coefficient |-> c, factors |-> <<heap[a]>>]>>]
      /\ UNCHANGED <<heap, held, panicked>>
  BY DEF NewFromMle
<1>2. a \in Address /\ heap[a] \in Extension /\ heap[a].nv \in NumVars
  BY HeldFacts DEF Extension
<1>3. term \in Product
  <2>1. <<1>> \in Seq(Nat \ {0})
    OBVIOUS
  <2> QED BY <2>1 DEF Product, Scalar
<1>4. [b \in {a} |-> 1] \in UNION {[A -> Nat] : A \in SUBSET Address}
  <2>1. [b \in {a} |-> 1] \in [{a} -> Nat] /\ {a} \in SUBSET Address
    BY <1>2
  <2> QED BY <2>1
<1>5. term.coefficient = c /\ term.indices = <<1>>
  OBVIOUS
<1> HIDE DEF term
<1>6. <<term>> \in Seq(Product) /\ <<a>> \in Seq(Address)
  BY <1>2, <1>3
<1>7. /\ p.max_degree = 1 /\ p.num_variables = heap[a].nv
      /\ p.products = <<term>> /\ p.flattened = <<a>>
      /\ p.lookup = [b \in {a} |-> 1]
  OBVIOUS
<1>8. p \in Polynomial
  BY <1>2, <1>4, <1>6 DEF Polynomial
<1> HIDE DEF p
<1>9. /\ DOMAIN p.flattened = {1} /\ p.flattened[1] = a
      /\ DOMAIN p.products = {1} /\ p.products[1] = term
      /\ <<1>> \in Seq({1}) /\ Len(<<1>>) = 1
  BY <1>7
<1>10. Range(p.flattened) = {a}
  BY <1>9 DEF Range
<1>11. WellFormed(p)
  <2>1. DOMAIN p.lookup = Range(p.flattened)
    BY <1>7, <1>10
  <2>2. \A i \in DOMAIN p.flattened : p.lookup[p.flattened[i]] = i
    BY <1>7, <1>9
  <2>3. \A k \in DOMAIN p.products :
          /\ p.products[k].indices \in Seq(DOMAIN p.flattened)
          /\ Len(p.products[k].indices) <= p.max_degree
    <3>1. ASSUME NEW k \in DOMAIN p.products PROVE p.products[k].indices = <<1>>
      BY <1>5, <1>9
    <3>2. <<1>> \in Seq(DOMAIN p.flattened) /\ Len(<<1>>) <= p.max_degree
      BY <1>7, <1>9
    <3> QED BY <3>1, <3>2
  <2> QED BY <1>8, <2>1, <2>2, <2>3 DEF WellFormed
<1>12. Stands(heap, p)
  BY <1>2, <1>7, <1>10 DEF Stands, Fits
<1>13. Denoted(heap, p) = <<[coefficient |-> c, factors |-> <<heap[a]>>]>>
  <2>1. Meaning(heap, p, 1) = [coefficient |-> c, factors |-> <<heap[a]>>]
    <3>1. [j \in DOMAIN <<1>> |-> heap[p.flattened[<<1>>[j]]]] = <<heap[a]>>
      BY <1>9
    <3> QED BY <1>5, <1>9, <3>1 DEF Meaning
  <2>2. Denoted(heap, p) = [k \in {1} |-> Meaning(heap, p, 1)]
    BY <1>9 DEF Denoted
  <2> QED BY <2>1, <2>2
<1> QED BY <1>1, <1>11, <1>12, <1>13, SlotMoves

\* A caller's list is of Arcs it holds.
LEMMA ListFacts ==
  ASSUME VirtualInv, NEW list \in BoundedSeq(held, MaxFactors)
  PROVE  list \in Seq(Address) /\ \A j \in DOMAIN list : heap[list[j]] \in Extension
<1>1. PICK m \in 0 .. MaxFactors : list \in [1 .. m -> held]
  BY DEF BoundedSeq, SeqOf
<1>2. \A j \in 1 .. m : list[j] \in Address /\ heap[list[j]] \in Extension
  BY <1>1, HeldFacts
<1>3. list \in [1 .. m -> Address]
  BY <1>1, <1>2
<1> QED BY <1>1, <1>2, <1>3

LEMMA AddMleListKeeps ==
  ASSUME VirtualInv, NEW s \in Slot, NEW c \in Scalar,
         NEW list \in BoundedSeq(held, MaxFactors), AddMleList(s, list, c)
  PROVE  VirtualInv'
<1> DEFINE p == poly[s]
           q == add_mle_list(p, heap, list, c)
<1>1. /\ s \in Filled /\ poly' = [poly EXCEPT ![s] = q]
      /\ meant' = IF Succeeds(p, heap, list)
                  THEN [meant EXCEPT ![s] = Append(@, Asked(heap, list, c))]
                  ELSE meant
      /\ UNCHANGED <<heap, held, panicked>>
  BY DEF AddMleList, Asked
<1>2. WellFormed(p) /\ Stands(heap, p) /\ meant[s] = Denoted(heap, p)
  BY <1>1, SlotFacts
<1>3. list \in Seq(Address) /\ \A j \in DOMAIN list : heap[list[j]] \in Extension
  BY ListFacts
<1>4. /\ WellFormed(q) /\ Stands(heap, q)
      /\ Denoted(heap, q) = IF Succeeds(p, heap, list)
                            THEN Append(Denoted(heap, p), Asked(heap, list, c))
                            ELSE Denoted(heap, p)
  <2> HIDE DEF p
  <2> QED BY <1>2, <1>3, AddKeeps
<1> HIDE DEF q
<1>5. meant' = [meant EXCEPT ![s] = Denoted(heap, q)]
  <2>1. CASE Succeeds(p, heap, list)
    BY <1>1, <1>2, <1>4, <2>1
  <2>2. CASE ~ Succeeds(p, heap, list)
    BY <1>1, <1>2, <1>4, <2>2, SameMeant
  <2> QED BY <2>1, <2>2
<1> QED BY <1>1, <1>4, <1>5, SlotMoves

LEMMA MulByMleKeeps ==
  ASSUME VirtualInv, NEW s \in Slot, NEW c \in Scalar, NEW a \in held,
         MulByMle(s, a, c)
  PROVE  VirtualInv'
<1> DEFINE p == poly[s]
           q == mul_by_mle(p, a, c)
<1>1. /\ s \in Filled /\ heap[a].nv = p.num_variables
      /\ poly' = [poly EXCEPT ![s] = q]
      /\ meant' = [meant EXCEPT ![s] = Multiplied(@, heap[a], c)]
      /\ UNCHANGED <<heap, held, panicked>>
  BY DEF MulByMle
<1>2. WellFormed(p) /\ Stands(heap, p) /\ meant[s] = Denoted(heap, p)
  BY <1>1, SlotFacts
<1>3. a \in Address /\ Fits(heap, p, a) /\ c \in Nat
  BY <1>1, HeldFacts DEF Fits, Scalar
<1>4. /\ WellFormed(q) /\ Stands(heap, q)
      /\ Denoted(heap, q) = Multiplied(Denoted(heap, p), heap[a], c)
  <2> HIDE DEF p
  <2> QED BY <1>2, <1>3, MulKeeps
<1> HIDE DEF q
<1>5. meant' = [meant EXCEPT ![s] = Denoted(heap, q)]
  BY <1>1, <1>2, <1>4
<1> QED BY <1>1, <1>4, <1>5, SlotMoves

LEMMA BuildFHatKeeps ==
  ASSUME VirtualInv, NEW s \in Slot, NEW t \in Slot, NEW a \in Address,
         BuildFHat(s, t, a)
  PROVE  VirtualInv'
<1> DEFINE p == poly[s]
           e == [nv |-> p.num_variables, table |-> Eq]
           h == [heap EXCEPT ![a] = e]
           q == mul_by_mle(p, a, 1)
<1>1. /\ s \in Filled /\ t \notin Filled /\ heap[a] = Null
      /\ heap' = h /\ poly' = [poly EXCEPT ![t] = q]
      /\ meant' = [meant EXCEPT ![t] = Multiplied(meant[s], h[a], 1)]
      /\ UNCHANGED <<held, panicked>>
  BY DEF BuildFHat
<1>2. /\ WellFormed(p) /\ Stands(heap, p) /\ meant[s] = Denoted(heap, p)
  BY <1>1, SlotFacts
<1>3. /\ heap \in [Address -> Extension \cup {Null}]
      /\ held \subseteq {b \in Address : heap[b] # Null}
      /\ poly \in [Slot -> Polynomial \cup {Null}]
      /\ meant \in [Slot -> Seq(Meanings)]
  BY DEF VirtualInv
<1>4. e \in Extension /\ e.nv = p.num_variables
  BY <1>2, Fields DEF WellFormed, Extension
<1> HIDE DEF e
<1>5. h[a] = e /\ \A b \in Address \ {a} : h[b] = heap[b]
  BY <1>3
<1>6. h \in [Address -> Extension \cup {Null}]
        /\ held \subseteq {b \in Address : h[b] # Null}
  BY <1>1, <1>3, <1>4, NullAssumption
<1> HIDE DEF h
\* What the polynomials hold has not moved.
<1>7. ASSUME NEW r \in Filled
      PROVE  /\ Stands(h, poly[r])
             /\ Denoted(h, poly[r]) = Denoted(heap, poly[r])
  <2>1. /\ WellFormed(poly[r]) /\ Stands(heap, poly[r])
        /\ Range(poly[r].flattened) \subseteq Address \ {a}
    BY <1>1, SlotFacts, FreeFacts
  <2>2. \A b \in Range(poly[r].flattened) : h[b] = heap[b]
    BY <1>5, <2>1
  <2>3. /\ \A k \in DOMAIN poly[r].products :
             Meaning(h, poly[r], k) = Meaning(heap, poly[r], k)
        /\ Stands(h, poly[r])
    BY <2>1, <2>2, HeapMeans
  <2> QED BY <2>3 DEF Denoted
<1>8. Fits(h, p, a)
  BY <1>4, <1>5 DEF Fits
<1>9. Stands(h, p) /\ Denoted(h, p) = Denoted(heap, p)
  BY <1>1, <1>7
<1>10. /\ WellFormed(q) /\ Stands(h, q)
       /\ Denoted(h, q) = Multiplied(Denoted(h, p), h[a], 1)
  <2> HIDE DEF p
  <2> QED BY <1>2, <1>8, <1>9, MulKeeps
<1> HIDE DEF q
<1>11. SlotInv(h, q, Multiplied(meant[s], h[a], 1))
  BY <1>2, <1>9, <1>10 DEF SlotInv
<1>12. q \in Polynomial /\ q # Null /\ Multiplied(meant[s], h[a], 1) \in Seq(Meanings)
  BY <1>2, <1>9, <1>10, SumType, NullAssumption DEF WellFormed
<1>13. ASSUME NEW r \in Slot
       PROVE  IF poly'[r] # Null THEN SlotInv(h, poly'[r], meant'[r])
                                 ELSE meant'[r] = <<>>
  <2>1. CASE r = t
    <3>1. poly'[r] = q /\ meant'[r] = Multiplied(meant[s], h[a], 1)
      BY <1>1, <1>3, <2>1
    <3> QED BY <1>11, <1>12, <3>1
  <2>2. CASE r # t /\ poly[r] = Null
    BY <1>1, <1>3, <2>2 DEF VirtualInv
  <2>3. CASE r # t /\ poly[r] # Null
    <3>1. r \in Filled /\ poly'[r] = poly[r] /\ meant'[r] = meant[r]
      BY <1>1, <1>3, <2>3 DEF Filled
    <3> QED BY <2>3, <3>1, <1>7, SlotFacts DEF SlotInv
  <2> QED BY <2>1, <2>2, <2>3
<1>14. poly' \in [Slot -> Polynomial \cup {Null}] /\ meant' \in [Slot -> Seq(Meanings)]
  BY <1>1, <1>3, <1>12
<1> QED BY <1>1, <1>6, <1>13, <1>14 DEF VirtualInv

LEMMA PlusKeeps ==
  ASSUME VirtualInv, NEW s \in Slot, NEW t \in Slot, NEW u \in Slot, Plus(s, t, u)
  PROVE  VirtualInv'
<1> DEFINE Fit == \A k \in DOMAIN poly[t].products :
                    Succeeds(poly[s], heap, ArcsOf(poly[t], k))
<1>1. /\ s \in Filled /\ t \in Filled /\ UNCHANGED <<heap, held>>
      /\ IF Fit
         THEN /\ poly' = [poly EXCEPT ![u] = AddProducts(poly[s], heap, poly[t])]
              /\ meant' = [meant EXCEPT ![u] = meant[s] \o meant[t]]
              /\ UNCHANGED panicked
         ELSE panicked' = TRUE /\ UNCHANGED <<poly, meant>>
  BY DEF Plus
<1>2. CASE Fit
  <2> DEFINE p == poly[s]
             q == poly[t]
             sum == AddProducts(p, heap, q)
  <2>1. /\ WellFormed(p) /\ Stands(heap, p) /\ meant[s] = Denoted(heap, p)
        /\ WellFormed(q) /\ Stands(heap, q) /\ meant[t] = Denoted(heap, q)
    BY <1>1, SlotFacts
  <2>2. \A k \in DOMAIN q.products : Succeeds(p, heap, ArcsOf(q, k))
    BY <1>2
  <2>3. /\ WellFormed(sum) /\ Stands(heap, sum)
        /\ Denoted(heap, sum) = Denoted(heap, p) \o Denoted(heap, q)
    <3> HIDE DEF p, q
    <3> QED BY <2>1, <2>2, AddProductsKeeps
  <2>4. poly' = [poly EXCEPT ![u] = sum] /\ UNCHANGED <<heap, held, panicked>>
          /\ meant' = [meant EXCEPT ![u] = meant[s] \o meant[t]]
    BY <1>1, <1>2
  <2> HIDE DEF sum
  <2>5. meant' = [meant EXCEPT ![u] = Denoted(heap, sum)]
    BY <2>1, <2>3, <2>4
  <2> QED BY <2>3, <2>4, <2>5, SlotMoves
<1>3. CASE ~ Fit
  <2>1. panicked' = TRUE /\ UNCHANGED <<heap, held, poly, meant>>
    BY <1>1, <1>3
  <2> HIDE DEF Fit
  <2> QED BY <2>1 DEF VirtualInv
<1> QED BY <1>2, <1>3

LEMMA StepVirtual == VirtualInv /\ [Next]_vars => VirtualInv'
<1> SUFFICES ASSUME VirtualInv, [Next]_vars PROVE VirtualInv'
  OBVIOUS
<1>0. Coefficient \subseteq Scalar
  BY AddressAssumption DEF Scalar
<1>1. ASSUME NEW a \in Address, NEW nv \in NumVars, NEW n \in Name,
             Allocate(a, [nv |-> nv, table |-> n])
      PROVE  VirtualInv'
  BY <1>1, AllocateKeeps
<1>2. ASSUME NEW a \in Address, DropArc(a) PROVE VirtualInv'
  BY <1>2, DropArcKeeps
<1>3. ASSUME NEW s \in Slot, DropPolynomial(s) PROVE VirtualInv'
  BY <1>3, DropPolynomialKeeps
<1>4. ASSUME NEW s \in Slot, NEW nv \in NumVars, New(s, nv) PROVE VirtualInv'
  BY <1>4, NewKeeps
<1>5. ASSUME NEW s \in Slot, NEW c \in Coefficient, NEW a \in held, NewFromMle(s, a, c)
      PROVE  VirtualInv'
  BY <1>0, <1>5, NewFromMleKeeps
<1>6. ASSUME NEW s \in Slot, NEW c \in Coefficient,
             NEW list \in BoundedSeq(held, MaxFactors), AddMleList(s, list, c)
      PROVE  VirtualInv'
  BY <1>0, <1>6, AddMleListKeeps
<1>7. ASSUME NEW s \in Slot, NEW c \in Coefficient, NEW a \in held, MulByMle(s, a, c)
      PROVE  VirtualInv'
  BY <1>0, <1>7, MulByMleKeeps
<1>8. ASSUME NEW s \in Slot, NEW t \in Slot, NEW a \in Address, BuildFHat(s, t, a)
      PROVE  VirtualInv'
  BY <1>8, BuildFHatKeeps
<1>9. ASSUME NEW s \in Slot, NEW t \in Slot, NEW u \in Slot, Plus(s, t, u)
      PROVE  VirtualInv'
  BY <1>9, PlusKeeps
<1>10. CASE UNCHANGED vars
  BY <1>10 DEF VirtualInv, vars
<1> QED BY <1>1, <1>2, <1>3, <1>4, <1>5, <1>6, <1>7, <1>8, <1>9, <1>10 DEF Next

LEMMA VirtualInvariant == Spec => []VirtualInv
BY InitVirtual, StepVirtual, PTL DEF Spec

---------------------------------------------------------------------------
(* What the runs check.                                                    *)

\* The state has its type, and every index in a product is one of the stored
\* extensions' (the lookups of prover.rs and Add cannot fail), for any number
\* of addresses, slots, factors and products.
THEOREM VirtualTypeCorrect == Spec => []TypeOK
<1>1. VirtualInv => TypeOK
  <2> SUFFICES ASSUME VirtualInv PROVE TypeOK
    OBVIOUS
  <2>1. ASSUME NEW s \in Filled
        PROVE  /\ poly[s].num_variables \in NumVars /\ poly[s].max_degree \in Nat
               /\ poly[s].flattened \in Seq(Address)
               /\ poly[s].products \in Seq(Product)
               /\ \A i \in DOMAIN poly[s].products :
                    Range(poly[s].products[i].indices) \subseteq DOMAIN poly[s].flattened
    <3>1. WellFormed(poly[s])
      BY SlotFacts
    <3>2. \A i \in DOMAIN poly[s].products :
            Range(poly[s].products[i].indices) \subseteq DOMAIN poly[s].flattened
      BY <3>1, Elements DEF WellFormed
    <3> QED BY <3>1, <3>2, Fields DEF WellFormed
  <2>2. /\ heap \in [Address -> Extension \cup {Null}]
        /\ held \subseteq {a \in Address : heap[a] # Null}
        /\ DOMAIN poly = Slot
        /\ panicked \in BOOLEAN
    BY DEF VirtualInv
  <2> QED BY <2>1, <2>2 DEF TypeOK
<1> QED BY <1>1, VirtualInvariant, PTL

\* Whatever the allocator hands out again, a polynomial denotes the products
\* its owner asked for (the address-keyed lookup of add_mle_list, mul_by_mle,
\* Add and build_f_hat never takes one extension for another).
THEOREM DenotesHistoryAlways == Spec => []DenotesHistory
<1>1. VirtualInv => DenotesHistory
  <2> SUFFICES ASSUME VirtualInv, NEW s \in Filled
               PROVE  Denotation(poly[s]) = meant[s]
    BY DEF DenotesHistory
  <2>1. meant[s] = Denoted(heap, poly[s])
    BY SlotFacts
  <2> QED BY <2>1 DEF Denotation, Denoted, Meaning
<1> QED BY <1>1, VirtualInvariant, PTL

\* The lookup table is the inverse of the list of stored extensions, after
\* refused calls too: no extension is stored twice or missing.
THEOREM LookupExactAlways == Spec => []LookupExact
<1>1. VirtualInv => LookupExact
  BY SlotFacts DEF LookupExact, WellFormed
<1> QED BY <1>1, VirtualInvariant, PTL

\* aux_info covers the polynomial: what the sum check sizes its messages by is
\* a bound of every product's degree, and every stored extension has the
\* announced number of variables.
THEOREM AuxInfoCoversAlways == Spec => []AuxInfoCovers
<1>1. VirtualInv => AuxInfoCovers
  BY SlotFacts DEF AuxInfoCovers, WellFormed, Stands, Fits
<1> QED BY <1>1, VirtualInvariant, PTL
=============================================================================
