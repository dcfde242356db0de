------------------------------ MODULE Folding ------------------------------
(***************************************************************************)
(* Lemmas the proofs about the model's data rest on: induction over the    *)
(* naturals, the equation of a function that is recursive over 0 .. n, and *)
(* what FoldFunctionOnSet of the community modules computes.  Induction is *)
(* stated for the set of what has the property; the rest is about an       *)
(* operation that a module supplies when it instantiates this one.         *)
(***************************************************************************)
EXTENDS Integers, Functions, FiniteSetTheorems, WellFoundedInduction, TLAPS

CONSTANTS
  op(_, _),     \* the operation
  base          \* its value over nothing

---------------------------------------------------------------------------
(* Induction.                                                              *)

\* Every non-empty set of naturals has a least element.
LEMMA LeastNatural ==
  ASSUME NEW T \in SUBSET Nat, T # {}
  PROVE  \E n \in T : \A m \in T : n <= m
<1> DEFINE R == OpToRel(<, Nat)
<1>1. IsWellFoundedOn(R, Nat)
  BY NatLessThanWellFounded
<1>2. PICK n \in T : \A m \in T : ~ (<<m, n>> \in R)
  <2> HIDE DEF R
  <2> QED BY <1>1, WFMin
<1>3. \A m \in T : ~ (m < n)
  BY <1>2 DEF OpToRel
<1> QED BY <1>3

\* Induction, for the set of the numbers that have the property.
LEMMA NaturalInduction ==
  ASSUME NEW S, 0 \in S, \A n \in Nat : n \in S => n + 1 \in S
  PROVE  Nat \subseteq S
<1> DEFINE T == Nat \ S
<1>1. SUFFICES ASSUME T # {} PROVE FALSE
  OBVIOUS
<1>2. PICK n \in T : \A m \in T : n <= m
  BY <1>1, LeastNatural
<1>3. n \in Nat /\ n # 0
  OBVIOUS
<1>4. n - 1 \in Nat /\ n - 1 \notin T
  BY <1>2, <1>3
<1>5. n - 1 + 1 \in S
  BY <1>4
<1> QED BY <1>3, <1>5

---------------------------------------------------------------------------
(* Recursion.                                                              *)

\* The function that starts with b and takes in e[1], e[2], ... in turn
\* exists, so that reading it gives what its definition says.
LEMMA RecursiveFunctionExists ==
  ASSUME NEW e, NEW n \in Nat
  PROVE  \E g : g = [k \in 0 .. n |-> IF k = 0 THEN base ELSE op(e[k], g[k-1])]
<1> DEFINE Defines(g, m) ==
             g = [k \in 0 .. m |->
                    IF k = 0 THEN base ELSE op(e[k], g[k-1])]
           S == {m \in Nat : \E g : Defines(g, m)}
<1>1. 0 \in S
  <2>1. Defines([k \in 0 .. 0 |-> base], 0)
    OBVIOUS
  <2> QED BY <2>1
<1>2. ASSUME NEW m \in Nat, m \in S
      PROVE  m + 1 \in S
  <2>1. PICK g : Defines(g, m)
    BY <1>2
  <2> DEFINE h == [k \in 0 .. m+1 |-> IF k = m+1 THEN op(e[m+1], g[m]) ELSE g[k]]
  <2>2. ASSUME NEW k \in 0 .. m+1
        PROVE  h[k] = IF k = 0 THEN base ELSE op(e[k], h[k-1])
    <3>1. CASE k = m+1
      <4>1. k - 1 = m /\ h[k-1] = g[m]
        BY <3>1
      <4> QED BY <3>1, <4>1
    <3>2. CASE k \in 0 .. m /\ k # 0
      <4>1. k - 1 \in 0 .. m /\ h[k-1] = g[k-1] /\ h[k] = g[k]
        BY <3>2
      <4> QED BY <2>1, <3>2, <4>1
    <3>3. CASE k = 0
      <4>1. h[0] = g[0]
        OBVIOUS
      <4> QED BY <2>1, <3>3, <4>1
    <3> QED BY <3>1, <3>2, <3>3
  <2>3. Defines(h, m+1)
    <3> HIDE DEF h
    <3>1. h = [k \in 0 .. m+1 |-> h[k]]
      BY DEF h
    <3> QED BY <2>2, <3>1
  <2>4. \E g1 : Defines(g1, m+1)
    <3> HIDE DEF Defines, h
    <3> QED BY <2>3
  <2> QED BY <2>4
<1>3. n \in S
  <2> HIDE DEF S
  <2> QED BY <1>1, <1>2, NaturalInduction
<1> QED BY <1>3

---------------------------------------------------------------------------
(* Folds.                                                                  *)

Fold(f, S) == FoldFunctionOnSet(op, base, f, S)

Typed(f, S, Typ) == \A x \in S : f[x] \in Typ

\* op and base make a commutative monoid of Typ.
Monoid(Typ) ==
  /\ base \in Typ
  /\ \A u, v \in Typ : op(u, v) \in Typ
  /\ \A u, v \in Typ : op(u, v) = op(v, u)
  /\ \A u, v, w \in Typ : op(u, op(v, w)) = op(op(u, v), w)
  /\ \A u \in Typ : op(base, u) = u

---------------------------------------------------------------------------
(* The defining equation.                                                  *)

Some(s) == CHOOSE x \in s : TRUE

Iterates(g, f, S) ==
  g = [s \in SUBSET S |-> IF s = {} THEN base
                          ELSE op(f[Some(s)], g[s \ {Some(s)}])]

\* Among sets of subsets of a finite set there is a smallest one.
LEMMA MinimalSubset ==
  ASSUME NEW S, IsFiniteSet(S), NEW B \in SUBSET SUBSET S, B # {}
  PROVE  \E T \in B : \A U \in B : U \subseteq T => U = T
<1> DEFINE R == StrictSubsetOrdering(S)
<1>1. FiniteSubsetsOf(S) = SUBSET S
  BY FS_FiniteSubsetsOfFinite
<1>2. IsWellFoundedOn(R, SUBSET S)
  BY <1>1, FS_StrictSubsetOrderingWellFounded
<1>3. PICK T \in B : \A U \in B : ~ (<<U, T>> \in R)
  <2> HIDE DEF R
  <2> QED BY <1>2, WFMin
<1>4. ASSUME NEW U \in B, U \subseteq T, U # T
      PROVE  FALSE
  <2>1. <<U, T>> \in R
    BY <1>4 DEF StrictSubsetOrdering
  <2> QED BY <1>3, <2>1
<1> QED BY <1>4

LEMMA IteratesAt ==
  ASSUME NEW g, NEW f, NEW S, Iterates(g, f, S), NEW s \in SUBSET S
  PROVE  /\ s = {} => g[s] = base
         /\ s # {} => /\ g[s] = op(f[Some(s)], g[s \ {Some(s)}])
                      /\ Some(s) \in s
<1>1. g[s] = IF s = {} THEN base ELSE op(f[Some(s)], g[s \ {Some(s)}])
  BY Zenon DEF Iterates
<1>2. s # {} => Some(s) \in s
  BY DEF Some
<1> QED BY <1>1, <1>2

\* Two of them agree wherever both are defined.
LEMMA IteratesUnique ==
  ASSUME NEW f, NEW g, NEW S, Iterates(g, f, S),
         NEW h, NEW T, Iterates(h, f, T),
         NEW U, U \subseteq S, U \subseteq T, IsFiniteSet(U)
  PROVE  g[U] = h[U]
<1> DEFINE B == {V \in SUBSET U : g[V] # h[V]}
<1>1. SUFFICES ASSUME B # {} PROVE FALSE
  OBVIOUS
<1>2. PICK V \in B : \A W \in B : W \subseteq V => W = V
  <2>1. B \in SUBSET SUBSET U
    OBVIOUS
  <2> HIDE DEF B
  <2> QED BY <1>1, <2>1, MinimalSubset
<1>3. V \in SUBSET S /\ V \in SUBSET T
  OBVIOUS
<1>4. V # {}
  BY <1>3, IteratesAt
<1>5. Some(V) \in V /\ g[V] = op(f[Some(V)], g[V \ {Some(V)}])
        /\ h[V] = op(f[Some(V)], h[V \ {Some(V)}])
  BY <1>3, <1>4, IteratesAt
<1>6. V \ {Some(V)} \notin B
  BY <1>2, <1>5
<1>7. g[V \ {Some(V)}] = h[V \ {Some(V)}]
  BY <1>5, <1>6
<1> QED BY <1>5, <1>7

LEMMA IteratesExists ==
  ASSUME NEW f, NEW S, IsFiniteSet(S)
  PROVE  \E g : Iterates(g, f, S)
<1> DEFINE B == {T \in SUBSET S : ~ \E g : Iterates(g, f, T)}
<1>1. SUFFICES ASSUME B # {} PROVE FALSE
  OBVIOUS
<1>2. PICK T \in B : \A U \in B : U \subseteq T => U = T
  <2>1. B \in SUBSET SUBSET S
    OBVIOUS
  <2> HIDE DEF B
  <2> QED BY <1>1, <2>1, MinimalSubset
<1> DEFINE G(x) == CHOOSE g : Iterates(g, f, T \ {x})
<1>3. ASSUME NEW x \in T
      PROVE  Iterates(G(x), f, T \ {x})
  <2>1. T \ {x} \notin B
    BY <1>2
  <2>2. \E g : Iterates(g, f, T \ {x})
    BY <2>1
  <2> QED BY <2>2
<1>4. IsFiniteSet(T)
  BY FS_Subset
<1> DEFINE h == [s \in SUBSET T |->
                   IF s = {} THEN base
                   ELSE IF s = T THEN op(f[Some(T)], G(Some(T))[T \ {Some(T)}])
                   ELSE G(Some(T \ s))[s]]
<1> HIDE DEF G
<1>5. ASSUME NEW s \in SUBSET T, s # T, NEW x \in T \ s
      PROVE  h[s] = G(x)[s]
  <2>1. Some(T \ s) \in T \ s
    BY <1>5 DEF Some
  <2>2. G(Some(T \ s))[s] = G(x)[s]
    <3>1. /\ Iterates(G(Some(T \ s)), f, T \ {Some(T \ s)})
          /\ Iterates(G(x), f, T \ {x})
      BY <1>3, <2>1
    <3>2. IsFiniteSet(s) /\ s \subseteq T \ {x} /\ s \subseteq T \ {Some(T \ s)}
      BY <1>4, <2>1, FS_Subset
    <3> DEFINE y == Some(T \ s)
               gx == G(x)
               gy == G(y)
               X == T \ {x}
               Y == T \ {y}
    <3>3. Iterates(gx, f, X) /\ Iterates(gy, f, Y) /\ s \subseteq X /\ s \subseteq Y
      BY <3>1, <3>2
    <3> HIDE DEF gx, gy, X, Y, y
    <3>4. gx[s] = gy[s]
      BY <3>2, <3>3, IteratesUnique
    <3> QED BY <3>4 DEF gx, gy, y
  <2>3. s = {} => G(x)[s] = base
    BY <1>3, IteratesAt
  <2> QED BY <1>5, <2>2, <2>3
<1>6. ASSUME NEW s \in SUBSET T, s # {}
      PROVE  h[s] = op(f[Some(s)], h[s \ {Some(s)}])
  <2>1. Some(s) \in s /\ s \ {Some(s)} # T /\ Some(s) \in T \ (s \ {Some(s)})
    BY <1>6 DEF Some
  <2>2. CASE s = T
    <3>1. h[T \ {Some(T)}] = G(Some(T))[T \ {Some(T)}]
      BY <1>5, <2>1, <2>2
    <3> QED BY <1>6, <2>2, <3>1
  <2>3. CASE s # T
    <3>1. PICK x \in T \ s : TRUE
      BY <2>3
    <3>2. h[s] = G(x)[s] /\ h[s \ {Some(s)}] = G(x)[s \ {Some(s)}]
      BY <1>5, <2>1, <2>3
    <3>3. s \in SUBSET (T \ {x})
      BY <3>1
    <3>4. G(x)[s] = op(f[Some(s)], G(x)[s \ {Some(s)}])
      BY <1>3, <1>6, <3>3, IteratesAt
    <3> QED BY <3>2, <3>4
  <2> QED BY <2>2, <2>3
<1>7. h[{}] = base
  OBVIOUS
<1>8. Iterates(h, f, T)
  <2>1. h = [s \in SUBSET T |-> h[s]]
    OBVIOUS
  <2> HIDE DEF h
  <2>2. \A s \in SUBSET T : h[s] = IF s = {} THEN base
                                   ELSE op(f[Some(s)], h[s \ {Some(s)}])
    BY <1>6, <1>7
  <2> QED BY <2>1, <2>2 DEF Iterates
<1> HIDE DEF h
<1>9. T \notin B
  BY <1>8
<1> QED BY <1>9

LEMMA FoldEquation ==
  ASSUME NEW f, NEW S, IsFiniteSet(S)
  PROVE  /\ S = {} => Fold(f, S) = base
         /\ S # {} => /\ Fold(f, S) = op(f[Some(S)], Fold(f, S \ {Some(S)}))
                      /\ Some(S) \in S
<1>1. ASSUME NEW T, IsFiniteSet(T)
      PROVE  \E g : Iterates(g, f, T) /\ Fold(f, T) = g[T]
  <2> DEFINE g == CHOOSE h : Iterates(h, f, T)
  <2>1. Iterates(g, f, T)
    BY <1>1, IteratesExists
  <2>2. Fold(f, T) = g[T]
    BY DEF Fold, FoldFunctionOnSet, MapThenFoldSet, Iterates, Some
  <2> HIDE DEF g
  <2> QED BY <2>1, <2>2
<1>2. PICK g : Iterates(g, f, S) /\ Fold(f, S) = g[S]
  BY <1>1
<1>3. CASE S = {}
  <2>1. S \in SUBSET S
    OBVIOUS
  <2> QED BY <1>2, <1>3, <2>1, IteratesAt
<1>4. CASE S # {}
  <2> DEFINE T == S \ {Some(S)}
  <2>1. /\ g[S] = op(f[Some(S)], g[T]) /\ Some(S) \in S
    <3>1. S \in SUBSET S
      OBVIOUS
    <3> QED BY <1>2, <1>4, <3>1, IteratesAt
  <2>2. IsFiniteSet(T) /\ T \subseteq S
    BY FS_Subset
  <2> HIDE DEF T
  <2>3. PICK h : Iterates(h, f, T) /\ Fold(f, T) = h[T]
    BY <1>1, <2>2
  <2>4. g[T] = h[T]
    BY <1>2, <2>2, <2>3, IteratesUnique
  <2> QED BY <1>2, <1>4, <2>1, <2>3, <2>4 DEF T
<1> QED BY <1>3, <1>4

---------------------------------------------------------------------------
(* Folds in a commutative monoid.                                          *)

LEMMA FoldType ==
  ASSUME NEW Typ, Monoid(Typ), NEW S, IsFiniteSet(S),
         NEW f, Typed(f, S, Typ)
  PROVE  Fold(f, S) \in Typ
<1> DEFINE B == {T \in SUBSET S : Fold(f, T) \notin Typ}
<1>1. SUFFICES ASSUME B # {} PROVE FALSE
  OBVIOUS
<1>2. PICK T \in B : \A U \in B : U \subseteq T => U = T
  <2>1. B \in SUBSET SUBSET S
    OBVIOUS
  <2> HIDE DEF B
  <2> QED BY <1>1, <2>1, MinimalSubset
<1>3. IsFiniteSet(T)
  BY FS_Subset
<1>4. T # {}
  BY <1>3, FoldEquation DEF Monoid
<1>5. Fold(f, T) = op(f[Some(T)], Fold(f, T \ {Some(T)})) /\ Some(T) \in T
  BY <1>3, <1>4, FoldEquation
<1>6. Fold(f, T \ {Some(T)}) \in Typ
  BY <1>2, <1>5
<1> QED BY <1>5, <1>6 DEF Monoid, Typed

LEMMA MonoidLaws ==
  ASSUME NEW Typ, Monoid(Typ), NEW u \in Typ, NEW v \in Typ, NEW w \in Typ
  PROVE  /\ op(u, v) = op(v, u)
         /\ op(u, op(v, w)) = op(op(u, v), w)
BY DEF Monoid

LEMMA MonoidSwap ==
  ASSUME NEW Typ, Monoid(Typ), NEW u \in Typ, NEW v \in Typ, NEW w \in Typ
  PROVE  op(u, op(v, w)) = op(v, op(u, w))
<1>1. op(u, op(v, w)) = op(op(u, v), w) /\ op(v, op(u, w)) = op(op(v, u), w)
  BY MonoidLaws
<1>2. op(u, v) = op(v, u)
  BY MonoidLaws
<1> QED BY <1>1, <1>2

\* Any element may be taken out first.
LEMMA FoldExtract ==
  ASSUME NEW Typ, Monoid(Typ), NEW S, IsFiniteSet(S),
         NEW f, Typed(f, S, Typ), NEW y \in S
  PROVE  Fold(f, S) = op(f[y], Fold(f, S \ {y}))
<1> DEFINE B == {T \in SUBSET S : \E x \in T :
                   Fold(f, T) # op(f[x], Fold(f, T \ {x}))}
<1>1. SUFFICES ASSUME B # {} PROVE FALSE
  OBVIOUS
<1>2. PICK T \in B : \A U \in B : U \subseteq T => U = T
  <2>1. B \in SUBSET SUBSET S
    OBVIOUS
  <2> HIDE DEF B
  <2> QED BY <1>1, <2>1, MinimalSubset
<1>3. PICK x \in T : Fold(f, T) # op(f[x], Fold(f, T \ {x}))
  BY <1>2
<1>4. PICK c \in T : Fold(f, T) = op(f[c], Fold(f, T \ {c}))
  <2>1. IsFiniteSet(T) /\ T # {}
    BY FS_Subset
  <2> QED BY <2>1, FoldEquation
<1>5. c # x
  BY <1>3, <1>4
<1>6. T \ {c} \notin B /\ T \ {x} \notin B /\ T \ {c} \in SUBSET S
        /\ T \ {x} \in SUBSET S /\ x \in T \ {c} /\ c \in T \ {x}
  BY <1>2, <1>5
<1>7. /\ Fold(f, T \ {c}) = op(f[x], Fold(f, (T \ {c}) \ {x}))
      /\ Fold(f, T \ {x}) = op(f[c], Fold(f, (T \ {x}) \ {c}))
  BY <1>6
<1>8. (T \ {c}) \ {x} = (T \ {x}) \ {c}
  OBVIOUS
<1>9. PICK r \in Typ : r = Fold(f, (T \ {x}) \ {c})
  <2>1. IsFiniteSet((T \ {x}) \ {c})
    BY FS_Subset
  <2>2. Typed(f, (T \ {x}) \ {c}, Typ)
    BY DEF Typed
  <2> QED BY <2>1, <2>2, FoldType
<1>10. f[c] \in Typ /\ f[x] \in Typ
  BY DEF Typed
<1>11. op(f[c], op(f[x], r)) = op(f[x], op(f[c], r))
  BY <1>9, <1>10, MonoidSwap
<1> QED BY <1>3, <1>4, <1>7, <1>8, <1>9, <1>11

\* One more element is combined with the fold of the others.
LEMMA FoldAdd ==
  ASSUME NEW Typ, Monoid(Typ), NEW S, IsFiniteSet(S), NEW y, y \notin S,
         NEW f, Typed(f, S \cup {y}, Typ)
  PROVE  Fold(f, S \cup {y}) = op(f[y], Fold(f, S))
<1> DEFINE T == S \cup {y}
<1>1. IsFiniteSet(T) /\ y \in T /\ T \ {y} = S
  BY FS_AddElement
<1>2. Typed(f, T, Typ)
  OBVIOUS
<1> HIDE DEF T
<1>3. Fold(f, T) = op(f[y], Fold(f, T \ {y}))
  BY <1>1, <1>2, FoldExtract
<1> QED BY <1>1, <1>3 DEF T

\* A fold depends on the values at its indices only.
LEMMA FoldSame ==
  ASSUME NEW S, IsFiniteSet(S), NEW f, NEW g, \A x \in S : f[x] = g[x]
  PROVE  Fold(f, S) = Fold(g, S)
<1> DEFINE B == {T \in SUBSET S : Fold(f, T) # Fold(g, T)}
<1>1. SUFFICES ASSUME B # {} PROVE FALSE
  OBVIOUS
<1>2. PICK T \in B : \A U \in B : U \subseteq T => U = T
  <2>1. B \in SUBSET SUBSET S
    OBVIOUS
  <2> HIDE DEF B
  <2> QED BY <1>1, <2>1, MinimalSubset
<1>3. IsFiniteSet(T)
  BY FS_Subset
<1>4. T # {}
  BY <1>3, FoldEquation
<1>5. /\ Fold(f, T) = op(f[Some(T)], Fold(f, T \ {Some(T)})) /\ Some(T) \in T
      /\ Fold(g, T) = op(g[Some(T)], Fold(g, T \ {Some(T)}))
  BY <1>3, <1>4, FoldEquation
<1>6. Fold(f, T \ {Some(T)}) = Fold(g, T \ {Some(T)})
  BY <1>2, <1>5
<1> QED BY <1>5, <1>6

\* The fold over two disjoint sets combines theirs.
LEMMA FoldUnion ==
  ASSUME NEW Typ, Monoid(Typ), NEW S, IsFiniteSet(S), NEW T, IsFiniteSet(T),
         S \cap T = {}, NEW f, Typed(f, S \cup T, Typ)
  PROVE  Fold(f, S \cup T) = op(Fold(f, S), Fold(f, T))
<1> DEFINE B == {U \in SUBSET S :
                   Fold(f, U \cup T) # op(Fold(f, U), Fold(f, T))}
<1>0. Fold(f, T) \in Typ
  BY FoldType DEF Typed
<1>1. SUFFICES ASSUME B # {} PROVE FALSE
  OBVIOUS
<1>2. PICK U \in B : \A V \in B : V \subseteq U => V = U
  <2>1. B \in SUBSET SUBSET S
    OBVIOUS
  <2> HIDE DEF B
  <2> QED BY <1>1, <2>1, MinimalSubset
<1>3. U # {}
  <2>1. Fold(f, {}) = base
    BY FS_EmptySet, FoldEquation
  <2>2. {} \cup T = T
    OBVIOUS
  <2> QED BY <1>0, <2>1, <2>2 DEF Monoid
<1>4. PICK y \in U : TRUE
  BY <1>3
<1> DEFINE V == U \ {y}
<1>5. Fold(f, V \cup T) = op(Fold(f, V), Fold(f, T))
  BY <1>2, <1>4
<1>6. /\ IsFiniteSet(U) /\ IsFiniteSet(V) /\ IsFiniteSet(V \cup T)
      /\ y \notin V /\ y \notin V \cup T
      /\ V \cup {y} = U /\ (V \cup T) \cup {y} = U \cup T
      /\ Typed(f, V \cup {y}, Typ)
      /\ Typed(f, (V \cup T) \cup {y}, Typ)
  <2>1. IsFiniteSet(U) /\ IsFiniteSet(V)
    BY FS_Subset
  <2>2. IsFiniteSet(V \cup T)
    BY <2>1, FS_Union
  <2> QED BY <1>4, <2>1, <2>2 DEF Typed
<1> HIDE DEF V, B
<1>7. Fold(f, U) = op(f[y], Fold(f, V))
  BY <1>6, FoldAdd, SMTT(20)
<1>8. Fold(f, U \cup T) = op(f[y], Fold(f, V \cup T))
  <2> DEFINE W == V \cup T
  <2>1. IsFiniteSet(W) /\ y \notin W /\ Typed(f, W \cup {y}, Typ)
    BY <1>6
  <2> HIDE DEF W
  <2>2. Fold(f, W \cup {y}) = op(f[y], Fold(f, W))
    BY <2>1, FoldAdd
  <2> QED BY <1>6, <2>2 DEF W
<1>9. Fold(f, V) \in Typ /\ f[y] \in Typ
  BY <1>6, FoldType DEF Typed
<1>10. op(f[y], op(Fold(f, V), Fold(f, T))) = op(op(f[y], Fold(f, V)), Fold(f, T))
  BY <1>0, <1>9, MonoidLaws
<1>11. U \notin B
  BY <1>5, <1>7, <1>8, <1>10 DEF B
<1> QED BY <1>11

\* j maps S one-to-one onto R.
Renames(j, S, R) ==
  /\ \A x, y \in S : j[x] = j[y] => x = y
  /\ \A z : z \in R <=> \E x \in S : z = j[x]

\* The indices may be renamed.
LEMMA FoldRename ==
  ASSUME NEW Typ, Monoid(Typ), NEW S, IsFiniteSet(S),
         NEW j, NEW R, Renames(j, S, R),
         NEW f, Typed(f, R, Typ),
         NEW g, \A x \in S : g[x] = f[j[x]]
  PROVE  Fold(g, S) = Fold(f, R)
<1> DEFINE Im(U) == {j[x] : x \in U}
           B == {U \in SUBSET S : Fold(g, U) # Fold(f, Im(U))}
<1>1. SUFFICES ASSUME B # {} PROVE FALSE
  <2>1. R = Im(S) /\ S \in SUBSET S
    BY DEF Renames
  <2> QED BY <2>1
<1>2. PICK U \in B : \A V \in B : V \subseteq U => V = U
  <2>1. B \in SUBSET SUBSET S
    OBVIOUS
  <2> HIDE DEF B
  <2> QED BY <1>1, <2>1, MinimalSubset
<1>3. U # {}
  <2>1. Fold(f, {}) = base /\ Fold(g, {}) = base
    BY FS_EmptySet, FoldEquation
  <2>2. Im({}) = {}
    OBVIOUS
  <2> QED BY <2>1, <2>2
<1>4. PICK y \in U : TRUE
  BY <1>3
<1> DEFINE V == U \ {y}
           W == Im(V)
<1>5. Fold(g, V) = Fold(f, W)
  BY <1>2, <1>4
<1>6. IsFiniteSet(U) /\ IsFiniteSet(V)
  BY FS_Subset
<1>7. IsFiniteSet(W)
  <2> DEFINE jV == [x \in V |-> j[x]]
  <2>1. jV \in [V -> W] /\ \A z \in W : \E x \in V : jV[x] = z
    OBVIOUS
  <2>2. jV \in Surjection(V, W)
    BY <2>1 DEF Surjection
  <2> HIDE DEF jV, V, W
  <2> QED BY <1>6, <2>2, FS_Surjection
<1>8. /\ y \notin V /\ V \cup {y} = U /\ j[y] \notin W /\ W \cup {j[y]} = Im(U)
      /\ Typed(g, V \cup {y}, Typ)
      /\ Typed(f, W \cup {j[y]}, Typ)
      /\ g[y] = f[j[y]]
  BY <1>4 DEF Renames, Typed
<1> HIDE DEF V, W
<1>9. Fold(g, V \cup {y}) = op(g[y], Fold(g, V))
  BY <1>6, <1>8, FoldAdd
<1>10. Fold(f, W \cup {j[y]}) = op(f[j[y]], Fold(f, W))
  <2> DEFINE z == j[y]
  <2>1. z \notin W /\ Typed(f, W \cup {z}, Typ)
    BY <1>8
  <2> HIDE DEF z
  <2>2. Fold(f, W \cup {z}) = op(f[z], Fold(f, W))
    BY <1>7, <2>1, FoldAdd
  <2> QED BY <2>2 DEF z
<1>11. U \notin B
  BY <1>5, <1>8, <1>9, <1>10
<1> QED BY <1>11

\* Folding two families index by index folds them both.
LEMMA FoldPointwise ==
  ASSUME NEW Typ, Monoid(Typ), NEW S, IsFiniteSet(S),
         NEW f, Typed(f, S, Typ), NEW g, Typed(g, S, Typ),
         NEW h, \A x \in S : h[x] = op(f[x], g[x])
  PROVE  Fold(h, S) = op(Fold(f, S), Fold(g, S))
<1> DEFINE B == {T \in SUBSET S : Fold(h, T) # op(Fold(f, T), Fold(g, T))}
<1>1. SUFFICES ASSUME B # {} PROVE FALSE
  OBVIOUS
<1>2. PICK T \in B : \A U \in B : U \subseteq T => U = T
  <2>1. B \in SUBSET SUBSET S
    OBVIOUS
  <2> HIDE DEF B
  <2> QED BY <1>1, <2>1, MinimalSubset
<1>3. IsFiniteSet(T)
  BY FS_Subset
<1>4. T # {}
  BY <1>3, FoldEquation DEF Monoid
<1>5. PICK x \in T : /\ Fold(f, T) = op(f[x], Fold(f, T \ {x}))
                     /\ Fold(g, T) = op(g[x], Fold(g, T \ {x}))
                     /\ Fold(h, T) = op(h[x], Fold(h, T \ {x}))
  BY <1>3, <1>4, FoldEquation
<1>6. Fold(h, T \ {x}) = op(Fold(f, T \ {x}), Fold(g, T \ {x}))
  BY <1>2
<1>7. PICK a \in Typ, b \in Typ, u \in Typ, v \in Typ :
        a = f[x] /\ b = g[x] /\ u = Fold(f, T \ {x}) /\ v = Fold(g, T \ {x})
  <2>1. IsFiniteSet(T \ {x}) /\ Typed(f, T \ {x}, Typ) /\ Typed(g, T \ {x}, Typ)
    BY FS_Subset DEF Typed
  <2> QED BY <2>1, FoldType DEF Typed
<1>8. op(u, v) \in Typ /\ op(b, v) \in Typ
  BY DEF Monoid
<1>9. op(op(a, b), op(u, v)) = op(op(a, u), op(b, v))
  <2>1. op(op(a, b), op(u, v)) = op(a, op(b, op(u, v)))
    BY <1>8, MonoidLaws
  <2>2. op(b, op(u, v)) = op(u, op(b, v))
    BY MonoidSwap
  <2>3. op(op(a, u), op(b, v)) = op(a, op(u, op(b, v)))
    BY <1>8, MonoidLaws
  <2> QED BY <2>1, <2>2, <2>3
<1>10. h[x] = op(a, b)
  BY <1>7
<1> QED BY <1>5, <1>6, <1>7, <1>9, <1>10

\* The fold over one index is the value there.
LEMMA FoldOne ==
  ASSUME NEW Typ, Monoid(Typ), NEW f, NEW x, f[x] \in Typ
  PROVE  Fold(f, {x}) = f[x]
<1> DEFINE E == {}
<1>1. IsFiniteSet(E) /\ x \notin E /\ Typed(f, E \cup {x}, Typ) /\ E \cup {x} = {x}
  BY FS_EmptySet DEF Typed
<1>2. Fold(f, E) = base
  BY <1>1, FoldEquation
<1> HIDE DEF E
<1>3. Fold(f, E \cup {x}) = op(f[x], Fold(f, E))
  BY <1>1, FoldAdd
<1>4. op(f[x], base) = f[x]
  BY DEF Monoid
<1> QED BY <1>1, <1>2, <1>3, <1>4
=============================================================================
