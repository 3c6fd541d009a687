---------------------------- MODULE TotalsProofs ----------------------------
(***************************************************************************)
(* Facts about finite sums, for every function and every finite set, and   *)
(* about minima, from which what goes on in turns follows.                 *)
(***************************************************************************)
EXTENDS Totals, FiniteSetTheorems, WellFoundedInduction, TLAPS

(* The tokens of one element: as many as its value.                         *)
LEMMA OneUnits ==
    ASSUME NEW x, NEW n \in Nat
    PROVE  IsFiniteSet({x} \X (1 .. n)) /\ Cardinality({x} \X (1 .. n)) = n
<1>1. IsFiniteSet({x}) /\ Cardinality({x}) = 1
  BY FS_Singleton
<1>2. IsFiniteSet(1 .. n) /\ Cardinality(1 .. n) = n
  BY FS_Interval
<1>3. /\ IsFiniteSet({x} \X (1 .. n))
      /\ Cardinality({x} \X (1 .. n)) = Cardinality({x}) * Cardinality(1 .. n)
  BY <1>1, <1>2, FS_Product
<1> QED
  BY <1>1, <1>2, <1>3

(* A finite sum of naturals is a natural.                                   *)
LEMMA TotalType ==
    ASSUME NEW f, NEW S, IsFiniteSet(S), \A x \in S : f[x] \in Nat
    PROVE  IsFiniteSet(Tokens(f, S)) /\ Total(f, S) \in Nat
<1> DEFINE U == [x \in S |-> {x} \X (1 .. f[x])]
           T == {{x} \X (1 .. f[x]) : x \in S}
<1>1. U \in Surjection(S, T)
  BY DEF Surjection
<1>2. IsFiniteSet(T)
  BY <1>1, FS_Surjection
<1>3. \A t \in T : IsFiniteSet(t)
  <2>1. \A x \in S : IsFiniteSet({x} \X (1 .. f[x]))
    BY OneUnits
  <2> QED
    BY <2>1
<1>4. IsFiniteSet(UNION T)
  BY <1>2, <1>3, FS_UNION
<1> QED
  BY <1>4, FS_CardinalityType DEF Tokens, Total

(* A sum splits into one of its terms and the rest.                         *)
LEMMA TotalSplit ==
    ASSUME NEW f, NEW S, IsFiniteSet(S), \A y \in S : f[y] \in Nat, NEW x \in S
    PROVE  /\ Total(f, S \ {x}) \in Nat
           /\ Total(f, S) = f[x] + Total(f, S \ {x})
<1> DEFINE One  == {x} \X (1 .. f[x])
           Rest == Tokens(f, S \ {x})
<1>1. IsFiniteSet(S \ {x})
  BY FS_RemoveElement
<1>2. IsFiniteSet(Rest) /\ Cardinality(Rest) \in Nat
  BY <1>1, TotalType DEF Total
<1>3. IsFiniteSet(One) /\ Cardinality(One) = f[x]
  BY OneUnits
<1>4. Tokens(f, S) = One \cup Rest
  BY DEF Tokens
<1>5. One \cap Rest = {}
  BY DEF Tokens
<1>6. Cardinality(One \cap Rest) = 0
  BY <1>5, FS_EmptySet
<1>7. Cardinality(One \cup Rest) = f[x] + Cardinality(Rest)
  <2> HIDE DEF One, Rest
  <2>1. Cardinality(One \cup Rest)
          = Cardinality(One) + Cardinality(Rest) - Cardinality(One \cap Rest)
    BY <1>2, <1>3, FS_Union
  <2> QED
    BY <1>2, <1>3, <1>6, <2>1
<1> QED
  BY <1>2, <1>4, <1>7 DEF Total

(* A sum depends on the values it adds, and on nothing else.                *)
LEMMA TotalCongruence ==
    ASSUME NEW f, NEW g, NEW S, \A x \in S : f[x] = g[x]
    PROVE  Total(f, S) = Total(g, S)
<1>1. {{x} \X (1 .. f[x]) : x \in S} = {{x} \X (1 .. g[x]) : x \in S}
  OBVIOUS
<1> QED
  BY <1>1 DEF Total, Tokens

(* The sum of zeros.                                                        *)
LEMMA TotalZero ==
    ASSUME NEW f, NEW S, \A x \in S : f[x] = 0
    PROVE  Total(f, S) = 0
<1>1. Tokens(f, S) = {}
  BY DEF Tokens
<1> QED
  BY <1>1, FS_EmptySet DEF Total

(* What is left of the sum when one term is replaced.                       *)
LEMMA TotalReplace ==
    ASSUME NEW f, NEW g, NEW S, IsFiniteSet(S), NEW x \in S,
           \A y \in S : f[y] \in Nat /\ g[y] \in Nat,
           \A y \in S \ {x} : f[y] = g[y]
    PROVE  Total(g, S) = Total(f, S) - f[x] + g[x] /\ Total(f, S) >= f[x]
<1>1. Total(f, S \ {x}) = Total(g, S \ {x})
  BY TotalCongruence
<1> QED
  BY <1>1, TotalSplit

(* A sum of smaller terms is smaller.                                       *)
LEMMA TotalMonotone ==
    ASSUME NEW f, NEW g, NEW S, IsFiniteSet(S),
           \A x \in S : f[x] \in Nat /\ g[x] \in Nat /\ f[x] <= g[x]
    PROVE  Total(f, S) \in Nat /\ Total(g, S) \in Nat /\ Total(f, S) <= Total(g, S)
<1>1. IsFiniteSet(Tokens(g, S)) /\ Total(g, S) \in Nat
  BY TotalType
<1>2. Total(f, S) \in Nat
  BY TotalType
<1>3. \A x \in S : {x} \X (1 .. f[x]) \subseteq {x} \X (1 .. g[x])
  <2>1. \A x \in S : 1 .. f[x] \subseteq 1 .. g[x]
    OBVIOUS
  <2> QED
    BY <2>1
<1>4. Tokens(f, S) \subseteq Tokens(g, S)
  BY <1>3 DEF Tokens
<1>5. Cardinality(Tokens(f, S)) <= Cardinality(Tokens(g, S))
  BY <1>1, <1>4, FS_Subset
<1> QED
  BY <1>1, <1>2, <1>5 DEF Total

(* Tokens are pairs.                                                        *)
LEMMA TokenShape ==
    ASSUME NEW f, NEW S
    PROVE  /\ \A t \in Tokens(f, S) : t = <<t[1], t[2]>> /\ t[1] \in S /\ t[2] \in 1 .. f[t[1]]
           /\ \A x \in S : \A k \in 1 .. f[x] : <<x, k>> \in Tokens(f, S)
<1>1. \A t \in Tokens(f, S) : \E x \in S : t \in {x} \X (1 .. f[x])
  BY DEF Tokens
<1>2. \A x \in S : \A t \in {x} \X (1 .. f[x]) : t = <<t[1], t[2]>> /\ t[1] = x /\ t[2] \in 1 .. f[x]
  OBVIOUS
<1>3. \A x \in S : \A k \in 1 .. f[x] : <<x, k>> \in Tokens(f, S)
  <2> SUFFICES ASSUME NEW x \in S, NEW k \in 1 .. f[x] PROVE <<x, k>> \in Tokens(f, S)
    OBVIOUS
  <2>1. <<x, k>> \in {x} \X (1 .. f[x])
    OBVIOUS
  <2> QED
    BY <2>1, Zenon DEF Tokens
<1> QED
  BY <1>1, <1>2, <1>3

(* The sum over two sets that have nothing in common.                       *)
LEMMA TotalUnion ==
    ASSUME NEW f, NEW S, NEW T, IsFiniteSet(S), IsFiniteSet(T), S \cap T = {},
           \A x \in S \cup T : f[x] \in Nat
    PROVE  Total(f, S \cup T) = Total(f, S) + Total(f, T)
<1> DEFINE A == Tokens(f, S)
           B == Tokens(f, T)
<1>1. IsFiniteSet(A) /\ IsFiniteSet(B) /\ Cardinality(A) \in Nat /\ Cardinality(B) \in Nat
  BY TotalType DEF Total
<1>2. Tokens(f, S \cup T) = A \cup B
  BY DEF Tokens
<1>3. A \cap B = {}
  <2>1. \A t \in A : t[1] \in S
    BY TokenShape
  <2>2. \A t \in B : t[1] \in T
    BY TokenShape
  <2> QED
    BY <2>1, <2>2
<1> HIDE DEF A, B
<1>4. Cardinality(A \cup B) = Cardinality(A) + Cardinality(B) - Cardinality(A \cap B)
  BY <1>1, FS_Union
<1>5. Cardinality(A \cap B) = 0
  BY <1>3, FS_EmptySet
<1>6. Cardinality(A \cup B) = Cardinality(A) + Cardinality(B)
  BY <1>1, <1>4, <1>5
<1> QED
  BY <1>2, <1>6 DEF Total, A, B

(* A sum of sums, term by term.                                             *)
LEMMA TotalPlus ==
    ASSUME NEW f, NEW g, NEW h, NEW S, IsFiniteSet(S),
           \A x \in S : f[x] \in Nat /\ g[x] \in Nat /\ h[x] = f[x] + g[x]
    PROVE  Total(h, S) = Total(f, S) + Total(g, S)
<1> DEFINE A == Tokens(f, S)
           B == Tokens(g, S)
           H == Tokens(h, S)
           C == H \ A
           b == [t \in B |-> <<t[1], f[t[1]] + t[2]>>]
<1>1. IsFiniteSet(A) /\ IsFiniteSet(B) /\ Cardinality(A) \in Nat /\ Cardinality(B) \in Nat
  BY TotalType DEF Total
<1>2. A \subseteq H
  <2>1. \A t \in A : t = <<t[1], t[2]>> /\ t[1] \in S /\ t[2] \in 1 .. h[t[1]]
    BY TokenShape
  <2> QED
    BY <2>1, TokenShape
<1>3. b \in Bijection(B, C)
  <2>1. \A t \in B : t = <<t[1], t[2]>> /\ t[1] \in S /\ t[2] \in 1 .. g[t[1]]
    BY TokenShape
  <2>2. \A x \in S : \A k \in 1 .. g[x] : /\ f[x] + k \in 1 .. h[x] /\ f[x] + k \notin 1 .. f[x]
    OBVIOUS
  <2>3. \A x \in S : \A k \in 1 .. g[x] : <<x, f[x] + k>> \in C
    <3>1. \A x \in S : \A k \in 1 .. g[x] : <<x, f[x] + k>> \in H
      BY <2>2, TokenShape
    <3>2. \A x \in S : \A k \in 1 .. g[x] : <<x, f[x] + k>> \notin A
      <4> SUFFICES ASSUME NEW x \in S, NEW k \in 1 .. g[x], <<x, f[x] + k>> \in A PROVE FALSE
        OBVIOUS
      <4>1. <<x, f[x] + k>>[2] \in 1 .. f[<<x, f[x] + k>>[1]]
        BY TokenShape
      <4> QED
        BY <2>2, <4>1
    <3> QED
      BY <3>1, <3>2
  <2>4. b \in [B -> C]
    BY <2>1, <2>3
  <2>5. \A s, t \in B : b[s] = b[t] => s = t
    <3> SUFFICES ASSUME NEW s \in B, NEW t \in B, b[s] = b[t] PROVE s = t
      OBVIOUS
    <3>1. s[1] = t[1] /\ f[s[1]] + s[2] = f[t[1]] + t[2]
      OBVIOUS
    <3> QED
      BY <2>1, <3>1
  <2>6. \A c \in C : \E t \in B : b[t] = c
    <3> SUFFICES ASSUME NEW c \in C PROVE \E t \in B : b[t] = c
      OBVIOUS
    <3>1. c = <<c[1], c[2]>> /\ c[1] \in S /\ c[2] \in 1 .. h[c[1]]
      BY TokenShape
    <3>2. c[2] \notin 1 .. f[c[1]]
      BY <3>1, TokenShape
    <3>3. c[2] - f[c[1]] \in 1 .. g[c[1]]
      BY <3>1, <3>2
    <3>4. <<c[1], c[2] - f[c[1]]>> \in B
      BY <3>1, <3>3, TokenShape
    <3>5. b[<<c[1], c[2] - f[c[1]]>>] = <<c[1], f[c[1]] + (c[2] - f[c[1]])>>
      BY <3>4
    <3>6. f[c[1]] + (c[2] - f[c[1]]) = c[2]
      BY <3>1
    <3> QED
      BY <3>1, <3>4, <3>5, <3>6
  <2> HIDE DEF b, C
  <2> QED
    BY <2>4, <2>5, <2>6 DEF Bijection, Injection, Surjection, IsInjective
<1>4. IsFiniteSet(C) /\ Cardinality(C) = Cardinality(B)
  BY <1>1, <1>3, FS_Bijection DEF ExistsBijection
<1>5. H = A \cup C /\ A \cap C = {}
  BY <1>2
<1> HIDE DEF A, B, C, H
<1>6. Cardinality(A \cup C) = Cardinality(A) + Cardinality(C) - Cardinality(A \cap C)
  BY <1>1, <1>4, FS_Union
<1>7. Cardinality(A \cap C) = 0
  BY <1>5, FS_EmptySet
<1> QED
  BY <1>1, <1>4, <1>5, <1>6, <1>7 DEF Total, A, B, H

(* The k-th of n units of the i-th of c times, counted through.             *)
LEMMA PairsCounted ==
    ASSUME NEW n \in Nat, NEW c \in Nat
    PROVE  /\ \A i \in 1 .. c, k \in 1 .. n : (i - 1) * n + k \in 1 .. c * n
           /\ \A i \in 1 .. c, j \in 1 .. c, k \in 1 .. n, m \in 1 .. n :
                 (i - 1) * n + k = (j - 1) * n + m => i = j /\ k = m
           /\ \A m \in 1 .. c * n : \E i \in 1 .. c, k \in 1 .. n : m = (i - 1) * n + k
<1>1. ASSUME NEW i \in 1 .. c, NEW k \in 1 .. n PROVE (i - 1) * n + k \in 1 .. c * n
  <2>1. (c - i) * n >= 0 /\ (i - 1) * n >= 0
    OBVIOUS
  <2>2. c * n = (c - i) * n + (i - 1) * n + n
    OBVIOUS
  <2> QED
    BY <2>1, <2>2
<1>2. ASSUME NEW i \in 1 .. c, NEW j \in 1 .. c, NEW k \in 1 .. n, NEW m \in 1 .. n,
             (i - 1) * n + k = (j - 1) * n + m
      PROVE  i = j /\ k = m
  <2>1. CASE i < j
    <3>1. (j - i - 1) * n >= 0
      BY <2>1
    <3>2. (j - 1) * n = (i - 1) * n + n + (j - i - 1) * n
      OBVIOUS
    <3> QED
      BY <1>2, <3>1, <3>2
  <2>2. CASE i > j
    <3>1. (i - j - 1) * n >= 0
      BY <2>2
    <3>2. (i - 1) * n = (j - 1) * n + n + (i - j - 1) * n
      OBVIOUS
    <3> QED
      BY <1>2, <3>1, <3>2
  <2> QED
    BY <1>2, <2>1, <2>2
<1>3. ASSUME NEW m \in 1 .. c * n PROVE \E i \in 1 .. c, k \in 1 .. n : m = (i - 1) * n + k
  <2> DEFINE q == (m - 1) \div n
             e == (m - 1) % n
  <2>1. n > 0 /\ m - 1 \in Nat
    <3>1. n = 0 => c * n = 0
      OBVIOUS
    <3> QED
      BY <3>1
  <2>2. m - 1 = n * q + e /\ q \in Nat /\ e \in 0 .. n - 1
    BY <2>1
  <2> HIDE DEF q, e
  <2>3. q < c
    <3> SUFFICES ASSUME q >= c PROVE FALSE
      BY <2>2
    <3>1. (q - c) * n >= 0
      BY <2>2
    <3>2. n * q = c * n + (q - c) * n
      BY <2>2
    <3> QED
      BY <2>1, <2>2, <3>1, <3>2
  <2>4. PICK i \in 1 .. c : i - 1 = q
    <3>1. q + 1 \in 1 .. c /\ (q + 1) - 1 = q
      BY <2>2, <2>3
    <3> QED
      BY <3>1
  <2>5. PICK k \in 1 .. n : k - 1 = e
    <3>1. e + 1 \in 1 .. n /\ (e + 1) - 1 = e
      BY <2>2
    <3> QED
      BY <3>1
  <2>6. m = (i - 1) * n + k
    BY <2>2, <2>4, <2>5
  <2> QED
    BY <2>6
<1> QED
  BY <1>1, <1>2, <1>3

(* A sum of multiples.                                                      *)
LEMMA TotalScale ==
    ASSUME NEW f, NEW h, NEW S, IsFiniteSet(S), NEW c \in Nat,
           \A x \in S : f[x] \in Nat /\ h[x] = c * f[x]
    PROVE  Total(h, S) = c * Total(f, S)
<1> DEFINE A == Tokens(f, S)
           P == A \X (1 .. c)
           H == Tokens(h, S)
           b == [p \in P |-> <<p[1][1], (p[2] - 1) * f[p[1][1]] + p[1][2]>>]
<1>1. IsFiniteSet(A) /\ Cardinality(A) \in Nat
  BY TotalType DEF Total
<1>2. IsFiniteSet(1 .. c) /\ Cardinality(1 .. c) = c
  BY FS_Interval
<1>3. IsFiniteSet(P) /\ Cardinality(P) = Cardinality(A) * c
  BY <1>1, <1>2, FS_Product
<1>4. b \in Bijection(P, H)
  <2>0. ASSUME NEW x \in S
        PROVE  /\ \A i \in 1 .. c, k \in 1 .. f[x] : (i - 1) * f[x] + k \in 1 .. h[x]
               /\ \A i \in 1 .. c, j \in 1 .. c, k \in 1 .. f[x], m \in 1 .. f[x] :
                     (i - 1) * f[x] + k = (j - 1) * f[x] + m => i = j /\ k = m
               /\ \A m \in 1 .. h[x] : \E i \in 1 .. c, k \in 1 .. f[x] : m = (i - 1) * f[x] + k
    <3> DEFINE n == f[x]
    <3>1. n \in Nat /\ h[x] = c * n
      OBVIOUS
    <3> HIDE DEF n
    <3>2. /\ \A i \in 1 .. c, k \in 1 .. n : (i - 1) * n + k \in 1 .. c * n
          /\ \A i \in 1 .. c, j \in 1 .. c, k \in 1 .. n, m \in 1 .. n :
                (i - 1) * n + k = (j - 1) * n + m => i = j /\ k = m
          /\ \A m \in 1 .. c * n : \E i \in 1 .. c, k \in 1 .. n : m = (i - 1) * n + k
      BY <3>1, PairsCounted
    <3> QED
      BY <3>1, <3>2, Zenon DEF n
  <2>1. \A p \in P : /\ p = <<p[1], p[2]>> /\ p[1] = <<p[1][1], p[1][2]>> /\ p[2] \in 1 .. c
                     /\ p[1][1] \in S /\ p[1][2] \in 1 .. f[p[1][1]]
    BY TokenShape
  <2>2. b \in [P -> H]
    <3> SUFFICES ASSUME NEW p \in P PROVE <<p[1][1], (p[2] - 1) * f[p[1][1]] + p[1][2]>> \in H
      OBVIOUS
    <3>1. (p[2] - 1) * f[p[1][1]] + p[1][2] \in 1 .. h[p[1][1]]
      BY <2>0, <2>1
    <3> QED
      BY <2>1, <3>1, TokenShape
  <2>3. \A p, q \in P : b[p] = b[q] => p = q
    <3> SUFFICES ASSUME NEW p \in P, NEW q \in P, b[p] = b[q] PROVE p = q
      OBVIOUS
    <3>1. p[1][1] = q[1][1] /\ (p[2] - 1) * f[p[1][1]] + p[1][2] = (q[2] - 1) * f[q[1][1]] + q[1][2]
      OBVIOUS
    <3>2. p[2] = q[2] /\ p[1][2] = q[1][2]
      BY <2>0, <2>1, <3>1
    <3> QED
      BY <2>1, <3>1, <3>2
  <2>4. \A t \in H : \E p \in P : b[p] = t
    <3> SUFFICES ASSUME NEW t \in H PROVE \E p \in P : b[p] = t
      OBVIOUS
    <3>1. t = <<t[1], t[2]>> /\ t[1] \in S /\ t[2] \in 1 .. h[t[1]]
      BY TokenShape
    <3>2. PICK i \in 1 .. c, k \in 1 .. f[t[1]] : t[2] = (i - 1) * f[t[1]] + k
      BY <2>0, <3>1
    <3>3. <<t[1], k>> \in A
      BY <3>1, TokenShape
    <3>4. <<<<t[1], k>>, i>> \in P
      BY <3>3
    <3>5. b[<<<<t[1], k>>, i>>] = <<t[1], (i - 1) * f[t[1]] + k>>
      BY <3>4
    <3> QED
      BY <3>1, <3>2, <3>4, <3>5
  <2> HIDE DEF b, P, H
  <2> QED
    BY <2>2, <2>3, <2>4 DEF Bijection, Injection, Surjection, IsInjective
<1>5. Cardinality(H) = Cardinality(P)
  BY <1>3, <1>4, FS_Bijection DEF ExistsBijection
<1> HIDE DEF A, P, H
<1>6. Cardinality(H) = c * Cardinality(A)
  BY <1>1, <1>3, <1>5
<1> QED
  BY <1>6 DEF Total, A, H

(* The terms of a part of a sum.                                            *)
LEMMA TotalPart ==
    ASSUME NEW f, NEW S, NEW P, IsFiniteSet(S), P \subseteq S, \A x \in S : f[x] \in Nat
    PROVE  /\ Total(f, P) \in Nat /\ Total(f, S) \in Nat /\ Total(f, P) <= Total(f, S)
           /\ (\A x \in S \ P : f[x] = 0) => Total(f, P) = Total(f, S)
<1>1. IsFiniteSet(P) /\ IsFiniteSet(S \ P) /\ P \cap (S \ P) = {} /\ P \cup (S \ P) = S
  BY FS_Subset
<1>2. Total(f, S) = Total(f, P) + Total(f, S \ P)
  BY <1>1, TotalUnion
<1>3. Total(f, P) \in Nat /\ Total(f, S \ P) \in Nat
  BY <1>1, TotalType
<1>4. (\A x \in S \ P : f[x] = 0) => Total(f, S \ P) = 0
  BY TotalZero
<1> QED
  BY <1>2, <1>3, <1>4
----------------------------------------------------------------------------
(* A finite set has a minimal element under a strict order, and a set of    *)
(* numbers a least one.                                                     *)
LEMMA FiniteLeast ==
    ASSUME NEW T, IsFiniteSet(T), T # {}, NEW R,
           \A a \in T : <<a, a>> \notin R,
           \A a, b, c \in T : <<a, b>> \in R /\ <<b, c>> \in R => <<a, c>> \in R
    PROVE  \E m \in T : \A a \in T : <<a, m>> \notin R
<1> DEFINE Before(b) == {a \in T : <<a, b>> \in R}
           Fronts == {Before(b) : b \in T}
<1>1. Fronts \subseteq FiniteSubsetsOf(T) /\ Fronts # {}
  <2>1. \A b \in T : Before(b) \in SUBSET T
    OBVIOUS
  <2>2. \A b \in T : IsFiniteSet(Before(b))
    BY <2>1, FS_Subset
  <2>3. ASSUME NEW F \in Fronts PROVE F \in SUBSET T /\ IsFiniteSet(F)
    <3>1. PICK b \in T : F = Before(b)
      OBVIOUS
    <3> QED
      BY <2>1, <2>2, <3>1, Zenon
  <2>4. PICK t \in T : TRUE
    OBVIOUS
  <2>5. Before(t) \in Fronts
    OBVIOUS
  <2> QED
    BY <2>3, <2>5 DEF FiniteSubsetsOf
<1>2. PICK F \in Fronts : \A E \in Fronts : <<E, F>> \notin StrictSubsetOrdering(T)
  BY <1>1, WFMin, FS_StrictSubsetOrderingWellFounded
<1>3. PICK b \in T : F = Before(b)
  OBVIOUS
<1>4. ASSUME NEW a \in T, <<a, b>> \in R PROVE FALSE
  <2>1. a \in Before(b) /\ a \notin Before(a) /\ Before(a) \subseteq Before(b) /\ Before(b) \subseteq T
    BY <1>4
  <2>2. <<Before(a), Before(b)>> \in StrictSubsetOrdering(T)
    BY <2>1 DEF StrictSubsetOrdering
  <2>3. Before(a) \in Fronts
    OBVIOUS
  <2> QED
    BY <1>2, <1>3, <2>2, <2>3
<1> QED
  BY <1>4

LEMMA NatLeast ==
    ASSUME NEW T, T \subseteq Nat, T # {}
    PROVE  \E n \in T : \A m \in T : n <= m
<1>1. PICK k \in T : k \in Nat
  OBVIOUS
<1> DEFINE U == {n \in T : n <= k}
           R == {p \in U \X U : p[1] < p[2]}
<1>2. IsFiniteSet(U) /\ U # {} /\ U \subseteq Nat
  <2>1. k \in T
    BY <1>1
  <2>2. k \in U
    BY <1>1, <2>1
  <2>3. \A n \in U : n \in Nat /\ n <= k
    OBVIOUS
  <2>4. IsFiniteSet(0 .. k)
    BY <1>1, FS_Interval
  <2>5. IsFiniteSet(U)
    <3> HIDE DEF U
    <3>1. U \subseteq 0 .. k
      BY <1>1, <2>3
    <3> QED
      BY <2>4, <3>1, FS_Subset
  <2> QED
    BY <2>2, <2>3, <2>5
<1>3. \A m, n \in U : <<m, n>> \in R <=> m < n
  OBVIOUS
<1> HIDE DEF R
<1>4. \A n \in U : <<n, n>> \notin R
  BY <1>2, <1>3
<1>5. \A l, m, n \in U : <<l, m>> \in R /\ <<m, n>> \in R => <<l, n>> \in R
  BY <1>2, <1>3
<1>6. PICK n \in U : \A m \in U : <<m, n>> \notin R
  BY <1>2, <1>4, <1>5, FiniteLeast
<1>7. \A m \in T : m \in Nat /\ (m <= k => ~ (m < n)) /\ n \in Nat /\ n <= k
  BY <1>2, <1>3, <1>6
<1>8. \A m \in T : n <= m
  BY <1>1, <1>7
<1> QED
  BY <1>8
=============================================================================
