---------------------------- MODULE ListingProofs ----------------------------
(***************************************************************************)
(* What the lists of Listing contain, and in which order: the facts about  *)
(* sorting and filtering that the proofs about the components cite.        *)
(***************************************************************************)
EXTENDS Listing, FiniteSetTheorems, WellFoundedInduction, TLAPS

\* Every nonempty set of natural numbers has a least element.
LEMMA LeastNatural ==
    ASSUME NEW S \in SUBSET Nat, S # {}
    PROVE  \E m \in S : \A n \in S : m <= n
<1>1. \E m \in S : \A n \in S : ~(<<n, m>> \in OpToRel(<, Nat))
  BY WFMin, NatLessThanWellFounded
<1>2. PICK m \in S : \A n \in S : ~(<<n, m>> \in OpToRel(<, Nat))
  BY <1>1
<1>3. ASSUME NEW n \in S PROVE m <= n
  <2>1. m \in Nat /\ n \in Nat
    OBVIOUS
  <2>2. ~(n < m)
    BY <2>1, <1>2 DEF OpToRel
  <2> QED
    BY <2>1, <2>2
<1> QED
  BY <1>2, <1>3

StrictOrder(S, R) ==
    /\ \A x \in S : <<x, x>> \notin R
    /\ \A x, y, z \in S : <<x, y>> \in R /\ <<y, z>> \in R => <<x, z>> \in R
    /\ \A x, y \in S : x # y => <<x, y>> \in R \/ <<y, x>> \in R

\* An element that comes earlier has a smaller rank.
LEMMA RankGrows ==
    ASSUME NEW S, IsFiniteSet(S), NEW R, StrictOrder(S, R),
           NEW x \in S, NEW y \in S, <<x, y>> \in R
    PROVE  /\ Rank(S, R, x) \in 0 .. Cardinality(S) - 1
           /\ Rank(S, R, x) < Rank(S, R, y)
<1> DEFINE Before(z) == {w \in S : <<w, z>> \in R}
<1>1. IsFiniteSet(S \ {x}) /\ Cardinality(S \ {x}) = Cardinality(S) - 1
  BY FS_RemoveElement
<1>2. Before(x) \subseteq S \ {x}
  BY DEF StrictOrder
<1>3. IsFiniteSet(Before(x)) /\ Cardinality(Before(x)) <= Cardinality(S \ {x})
  BY <1>1, <1>2, FS_Subset
<1>4. Before(x) \cup {x} \subseteq Before(y)
  BY DEF StrictOrder
<1>5. IsFiniteSet(Before(y))
  BY FS_Subset, Before(y) \subseteq S
<1>6. Cardinality(Before(x) \cup {x}) = Cardinality(Before(x)) + 1
  BY <1>2, <1>3, FS_AddElement
<1>7. Cardinality(Before(x) \cup {x}) <= Cardinality(Before(y))
  BY <1>4, <1>5, FS_Subset
<1>8. /\ Cardinality(Before(x)) \in Nat
      /\ Cardinality(Before(y)) \in Nat
      /\ Cardinality(S) \in Nat
  BY <1>3, <1>5, FS_CardinalityType
<1> HIDE DEF Before
<1>9. /\ Cardinality(Before(x)) \in 0 .. Cardinality(S) - 1
      /\ Cardinality(Before(x)) < Cardinality(Before(y))
  BY <1>1, <1>3, <1>6, <1>7, <1>8
<1> QED
  BY <1>9 DEF Rank, Before

\* Every element has a rank below the number of elements.
LEMMA RankType ==
    ASSUME NEW S, IsFiniteSet(S), NEW R, StrictOrder(S, R), NEW x \in S
    PROVE  Rank(S, R, x) \in 0 .. Cardinality(S) - 1
<1> DEFINE Before == {w \in S : <<w, x>> \in R}
<1>1. IsFiniteSet(S \ {x}) /\ Cardinality(S \ {x}) = Cardinality(S) - 1
  BY FS_RemoveElement
<1>2. Before \subseteq S \ {x}
  BY DEF StrictOrder
<1>3. IsFiniteSet(Before) /\ Cardinality(Before) <= Cardinality(S \ {x})
  BY <1>1, <1>2, FS_Subset
<1>4. Cardinality(Before) \in Nat /\ Cardinality(S) \in Nat
  BY <1>3, FS_CardinalityType
<1> HIDE DEF Before
<1>5. Cardinality(Before) \in 0 .. Cardinality(S) - 1
  BY <1>1, <1>3, <1>4
<1> QED
  BY <1>5 DEF Rank, Before

\* Every rank below the number of elements is the rank of one of them.
LEMMA EveryRankIsTaken ==
    ASSUME NEW S, IsFiniteSet(S), NEW R, StrictOrder(S, R),
           NEW n \in 1 .. Cardinality(S)
    PROVE  \E x \in S : Rank(S, R, x) = n - 1
<1> DEFINE f == [x \in S |-> Rank(S, R, x)]
           T == 0 .. Cardinality(S) - 1
<1>1. Cardinality(S) \in Nat
  BY FS_CardinalityType
<1>2. f \in [S -> T]
  BY RankType
<1>3. ASSUME NEW x \in S, NEW y \in S, x # y PROVE f[x] # f[y]
  <2>1. CASE <<x, y>> \in R
    BY <2>1, RankGrows, RankType
  <2>2. CASE <<y, x>> \in R
    BY <2>2, RankGrows, RankType
  <2> QED
    BY <1>3, <2>1, <2>2 DEF StrictOrder
<1>4. f \in Injection(S, T)
  BY <1>2, <1>3 DEF Injection, IsInjective
<1>5. IsFiniteSet(T) /\ Cardinality(T) = Cardinality(S)
  <2> DEFINE last == Cardinality(S) - 1
  <2>1. last \in Int /\ 0 \in Int
    BY <1>1
  <2> HIDE DEF last
  <2>2. IsFiniteSet(0 .. last) /\ Cardinality(0 .. last) = IF 0 > last THEN 0 ELSE last - 0 + 1
    BY <2>1, FS_Interval
  <2> USE DEF last
  <2> QED
    BY <1>1, <2>2
<1>6. f \in Surjection(S, T)
  BY <1>4, <1>5, FS_Injection
<1>7. n - 1 \in T
  BY <1>1
<1>8. \E x \in S : f[x] = n - 1
  BY <1>6, <1>7 DEF Surjection
<1> QED
  BY <1>8

\* Listed is a list of exactly the elements of the set, each of them once, in
\* the order given (what sort and ORDER BY over a total order promise).
THEOREM ListedIsTheOrder ==
    ASSUME NEW S, IsFiniteSet(S), NEW R, StrictOrder(S, R)
    PROVE  /\ Listed(S, R) \in [1 .. Cardinality(S) -> S]
           /\ Listed(S, R) \in Seq(S)
           /\ Len(Listed(S, R)) = Cardinality(S)
           /\ Cardinality(S) \in Nat
           /\ \A x \in S : \E n \in 1 .. Cardinality(S) : Listed(S, R)[n] = x
           /\ \A m, n \in 1 .. Cardinality(S) :
                 m < n => <<Listed(S, R)[m], Listed(S, R)[n]>> \in R
           /\ \A m, n \in 1 .. Cardinality(S) :
                 Listed(S, R)[m] = Listed(S, R)[n] => m = n
<1> DEFINE L == Listed(S, R)
           N == Cardinality(S)
<1>1. N \in Nat
  BY FS_CardinalityType
<1>2. ASSUME NEW n \in 1 .. N
      PROVE  L[n] \in S /\ Rank(S, R, L[n]) = n - 1
  BY EveryRankIsTaken DEF Listed
<1>3. L \in [1 .. N -> S]
  BY <1>2 DEF Listed
<1>4. ASSUME NEW m \in 1 .. N, NEW n \in 1 .. N, m < n
      PROVE  <<L[m], L[n]>> \in R
  <2>1. L[m] # L[n]
    BY <1>1, <1>2, <1>4
  <2>2. <<L[n], L[m]>> \in R => Rank(S, R, L[n]) < Rank(S, R, L[m])
    BY <1>2, RankGrows
  <2> QED
    BY <1>1, <1>2, <1>4, <2>1, <2>2 DEF StrictOrder
<1>5. ASSUME NEW x \in S PROVE \E n \in 1 .. N : L[n] = x
  <2>1. Rank(S, R, x) + 1 \in 1 .. N
    BY <1>1, RankType
  <2> DEFINE n == Rank(S, R, x) + 1
  <2>2. Rank(S, R, L[n]) = Rank(S, R, x)
    BY <1>1, <1>2, <2>1, RankType
  <2>3. L[n] = x
    <3>1. L[n] \in S
      BY <1>2, <2>1
    <3>2. <<L[n], x>> \notin R /\ <<x, L[n]>> \notin R
      BY <2>2, <3>1, RankGrows, RankType
    <3> QED
      BY <3>1, <3>2 DEF StrictOrder
  <2> QED
    BY <2>1, <2>3
<1>6. ASSUME NEW m \in 1 .. N, NEW n \in 1 .. N, L[m] = L[n] PROVE m = n
  BY <1>1, <1>2, <1>6
<1>7. L \in Seq(S) /\ Len(L) = N
  <2> HIDE DEF L
  <2> QED
    BY <1>1, <1>3
<1> QED
  BY <1>1, <1>3, <1>4, <1>5, <1>6, <1>7

\* Positions are in their natural order.
LEMMA RisingIsStrict ==
    ASSUME NEW P \in SUBSET Nat
    PROVE  StrictOrder(P, Rising(P))
BY DEF StrictOrder, Rising

\* Kept leaves exactly the entries at the positions given, in their order
\* (what filter promises).
THEOREM KeptIsTheFilter ==
    ASSUME NEW T, NEW s \in Seq(T), NEW P \in SUBSET (DOMAIN s)
    PROVE  \E at \in [1 .. Cardinality(P) -> P] :
             /\ Cardinality(P) \in Nat
             /\ Kept(s, P) \in Seq(T)
             /\ Len(Kept(s, P)) = Cardinality(P)
             /\ \A n \in 1 .. Cardinality(P) : Kept(s, P)[n] = s[at[n]]
             /\ \A m, n \in 1 .. Cardinality(P) : m < n => at[m] < at[n]
             /\ \A p \in P : \E n \in 1 .. Cardinality(P) : at[n] = p
<1> DEFINE at == Listed(P, Rising(P))
           N == Cardinality(P)
<1>1. IsFiniteSet(P) /\ P \in SUBSET Nat
  <2>1. Len(s) \in Nat /\ DOMAIN s = 1 .. Len(s)
    OBVIOUS
  <2>2. IsFiniteSet(1 .. Len(s))
    BY <2>1, FS_Interval
  <2> QED
    BY <2>1, <2>2, FS_Subset
<1>2. /\ at \in [1 .. N -> P] /\ N \in Nat
      /\ \A m, n \in 1 .. N : m < n => <<at[m], at[n]>> \in Rising(P)
      /\ \A p \in P : \E n \in 1 .. N : at[n] = p
  BY <1>1, RisingIsStrict, ListedIsTheOrder
<1>3. Kept(s, P) = [n \in 1 .. N |-> s[at[n]]]
  BY DEF Kept
<1> HIDE DEF at
<1>4. \A n \in 1 .. N : s[at[n]] \in T
  BY <1>2
<1>5. Kept(s, P) \in [1 .. N -> T]
  BY <1>3, <1>4
<1>6. Kept(s, P) \in Seq(T) /\ Len(Kept(s, P)) = N
  BY <1>2, <1>5
<1>7. \A m, n \in 1 .. N : m < n => at[m] < at[n]
  BY <1>2 DEF Rising
<1> QED
  BY <1>2, <1>3, <1>6, <1>7

\* Append as a function.
LEMMA AppendIsAFunction ==
    ASSUME NEW D, NEW t \in Seq(D), NEW p \in D, NEW c \in Nat, Len(t) = c
    PROVE  /\ Append(t, p) \in Seq(D)
           /\ Append(t, p) = [k \in 1 .. c + 1 |-> IF k = c + 1 THEN p ELSE t[k]]
<1>0. Append(t, p) \in Seq(D)
  OBVIOUS
<1>1. PICK v : v \in Seq(D) /\ v = Append(t, p)
  BY <1>0, Zenon
<1>2. Len(v) = c + 1
  BY <1>1
<1>3. v \in [1 .. c + 1 -> D]
  <2>1. v \in Seq(D)
    BY <1>1
  <2> QED
    BY <1>2, <2>1
<1>4. \A k \in 1 .. c + 1 : k \in 1 .. c \/ k = c + 1
  OBVIOUS
<1>5. \A k \in 1 .. c : v[k] = t[k] /\ k # c + 1
  BY <1>1
<1>6. v[c + 1] = p
  BY <1>1
<1>7. \A k \in 1 .. c + 1 : v[k] = IF k = c + 1 THEN p ELSE t[k]
  BY <1>4, <1>5, <1>6
<1>8. v = [k \in 1 .. c + 1 |-> v[k]]
  BY <1>3
<1>9. v = [k \in 1 .. c + 1 |-> IF k = c + 1 THEN p ELSE t[k]]
  BY <1>7, <1>8
<1> QED
  BY <1>1, <1>9

\* A last position comes last in the list.
LEMMA ListedWithLast ==
    ASSUME NEW P \in SUBSET Nat, IsFiniteSet(P), NEW n \in Nat, \A p \in P : p < n
    PROVE  /\ Cardinality(P) \in Nat
           /\ Cardinality(P \cup {n}) = Cardinality(P) + 1
           /\ \A m \in 1 .. Cardinality(P) :
                Listed(P \cup {n}, Rising(P \cup {n}))[m] = Listed(P, Rising(P))[m]
           /\ Listed(P \cup {n}, Rising(P \cup {n}))[Cardinality(P) + 1] = n
<1> DEFINE Q == P \cup {n}
           c == Cardinality(P)
<1>1. n \notin P /\ Q \in SUBSET Nat
  OBVIOUS
<1>2. IsFiniteSet(Q) /\ Cardinality(Q) = c + 1 /\ c \in Nat
  BY <1>1, FS_AddElement, FS_CardinalityType
<1>3. StrictOrder(P, Rising(P)) /\ StrictOrder(Q, Rising(Q))
  BY <1>1, RisingIsStrict
<1>4. \A x \in P : Rank(P, Rising(P), x) \in 0 .. c - 1
  BY <1>3, RankType
<1>5. \A x \in P : Rank(Q, Rising(Q), x) = Rank(P, Rising(P), x)
  <2> SUFFICES ASSUME NEW x \in P
               PROVE  {y \in Q : <<y, x>> \in Rising(Q)} = {y \in P : <<y, x>> \in Rising(P)}
    BY DEF Rank
  <2>1. x < n /\ x \in Nat
    OBVIOUS
  <2> QED
    BY <2>1 DEF Rising
<1>6. Rank(Q, Rising(Q), n) = c
  <2>1. \A y \in Q : y < n <=> y \in P
    OBVIOUS
  <2>2. \A y \in Q : <<y, n>> \in Rising(Q) <=> y < n
    BY DEF Rising
  <2>3. {y \in Q : <<y, n>> \in Rising(Q)} = P
    BY <2>1, <2>2
  <2> QED
    BY <2>3 DEF Rank
<1>7. ASSUME NEW m \in 1 .. c
      PROVE  Listed(Q, Rising(Q))[m] = Listed(P, Rising(P))[m]
  <2>1. m \in 1 .. c + 1 /\ m - 1 # c
    BY <1>2
  <2>2. Listed(Q, Rising(Q))[m] = CHOOSE x \in Q : Rank(Q, Rising(Q), x) = m - 1
    BY <1>2, <2>1 DEF Listed
  <2>3. Listed(P, Rising(P))[m] = CHOOSE x \in P : Rank(P, Rising(P), x) = m - 1
    BY DEF Listed
  <2>4. \A x : /\ x \in Q
               /\ Rank(Q, Rising(Q), x) = m - 1
            <=> /\ x \in P
                /\ Rank(P, Rising(P), x) = m - 1
    BY <1>5, <1>6, <2>1
  <2> QED
    BY <2>2, <2>3, <2>4
<1>8. Listed(Q, Rising(Q))[c + 1] = n
  <2>1. c + 1 \in 1 .. c + 1 /\ (c + 1) - 1 = c
    BY <1>2
  <2>2. Listed(Q, Rising(Q))[c + 1] = CHOOSE x \in Q : Rank(Q, Rising(Q), x) = c
    BY <1>2, <2>1 DEF Listed
  <2>3. \A x \in Q : Rank(Q, Rising(Q), x) = c <=> x = n
    BY <1>2, <1>4, <1>5, <1>6
  <2>4. (CHOOSE x \in Q : Rank(Q, Rising(Q), x) = c) = CHOOSE x \in Q : x = n
    BY <2>3
  <2> QED
    BY <2>2, <2>4
<1> QED
  BY <1>2, <1>7, <1>8

\* The list q is the list r with e after it.
Followed(q, r, e) ==
    \E c \in Nat : /\ DOMAIN r = 1 .. c
                   /\ q = [m \in 1 .. c + 1 |-> IF m = c + 1 THEN e ELSE r[m]]

\* Kept of a longer sequence b: the new entry comes last, if it is kept.
LEMMA KeptOfLonger ==
    ASSUME NEW l \in Nat, NEW n \in Nat, n = l + 1, NEW P \in SUBSET (1 .. l),
           NEW s, NEW b, \A k \in 1 .. l : b[k] = s[k]
    PROVE  Kept(b, P) = Kept(s, P) /\ Followed(Kept(b, P \cup {n}), Kept(s, P), b[n])
<1> DEFINE at == Listed(P, Rising(P))
           c == Cardinality(P)
           to == Listed(P \cup {n}, Rising(P \cup {n}))
<1>1. P \in SUBSET Nat /\ \A p \in P : p < n
  OBVIOUS
<1>2. IsFiniteSet(P)
  <2>1. IsFiniteSet(1 .. l)
    BY FS_Interval
  <2> QED
    BY <2>1, FS_Subset
<1>3. at \in [1 .. c -> P] /\ c \in Nat
  BY <1>1, <1>2, RisingIsStrict, ListedIsTheOrder
<1>4. /\ Cardinality(P \cup {n}) = c + 1
      /\ \A m \in 1 .. c : to[m] = at[m]
      /\ to[c + 1] = n
  BY <1>1, <1>2, ListedWithLast
<1> HIDE DEF at, to, c
<1>5. Kept(s, P) = [m \in 1 .. c |-> s[at[m]]]
  BY DEF Kept, at, c
<1>6. Kept(b, P) = [m \in 1 .. c |-> b[at[m]]]
  BY DEF Kept, at, c
<1>7. Kept(b, P \cup {n}) = [m \in 1 .. c + 1 |-> b[to[m]]]
  BY <1>4 DEF Kept, to
<1>8. \A m \in 1 .. c : b[at[m]] = s[at[m]]
  BY <1>3
<1>9. DOMAIN Kept(s, P) = 1 .. c
  BY <1>5
<1>10. Kept(b, P) = Kept(s, P)
  BY <1>5, <1>6, <1>8
<1>11. Kept(b, P \cup {n}) =
          [m \in 1 .. c + 1 |-> IF m = c + 1 THEN b[n] ELSE Kept(s, P)[m]]
  <2>1. \A m \in 1 .. c + 1 : m \in 1 .. c \/ m = c + 1
    BY <1>3
  <2>2. \A m \in 1 .. c : b[to[m]] = Kept(s, P)[m] /\ m # c + 1
    BY <1>3, <1>4, <1>5, <1>8
  <2>3. \A m \in 1 .. c + 1 : b[to[m]] = IF m = c + 1 THEN b[n] ELSE Kept(s, P)[m]
    BY <1>4, <2>1, <2>2
  <2> QED
    BY <1>7, <2>3
<1> QED
  BY <1>3, <1>9, <1>10, <1>11 DEF Followed
=============================================================================
