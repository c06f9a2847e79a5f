------------------------ MODULE PathRequests_proofs ------------------------
(***************************************************************************)
(* Proofs about PathRequests: for every graph, payment and number of paths.*)
(* The sums of fees are sums over finite sets of positions; what is proved *)
(* of them is proved from a smallest set of positions that contradicts it. *)
(***************************************************************************)
EXTENDS PathRequests, FiniteSetTheorems, WellFoundedInduction, SequenceTheorems, TLAPS

------------------------------------------------------------------------------
(* Sums over finite sets.                                                  *)

\* A smallest set of a family.
Smallest(s, family) == \A t \in family : t \subseteq s => t = s

\* Every family of subsets of a finite set has one.
LEMMA SmallestSet ==
    ASSUME NEW S, IsFiniteSet(S), NEW family \in SUBSET SUBSET S, family # {}
    PROVE  \E s \in family : Smallest(s, family)
<1>1. IsWellFoundedOn(StrictSubsetOrdering(S), FiniteSubsetsOf(S))
    BY FS_StrictSubsetOrderingWellFounded
<1>2. FiniteSubsetsOf(S) = SUBSET S
    BY FS_FiniteSubsetsOfFinite
<1>3. \E s \in family : \A t \in family : ~(<<t, s>> \in StrictSubsetOrdering(S))
    BY <1>1, <1>2, WFMin
<1>4. PICK s \in family : \A t \in family : ~(<<t, s>> \in StrictSubsetOrdering(S))
    BY <1>3
<1>5. \A t \in family : t \subseteq s => t = s
  <2>1. SUFFICES ASSUME NEW t \in family, t \subseteq s, t # s
                 PROVE  <<t, s>> \in StrictSubsetOrdering(S)
      BY <1>4
  <2>. QED
      BY <2>1 DEF StrictSubsetOrdering
<1>. QED
    BY <1>4, <1>5 DEF Smallest

\* The element that a fold over a set takes first.
Picked(s) == CHOOSE x \in s : TRUE

\* The function that the fold computes, from the smaller sets to the larger ones.
IsSumOf(sum, w, S) ==
    sum = [s \in SUBSET S |-> IF s = {} THEN 0 ELSE w[Picked(s)] + sum[s \ {Picked(s)}]]

\* The sum of the values of w over a set.
Sum(w, S) == MapThenSumSet(LAMBDA x : w[x], S)

\* It is the value of that function.
LEMMA SumIs == ASSUME NEW w, NEW S PROVE Sum(w, S) = (CHOOSE sum : IsSumOf(sum, w, S))[S]
    BY Zenon DEF Sum, MapThenSumSet, MapThenFoldSet, IsSumOf, Picked

\* The element taken is one of the set.
LEMMA PickedIn == ASSUME NEW s, s # {} PROVE Picked(s) \in s
    BY DEF Picked

\* The function for a set agrees with those for its subsets.
LEMMA SumsAgree ==
    ASSUME NEW S, IsFiniteSet(S), NEW T \in SUBSET S, NEW w, NEW f, NEW g,
           IsSumOf(f, w, S), IsSumOf(g, w, T)
    PROVE  \A s \in SUBSET T : f[s] = g[s]
<1>. DEFINE differing == {s \in SUBSET T : f[s] # g[s]}
<1>1. SUFFICES ASSUME differing # {} PROVE FALSE
    OBVIOUS
<1>2. IsFiniteSet(T)
    BY FS_Subset
<1>3. PICK s \in differing : Smallest(s, differing)
  <2>. HIDE DEF differing
  <2>1. differing \in SUBSET SUBSET T
      BY DEF differing
  <2>. QED
      BY <1>1, <1>2, <2>1, SmallestSet
<1>4. s \in SUBSET T /\ s \in SUBSET S
    OBVIOUS
<1>5. f[s] = IF s = {} THEN 0 ELSE w[Picked(s)] + f[s \ {Picked(s)}]
    BY <1>4 DEF IsSumOf
<1>6. g[s] = IF s = {} THEN 0 ELSE w[Picked(s)] + g[s \ {Picked(s)}]
    BY <1>4 DEF IsSumOf
<1>7. s # {}
    BY <1>5, <1>6
<1>8. Picked(s) \in s
    BY <1>7, PickedIn
<1>9. s \ {Picked(s)} \notin differing
    BY <1>3, <1>8 DEF Smallest
<1>10. f[s \ {Picked(s)}] = g[s \ {Picked(s)}]
    BY <1>9
<1>. QED
    BY <1>5, <1>6, <1>10

\* For a finite set there is such a function.
LEMMA SumExists ==
    ASSUME NEW S, IsFiniteSet(S), NEW w PROVE \E sum : IsSumOf(sum, w, S)
<1>. DEFINE missing == {s \in SUBSET S : ~\E sum : IsSumOf(sum, w, s)}
<1>1. SUFFICES ASSUME missing # {} PROVE FALSE
    OBVIOUS
<1>2. PICK m \in missing : Smallest(m, missing)
  <2>. HIDE DEF missing
  <2>1. missing \in SUBSET SUBSET S
      BY DEF missing
  <2>. QED
      BY <1>1, <2>1, SmallestSet
<1>. DEFINE Of(r) == CHOOSE sum : IsSumOf(sum, w, r)
            Rest(s) == s \ {Picked(s)}
            total == [s \in SUBSET m |-> IF s = {} THEN 0 ELSE w[Picked(s)] + Of(Rest(s))[Rest(s)]]
<1>3. ASSUME NEW r \in SUBSET m, r # m PROVE IsSumOf(Of(r), w, r)
  <2>1. r \notin missing
      BY <1>2, <1>3 DEF Smallest
  <2>2. \E sum : IsSumOf(sum, w, r)
      BY <2>1
  <2>. QED
      BY <2>2
<1>4. ASSUME NEW s \in SUBSET m, s # {}
      PROVE  Rest(s) \in SUBSET m /\ Rest(s) # m /\ Rest(s) \subseteq s
    BY <1>4, PickedIn
<1>5. ASSUME NEW r \in SUBSET m, r # m PROVE total[r] = Of(r)[r]
  <2>. HIDE DEF Of
  <2>1. Of(r)[r] = IF r = {} THEN 0 ELSE w[Picked(r)] + Of(r)[Rest(r)]
      BY <1>3, <1>5 DEF IsSumOf
  <2>2. ASSUME r # {} PROVE Of(r)[Rest(r)] = Of(Rest(r))[Rest(r)]
    <3>1. IsSumOf(Of(Rest(r)), w, Rest(r)) /\ IsSumOf(Of(r), w, r)
        BY <1>3, <1>4, <1>5, <2>2
    <3>2. IsFiniteSet(r)
        BY FS_Subset
    <3>. HIDE DEF Rest
    <3>3. Rest(r) \in SUBSET r
        BY <1>4, <2>2
    <3>. QED
        BY <3>1, <3>2, <3>3, SumsAgree
  <2>. QED
      BY <2>1, <2>2
<1>6. total = [s \in SUBSET m |-> IF s = {} THEN 0 ELSE w[Picked(s)] + total[Rest(s)]]
  <2>1. ASSUME NEW s \in SUBSET m, s # {} PROVE total[Rest(s)] = Of(Rest(s))[Rest(s)]
    <3>. HIDE DEF Of, Rest, total
    <3>. QED
      BY <1>4, <1>5, <2>1
  <2>. HIDE DEF Of, Rest
  <2>2. ASSUME NEW s \in SUBSET m
        PROVE  (IF s = {} THEN 0 ELSE w[Picked(s)] + Of(Rest(s))[Rest(s)])
                 = (IF s = {} THEN 0 ELSE w[Picked(s)] + total[Rest(s)])
    <3>. HIDE DEF total
    <3>. QED BY <2>1
  <2>. QED
      BY <2>2, Zenon
<1>7. IsSumOf(total, w, m)
  <2>. HIDE DEF total
  <2>. QED
    BY <1>6 DEF IsSumOf
<1>. QED
  <2>. HIDE DEF total
  <2>. QED
    BY <1>2, <1>7

\* The recursion, for the sum itself.
LEMMA SumPicked ==
    ASSUME NEW S, IsFiniteSet(S), NEW w
    PROVE  Sum(w, S) = IF S = {} THEN 0 ELSE w[Picked(S)] + Sum(w, S \ {Picked(S)})
<1>. DEFINE Of(r) == CHOOSE sum : IsSumOf(sum, w, r)
            rest == S \ {Picked(S)}
<1>1. IsFiniteSet(rest)
    BY FS_RemoveElement
<1>2. IsSumOf(Of(S), w, S)
    BY SumExists
<1>3. IsSumOf(Of(rest), w, rest)
    BY <1>1, SumExists
<1>4. Sum(w, S) = Of(S)[S] /\ Sum(w, rest) = Of(rest)[rest]
    BY SumIs
<1>. HIDE DEF Of
<1>5. Of(S)[rest] = Of(rest)[rest]
  <2>. HIDE DEF rest
  <2>1. rest \in SUBSET S
    BY DEF rest
  <2>. QED
    BY <1>2, <1>3, <2>1, SumsAgree
<1>6. Of(S)[S] = IF S = {} THEN 0 ELSE w[Picked(S)] + Of(S)[rest]
    BY <1>2 DEF IsSumOf
<1>. QED
    BY <1>4, <1>5, <1>6

\* A sum of amounts is an amount.
LEMMA SumNatural ==
    ASSUME NEW S, IsFiniteSet(S), NEW w, \A x \in S : w[x] \in Nat
    PROVE  Sum(w, S) \in Nat
<1>. DEFINE wrong == {s \in SUBSET S : Sum(w, s) \notin Nat}
<1>1. SUFFICES ASSUME wrong # {} PROVE FALSE
    OBVIOUS
<1>2. PICK s \in wrong : Smallest(s, wrong)
  <2>. HIDE DEF wrong
  <2>1. wrong \in SUBSET SUBSET S
      BY DEF wrong
  <2>. QED
      BY <1>1, <2>1, SmallestSet
<1>3. IsFiniteSet(s)
    BY FS_Subset
<1>4. Sum(w, s) = IF s = {} THEN 0 ELSE w[Picked(s)] + Sum(w, s \ {Picked(s)})
    BY <1>3, SumPicked
<1>5. s # {}
    BY <1>4
<1>6. Picked(s) \in s
    BY <1>5, PickedIn
<1>7. s \ {Picked(s)} \notin wrong
    BY <1>2, <1>6 DEF Smallest
<1>8. Sum(w, s \ {Picked(s)}) \in Nat /\ w[Picked(s)] \in Nat
    BY <1>6, <1>7
<1>. QED
    BY <1>4, <1>8

\* The order does not matter: any element can be taken first.
LEMMA SumRemove ==
    ASSUME NEW S, IsFiniteSet(S), NEW w, \A x \in S : w[x] \in Nat, NEW x \in S
    PROVE  Sum(w, S) = w[x] + Sum(w, S \ {x})
<1>. DEFINE wrong == {s \in SUBSET S : \E y \in s : Sum(w, s) # w[y] + Sum(w, s \ {y})}
<1>1. SUFFICES ASSUME wrong # {} PROVE FALSE
    OBVIOUS
<1>2. PICK s \in wrong : Smallest(s, wrong)
  <2>. HIDE DEF wrong
  <2>1. wrong \in SUBSET SUBSET S
      BY DEF wrong
  <2>. QED
      BY <1>1, <2>1, SmallestSet
<1>3. PICK y \in s : Sum(w, s) # w[y] + Sum(w, s \ {y})
    BY <1>2
<1>. DEFINE z == Picked(s)
<1>4. z \in s
    BY <1>3, PickedIn
<1>5. IsFiniteSet(s) /\ IsFiniteSet(s \ {y}) /\ IsFiniteSet(s \ {y, z}) /\ IsFiniteSet(s \ {z})
    BY FS_Subset
<1>6. Sum(w, s) = w[z] + Sum(w, s \ {z})
    BY <1>3, <1>5, SumPicked
<1>. HIDE DEF z
<1>7. y # z
    BY <1>3, <1>6
<1>8. s \ {z} \notin wrong /\ s \ {y} \notin wrong
    BY <1>2, <1>4 DEF Smallest
<1>9. Sum(w, s \ {z}) = w[y] + Sum(w, (s \ {z}) \ {y})
    BY <1>3, <1>7, <1>8
<1>10. Sum(w, s \ {y}) = w[z] + Sum(w, (s \ {y}) \ {z})
    BY <1>4, <1>7, <1>8
<1>11. (s \ {y}) \ {z} = s \ {y, z} /\ (s \ {z}) \ {y} = s \ {y, z}
    OBVIOUS
<1>12. Sum(w, s \ {y, z}) \in Nat /\ w[y] \in Nat /\ w[z] \in Nat
    BY <1>4, <1>5, SumNatural
<1>13. Sum(w, s \ {z}) = w[y] + Sum(w, s \ {y, z}) /\ Sum(w, s \ {y}) = w[z] + Sum(w, s \ {y, z})
    BY <1>9, <1>10, <1>11
<1>. HIDE DEF wrong
<1>. QED
    BY <1>3, <1>6, <1>12, <1>13

\* The sum over two disjoint sets.
LEMMA SumUnion ==
    ASSUME NEW S, IsFiniteSet(S), NEW T, IsFiniteSet(T), S \cap T = {},
           NEW w, \A x \in S \cup T : w[x] \in Nat
    PROVE  Sum(w, S \cup T) = Sum(w, S) + Sum(w, T)
<1>. DEFINE wrong == {s \in SUBSET S : Sum(w, s \cup T) # Sum(w, s) + Sum(w, T)}
<1>1. SUFFICES ASSUME wrong # {} PROVE FALSE
    OBVIOUS
<1>2. PICK s \in wrong : Smallest(s, wrong)
  <2>. HIDE DEF wrong
  <2>1. wrong \in SUBSET SUBSET S
      BY DEF wrong
  <2>. QED
      BY <1>1, <2>1, SmallestSet
<1>3. s \in SUBSET S /\ Sum(w, s \cup T) # Sum(w, s) + Sum(w, T)
    BY <1>2
<1>4. IsFiniteSet(s) /\ IsFiniteSet(s \cup T) /\ Sum(w, T) \in Nat
    BY <1>3, FS_Subset, FS_Union, SumNatural
<1>5. s # {}
  <2>1. SUFFICES ASSUME s = {} PROVE FALSE
      OBVIOUS
  <2>2. Sum(w, s) = 0 /\ s \cup T = T
      BY <1>4, <2>1, SumPicked
  <2>. HIDE DEF wrong
  <2>. QED
      BY <1>3, <1>4, <2>2
<1>6. PICK x \in s : TRUE
    BY <1>5
<1>7. s \ {x} \notin wrong
    BY <1>2, <1>6 DEF Smallest
<1>8. Sum(w, (s \ {x}) \cup T) = Sum(w, s \ {x}) + Sum(w, T)
    BY <1>3, <1>7
<1>. HIDE DEF wrong
<1>9. (s \cup T) \ {x} = (s \ {x}) \cup T
    BY <1>3, <1>6
<1>10. Sum(w, s) = w[x] + Sum(w, s \ {x}) /\ Sum(w, s \cup T) = w[x] + Sum(w, (s \cup T) \ {x})
    BY <1>3, <1>4, <1>6, SumRemove
<1>11. w[x] \in Nat /\ Sum(w, s \ {x}) \in Nat
  <2>1. IsFiniteSet(s \ {x})
      BY <1>4, FS_RemoveElement
  <2>. QED
      BY <1>3, <1>6, <2>1, SumNatural
<1>12. Sum(w, s \cup T) = w[x] + (Sum(w, s \ {x}) + Sum(w, T))
    BY <1>8, <1>9, <1>10, Zenon
<1>13. PICK a, b, c : a = w[x] /\ b = Sum(w, s \ {x}) /\ c = Sum(w, T)
    OBVIOUS
<1>14. a + (b + c) = (a + b) + c
    BY <1>4, <1>11, <1>13
<1>. QED
    BY <1>3, <1>10, <1>12, <1>13, <1>14, Zenon

------------------------------------------------------------------------------
(* Routes.                                                                 *)

\* A route is a sequence of at least two nodes; each of its hops is an edge,
\* and so is the way back.
LEMMA RouteShape ==
    ASSUME NEW p \in Routes
    PROVE  /\ p \in Seq(Nodes) /\ Len(p) \in Nat /\ Len(p) >= 2 /\ DOMAIN p = 1 .. Len(p)
           /\ p[1] = Source /\ p[Len(p)] = Target
           /\ \A i \in 1 .. Len(p) : p[i] \in Nodes
           /\ \A i \in 1 .. Len(p) - 1 :
                 /\ <<p[i], p[i + 1]>> \in Edges /\ <<p[i], p[i + 1]>> \in Hops(p)
                 /\ <<p[i + 1], p[i]>> \in Edges
<1>1. PICK n \in 2 .. Cardinality(Nodes) : p \in [1 .. n -> Nodes]
    BY DEF Routes, Walks
<1>2. n \in Nat /\ n >= 2
    BY <1>1
<1>3. p \in Seq(Nodes) /\ Len(p) = n /\ DOMAIN p = 1 .. n
    BY <1>1, <1>2
<1>4. p[1] = Source /\ p[Len(p)] = Target /\ Hops(p) \subseteq Edges
    BY DEF Routes
<1>5. \A i \in 1 .. Len(p) : p[i] \in Nodes
    BY <1>1, <1>3
<1>6. ASSUME NEW i \in 1 .. Len(p) - 1
      PROVE  /\ <<p[i], p[i + 1]>> \in Edges /\ <<p[i], p[i + 1]>> \in Hops(p)
             /\ <<p[i + 1], p[i]>> \in Edges
  <2>1. <<p[i], p[i + 1]>> \in Hops(p)
      BY DEF Hops
  <2>2. i \in 1 .. Len(p) /\ i + 1 \in 1 .. Len(p)
      BY <1>2, <1>3
  <2>3. {p[i], p[i + 1]} \in Channels
      BY <1>4, <2>1 DEF Edges
  <2>4. {p[i + 1], p[i]} = {p[i], p[i + 1]}
      OBVIOUS
  <2>. QED
      BY <1>4, <1>5, <2>1, <2>2, <2>3, <2>4 DEF Edges
<1>. QED
    BY <1>2, <1>3, <1>4, <1>5, <1>6

\* What the mediators of p keep, by their positions.
Keeps(p) == [i \in 2 .. Len(p) - 1 |-> Kept(p, i)]

\* What has to be sent over hop i: the value and the fees behind it.
Needed(p, i) == value + Sum(Keeps(p), i + 1 .. Len(p) - 1)

\* The fees of mediators are amounts.
LEMMA KeepsNatural ==
    ASSUME TypeOK, NEW p \in Routes, NEW i \in 2 .. Len(p) - 1
    PROVE  Keeps(p)[i] = fee[<<p[i], p[i - 1]>>] + fee[<<p[i], p[i + 1]>>] /\ Keeps(p)[i] \in Nat
<1>1. Len(p) \in Nat /\ i \in 1 .. Len(p) - 1 /\ i - 1 \in 1 .. Len(p) - 1 /\ (i - 1) + 1 = i
    BY RouteShape
<1>2. <<p[i], p[i + 1]>> \in Edges /\ <<p[i], p[i - 1]>> \in Edges
    BY <1>1, RouteShape
<1>. QED
    BY <1>2 DEF Keeps, Kept, TypeOK

\* The fees kept at a set of positions add up to an amount.
LEMMA SumOfKeeps ==
    ASSUME TypeOK, NEW p \in Routes, NEW S \in SUBSET (2 .. Len(p) - 1)
    PROVE  IsFiniteSet(S) /\ Sum(Keeps(p), S) \in Nat
<1>1. Len(p) \in Nat
    BY RouteShape
<1>2. IsFiniteSet(S)
  <2>1. IsFiniteSet(2 .. Len(p) - 1)
      BY <1>1, FS_Interval
  <2>. QED
      BY <2>1, FS_Subset
<1>. QED
    BY <1>2, KeepsNatural, SumNatural

\* The model's sums of fees are these sums.
LEMMA SumOfKept ==
    ASSUME NEW p, NEW S \in SUBSET (2 .. Len(p) - 1)
    PROVE  MapThenSumSet(LAMBDA j : Kept(p, j), S) = Sum(Keeps(p), S)
<1>. DEFINE w == Keeps(p)
            F(sum) == [s \in SUBSET S |-> IF s = {} THEN 0 ELSE w[Picked(s)] + sum[s \ {Picked(s)}]]
            H(sum) == [s \in SUBSET S |-> IF s = {} THEN 0 ELSE Kept(p, Picked(s)) + sum[s \ {Picked(s)}]]
<1>1. ASSUME NEW sum PROVE F(sum) = H(sum)
  <2>1. ASSUME NEW j \in S PROVE w[j] = Kept(p, j)
      BY DEF Keeps
  <2>. HIDE DEF w
  <2>2. ASSUME NEW s \in SUBSET S
        PROVE  (IF s = {} THEN 0 ELSE w[Picked(s)] + sum[s \ {Picked(s)}])
                   = (IF s = {} THEN 0 ELSE Kept(p, Picked(s)) + sum[s \ {Picked(s)}])
      BY <2>1, PickedIn
  <2>. QED
      BY <2>2, Zenon
<1>2. MapThenSumSet(LAMBDA j : Kept(p, j), S) = (CHOOSE sum : sum = H(sum))[S]
    BY Zenon DEF MapThenSumSet, MapThenFoldSet, Picked
<1>3. Sum(w, S) = (CHOOSE sum : sum = F(sum))[S]
    BY Zenon, SumIs DEF IsSumOf
<1>. HIDE DEF F, H
<1>. QED
    BY <1>1, <1>2, <1>3, Zenon

\* The next mediator's fee adds to what is needed behind it.
LEMMA NeededStep ==
    ASSUME TypeOK, NEW p \in Routes, NEW i \in 1 .. Len(p) - 1
    PROVE  /\ Needed(p, i) \in Nat /\ Needed(p, i) >= value
           /\ i = Len(p) - 1 => Needed(p, i) = value
           /\ i < Len(p) - 1 => Needed(p, i) = Keeps(p)[i + 1] + Needed(p, i + 1)
<1>. DEFINE n == Len(p)
            w == Keeps(p)
<1>1. n \in Nat /\ n >= 2
    BY RouteShape
<1>2. (i + 1 .. n - 1) \in SUBSET (2 .. n - 1) /\ ((i + 1) + 1 .. n - 1) \in SUBSET (2 .. n - 1)
    BY <1>1
<1>. HIDE DEF n, w
<1>3. /\ Sum(w, i + 1 .. n - 1) \in Nat /\ IsFiniteSet(i + 1 .. n - 1)
      /\ Sum(w, (i + 1) + 1 .. n - 1) \in Nat
    BY <1>2, SumOfKeeps DEF n, w
<1>4. ASSUME i = n - 1 PROVE Sum(w, i + 1 .. n - 1) = 0
  <2>1. i + 1 .. n - 1 = {}
      BY <1>1, <1>4
  <2>. QED
      BY <1>3, <2>1, SumPicked
<1>5. ASSUME i < n - 1
      PROVE  Sum(w, i + 1 .. n - 1) = w[i + 1] + Sum(w, (i + 1) + 1 .. n - 1) /\ w[i + 1] \in Nat
  <2>1. i + 1 \in i + 1 .. n - 1 /\ (i + 1 .. n - 1) \ {i + 1} = (i + 1) + 1 .. n - 1
      BY <1>1, <1>5 DEF n
  <2>2. \A x \in i + 1 .. n - 1 : w[x] \in Nat
      BY <1>2, KeepsNatural DEF n, w
  <2>3. Sum(w, i + 1 .. n - 1) = w[i + 1] + Sum(w, (i + 1 .. n - 1) \ {i + 1})
      BY <1>3, <2>1, <2>2, SumRemove
  <2>. QED
      BY <2>1, <2>2, <2>3
<1>6. value \in Nat
    BY DEF TypeOK
<1>7. Needed(p, i) = value + Sum(w, i + 1 .. n - 1) /\ Needed(p, i + 1) = value + Sum(w, (i + 1) + 1 .. n - 1)
    BY DEF Needed, n, w
<1>8. Needed(p, i) \in Nat /\ Needed(p, i) >= value
    BY <1>3, <1>6, <1>7
<1>9. i = n - 1 => Needed(p, i) = value
    BY <1>4, <1>6, <1>7
<1>10. i < n - 1 => Needed(p, i) = w[i + 1] + Needed(p, i + 1)
    BY <1>3, <1>5, <1>6, <1>7
<1>. QED
    BY <1>8, <1>9, <1>10 DEF n, w

\* The recursion of _calculate_fees, from the last hop back to the first.
Backwards(p, total) ==
    [i \in 1 .. Len(p) - 1 |->
        IF i = Len(p) - 1
        THEN value
        ELSE AmountWithFees(total[i + 1], fee[<<p[i + 1], p[i]>>], fee[<<p[i + 1], p[i + 2]>>])]

\* The amounts computed backwards are what is needed for every hop.
LEMMA AmountsNeeded ==
    ASSUME TypeOK, NEW p \in Routes
    PROVE  \A i \in 1 .. Len(p) - 1 : Amounts(p)[i] = Needed(p, i)
<1>. DEFINE n == Len(p)
            closed == [i \in 1 .. n - 1 |-> Needed(p, i)]
            A == Amounts(p)
<1>1. n \in Nat /\ n >= 2
    BY RouteShape
<1>2. ASSUME NEW i \in 1 .. n - 1, i # n - 1, NEW t
      PROVE  /\ i + 1 \in 2 .. n - 1 /\ i + 1 \in 1 .. n - 1 /\ i < n - 1
             /\ fee[<<p[i + 1], p[i]>>] \in Nat /\ fee[<<p[i + 1], p[i + 2]>>] \in Nat
             /\ Keeps(p)[i + 1] = fee[<<p[i + 1], p[i]>>] + fee[<<p[i + 1], p[i + 2]>>]
  <2>1. i + 1 \in 2 .. n - 1 /\ i + 1 \in 1 .. n - 1 /\ i < n - 1 /\ (i + 1) - 1 = i /\ (i + 1) + 1 = i + 2
      BY <1>1, <1>2
  <2>2. Keeps(p)[i + 1] = fee[<<p[i + 1], p[(i + 1) - 1]>>] + fee[<<p[i + 1], p[(i + 1) + 1]>>]
      BY <2>1, KeepsNatural
  <2>3. <<p[i + 1], p[i]>> \in Edges /\ <<p[i + 1], p[(i + 1) + 1]>> \in Edges
      BY <2>1, RouteShape
  <2>. QED
      BY <2>1, <2>2, <2>3 DEF TypeOK
<1>3. closed = Backwards(p, closed)
  <2>1. ASSUME NEW i \in 1 .. n - 1 PROVE closed[i] = Backwards(p, closed)[i]
    <3>1. CASE i = n - 1
        BY <3>1, NeededStep DEF Backwards
    <3>2. CASE i # n - 1
      <4>1. closed[i] = Keeps(p)[i + 1] + closed[i + 1] /\ closed[i + 1] \in Nat
          BY <1>2, <3>2, NeededStep
      <4>. HIDE DEF closed
      <4>2. Backwards(p, closed)[i] = closed[i + 1] + fee[<<p[i + 1], p[i]>>] + fee[<<p[i + 1], p[i + 2]>>]
          BY <3>2 DEF Backwards, AmountWithFees
      <4>. QED
          BY <1>2, <3>2, <4>1, <4>2
    <3>. QED
        BY <3>1, <3>2
  <2>2. closed = [i \in 1 .. n - 1 |-> closed[i]]
      OBVIOUS
  <2>3. Backwards(p, closed) = [i \in 1 .. n - 1 |-> Backwards(p, closed)[i]]
      BY DEF Backwards
  <2>. HIDE DEF closed
  <2>. QED
      BY <2>1, <2>2, <2>3, Zenon
<1>4. A = Backwards(p, A)
  <2>1. A = CHOOSE t : t = Backwards(p, t)
      BY Zenon DEF Amounts, Backwards
  <2>2. \E t : t = Backwards(p, t)
    <3>. HIDE DEF closed
    <3>. QED
      BY <1>3
  <2>. HIDE DEF A
  <2>. QED
      BY <2>1, <2>2, Zenon
<1>. HIDE DEF A, closed
<1>. DEFINE family == {k .. n - 1 : k \in {k \in 1 .. n - 1 : A[k] # closed[k]}}
<1>5. SUFFICES ASSUME family # {} PROVE FALSE
    BY DEF A, closed
<1>6. PICK s \in family : Smallest(s, family)
  <2>1. IsFiniteSet(1 .. n - 1)
      BY <1>1, FS_Interval
  <2>2. family \in SUBSET SUBSET (1 .. n - 1)
      BY <1>1
  <2>. HIDE DEF family
  <2>. QED
      BY <1>5, <2>1, <2>2, SmallestSet
<1>7. PICK k \in 1 .. n - 1 : s = k .. n - 1 /\ A[k] # closed[k]
    BY <1>6
<1>8. A[k] = Backwards(p, A)[k] /\ closed[k] = Backwards(p, closed)[k]
    BY <1>3, <1>4
<1>9. k # n - 1
    BY <1>7, <1>8 DEF Backwards
<1>10. A[k + 1] # closed[k + 1]
    BY <1>2, <1>7, <1>8, <1>9 DEF Backwards
<1>11. k + 1 \in 1 .. n - 1
    BY <1>2, <1>9
<1>12. (k + 1 .. n - 1) \in family
    BY <1>10, <1>11
<1>13. (k + 1 .. n - 1) \subseteq s /\ k \in s /\ k \notin (k + 1 .. n - 1)
    BY <1>1, <1>7
<1>. QED
    BY <1>6, <1>12, <1>13 DEF Smallest

\* A path can carry the payment: each hop has the capacity for the value and
\* for the fees behind it.
Carries(p) == \A i \in 1 .. Len(p) - 1 : Needed(p, i) <= capacity[<<p[i], p[i + 1]>>]

\* _check_validity_and_calculate_fees and _get_address_metadata accept exactly
\* the paths that can carry the payment and whose nodes are there.
LEMMA ValidCarries ==
    ASSUME TypeOK, NEW p \in Routes
    PROVE  IsValid(p) <=> Carries(p) /\ ToSet(p) \subseteq present
<1>1. Len(p) \in Nat /\ Len(p) >= 2 /\ value \in Nat
    BY RouteShape DEF TypeOK
<1>2. \A i \in 1 .. Len(p) - 1 : <<p[i], p[i + 1]>> \in Edges /\ capacity[<<p[i], p[i + 1]>>] \in Nat
    BY RouteShape DEF TypeOK
<1>3. (\A e \in Hops(p) : capacity[e] >= value)
        <=> \A i \in 1 .. Len(p) - 1 : capacity[<<p[i], p[i + 1]>>] >= value
    BY DEF Hops
<1>4. (\A i \in 1 .. Len(p) - 2 : Amounts(p)[i] <= capacity[<<p[i], p[i + 1]>>])
        <=> \A i \in 1 .. Len(p) - 2 : Needed(p, i) <= capacity[<<p[i], p[i + 1]>>]
  <2>1. \A i \in 1 .. Len(p) - 2 : i \in 1 .. Len(p) - 1
      BY <1>1
  <2>. QED
      BY <2>1, AmountsNeeded
<1>5. ASSUME NEW i \in 1 .. Len(p) - 1
      PROVE  /\ Needed(p, i) \in Nat /\ Needed(p, i) >= value
             /\ i \notin 1 .. Len(p) - 2 => Needed(p, i) = value
    BY <1>1, NeededStep
<1>6. ASSUME Carries(p)
      PROVE  /\ \A i \in 1 .. Len(p) - 1 : capacity[<<p[i], p[i + 1]>>] >= value
             /\ \A i \in 1 .. Len(p) - 2 : Needed(p, i) <= capacity[<<p[i], p[i + 1]>>]
  <2>1. ASSUME NEW i \in 1 .. Len(p) - 1
        PROVE  capacity[<<p[i], p[i + 1]>>] >= value
    <3>1. Needed(p, i) <= capacity[<<p[i], p[i + 1]>>]
        BY <1>6 DEF Carries
    <3>. QED
        BY <1>1, <1>2, <1>5, <3>1
  <2>2. ASSUME NEW i \in 1 .. Len(p) - 2
        PROVE  Needed(p, i) <= capacity[<<p[i], p[i + 1]>>]
    <3>1. i \in 1 .. Len(p) - 1
        BY <1>1
    <3>. QED
        BY <1>6, <3>1 DEF Carries
  <2>. QED
      BY <2>1, <2>2
<1>7. ASSUME \A i \in 1 .. Len(p) - 1 : capacity[<<p[i], p[i + 1]>>] >= value,
             \A i \in 1 .. Len(p) - 2 : Needed(p, i) <= capacity[<<p[i], p[i + 1]>>]
      PROVE  Carries(p)
  <2>1. SUFFICES ASSUME NEW i \in 1 .. Len(p) - 1
                 PROVE  Needed(p, i) <= capacity[<<p[i], p[i + 1]>>]
      BY DEF Carries
  <2>2. CASE i \in 1 .. Len(p) - 2
      BY <1>7, <2>2
  <2>3. CASE i \notin 1 .. Len(p) - 2
      BY <1>2, <1>5, <1>7, <2>3
  <2>. QED
      BY <2>2, <2>3
<1>. QED
    BY <1>3, <1>4, <1>6, <1>7 DEF IsValid

\* What arrives over a hop, sent forward with the estimated fee, is what is
\* needed there.
LEMMA ArrivesNeeded ==
    ASSUME TypeOK, NEW p \in Routes, NEW i \in 1 .. Len(p) - 1
    PROVE  Arrives(p, i) = Needed(p, i)
<1>. DEFINE n == Len(p)
            w == Keeps(p)
<1>1. n \in Nat /\ n >= 2 /\ value \in Nat /\ 1 \in 1 .. n - 1
    BY RouteShape DEF TypeOK
<1>2. /\ (2 .. i) \in SUBSET (2 .. n - 1) /\ (i + 1 .. n - 1) \in SUBSET (2 .. n - 1)
      /\ 2 .. n - 1 = (2 .. i) \cup (i + 1 .. n - 1) /\ (2 .. i) \cap (i + 1 .. n - 1) = {}
      /\ (2 .. n - 1) \in SUBSET (2 .. n - 1) /\ 1 + 1 = 2
    BY <1>1
<1>. HIDE DEF n, w
<1>3. /\ IsFiniteSet(2 .. i) /\ Sum(w, 2 .. i) \in Nat
      /\ IsFiniteSet(i + 1 .. n - 1) /\ Sum(w, i + 1 .. n - 1) \in Nat
      /\ Sum(w, 2 .. n - 1) \in Nat
    BY <1>2, SumOfKeeps DEF n, w
<1>4. Sum(w, 2 .. n - 1) = Sum(w, 2 .. i) + Sum(w, i + 1 .. n - 1)
  <2>1. \A x \in (2 .. i) \cup (i + 1 .. n - 1) : w[x] \in Nat
      BY <1>2, KeepsNatural DEF n, w
  <2>2. Sum(w, (2 .. i) \cup (i + 1 .. n - 1)) = Sum(w, 2 .. i) + Sum(w, i + 1 .. n - 1)
      BY <1>2, <1>3, <2>1, SumUnion
  <2>. QED
      BY <1>2, <2>2
<1>5. EstimatedFee(p) = Sum(w, 2 .. n - 1)
  <2>1. EstimatedFee(p) = Needed(p, 1) - value
      BY <1>1, AmountsNeeded DEF EstimatedFee, n
  <2>2. Needed(p, 1) = value + Sum(w, 2 .. n - 1)
      BY <1>2 DEF Needed, n, w
  <2>. QED
      BY <1>1, <1>3, <2>1, <2>2
<1>6. Arrives(p, i) = value + EstimatedFee(p) - Sum(w, 2 .. i)
  <2>1. MapThenSumSet(LAMBDA j : Kept(p, j), 2 .. i) = Sum(w, 2 .. i)
      BY <1>2, SumOfKept DEF n, w
  <2>2. Arrives(p, i) = value + EstimatedFee(p) - MapThenSumSet(LAMBDA j : Kept(p, j), 2 .. i)
      BY Zenon DEF Arrives
  <2>. QED
      BY <2>1, <2>2, Zenon
<1>7. Needed(p, i) = value + Sum(w, i + 1 .. n - 1)
    BY DEF Needed, n, w
<1>. QED
    BY <1>1, <1>3, <1>4, <1>5, <1>6, <1>7

\* A usable path, in terms of what is needed for every hop.
Fits(p) == Hops(p) \subseteq G /\ ToSet(p) \subseteq reachable \cap present /\ Carries(p)

\* These are the usable paths.
LEMMA UsableFits ==
    ASSUME NEW p \in Routes
    PROVE  Usable(p) <=> Fits(p)
<1>1. Len(p) \in Nat /\ Len(p) >= 2
    BY RouteShape
<1>2. ASSUME NEW i \in 1 .. Len(p) - 1
      PROVE  Needed(p, i) = value + MapThenSumSet(LAMBDA j : Kept(p, j), i + 1 .. Len(p) - 1)
  <2>1. (i + 1 .. Len(p) - 1) \in SUBSET (2 .. Len(p) - 1)
      BY <1>1
  <2>2. MapThenSumSet(LAMBDA j : Kept(p, j), i + 1 .. Len(p) - 1) = Sum(Keeps(p), i + 1 .. Len(p) - 1)
      BY <2>1, SumOfKept
  <2>. QED
      BY <2>2, Zenon DEF Needed
<1>. QED
    BY <1>2, Zenon DEF Usable, Fits, Carries

------------------------------------------------------------------------------
(* The search.                                                             *)

\* A path that fits is found by the search, unless it was found before.
LEMMA FitsIsCandidate ==
    ASSUME TypeOK, NEW p \in Routes, Fits(p), p \notin ToSet(paths)
    PROVE  p \in Candidates
<1>1. IsValid(p)
    BY ValidCarries DEF Fits
<1>2. ASSUME NEW e \in Hops(p) PROVE e \in PrunedGraph
  <2>1. PICK i \in 1 .. Len(p) - 1 : e = <<p[i], p[i + 1]>>
      BY DEF Hops
  <2>2. Len(p) \in Nat /\ DOMAIN p = 1 .. Len(p) /\ i \in 1 .. Len(p) /\ i + 1 \in 1 .. Len(p)
      BY RouteShape
  <2>3. p[i] \in reachable /\ p[i + 1] \in reachable
      BY <2>2 DEF Fits, ToSet
  <2>4. e \in G /\ e[1] = p[i] /\ e[2] = p[i + 1]
      BY <2>1 DEF Fits
  <2>. QED
      BY <2>3, <2>4 DEF PrunedGraph
<1>. QED
    BY <1>1, <1>2 DEF Candidates, SimplePaths

\* check_path_request_errors refuses nothing that fits: the first and the last
\* hop have the capacity for the value.
LEMMA RefusedFitsNot ==
    ASSUME TypeOK, Refused, NEW p \in Routes, Fits(p)
    PROVE  FALSE
<1>. DEFINE n == Len(p)
            first == <<p[1], p[1 + 1]>>
            last == <<p[n - 1], p[(n - 1) + 1]>>
<1>1. /\ n \in Nat /\ n >= 2 /\ DOMAIN p = 1 .. n /\ p[1] = Source /\ p[n] = Target
      /\ 1 \in 1 .. n - 1 /\ n - 1 \in 1 .. n - 1 /\ (n - 1) + 1 = n
    BY RouteShape
<1>2. first \in Hops(p) /\ last \in Hops(p) /\ first \in Edges /\ last \in Edges
    BY <1>1, RouteShape
<1>3. first \in From(Source) /\ last \in To(Target)
    BY <1>1, <1>2 DEF From, To, Fits
<1>4. Needed(p, 1) <= capacity[first] /\ Needed(p, n - 1) <= capacity[last]
    BY <1>1 DEF Fits, Carries
<1>. HIDE DEF n
<1>5. /\ Needed(p, 1) >= value /\ Needed(p, n - 1) >= value
      /\ Needed(p, 1) \in Nat /\ Needed(p, n - 1) \in Nat /\ value \in Nat
    BY <1>1, NeededStep DEF n, TypeOK
<1>6. capacity[first] \in Nat /\ capacity[last] \in Nat
    BY <1>2 DEF TypeOK
<1>. HIDE DEF first, last
<1>7. ~(capacity[first] < value) /\ ~(capacity[last] < value)
    BY <1>4, <1>5, <1>6
<1>8. {Source, Target} \subseteq reachable
    BY <1>1 DEF Fits, ToSet
<1>9. p \in SimplePaths(G)
    BY DEF Fits, SimplePaths
<1>. QED
    BY <1>3, <1>7, <1>8, <1>9 DEF Refused

\* The graph and the request do not change, and with them what fits.
LEMMA GraphStays ==
    ASSUME UNCHANGED graph, NEW p
    PROVE  (Carries(p)' <=> Carries(p)) /\ (Fits(p)' <=> Fits(p))
<1>1. /\ open' = open /\ capacity' = capacity /\ fee' = fee /\ reachable' = reachable
      /\ present' = present /\ value' = value
    BY DEF graph
<1>2. Keeps(p)' = Keeps(p)
    BY <1>1 DEF Keeps, Kept
<1>3. ASSUME NEW i PROVE Needed(p, i)' = Needed(p, i)
    BY <1>1, <1>2 DEF Needed
<1>4. Carries(p)' <=> Carries(p)
    BY <1>1, <1>3 DEF Carries
<1>. QED
    BY <1>1, <1>4 DEF Fits, G

------------------------------------------------------------------------------
(* The inductive invariant.                                                *)

\* The paths are a sequence of routes, and each of them can carry the payment.
FoundInv == paths \in Seq(Routes) /\ \A p \in ToSet(paths) : Carries(p)

\* A request is refused, or answered with fewer paths than asked for, when
\* nothing else fits; the search decides that before rows are written.
CompleteInv ==
    /\ pc \in {"refused", "not_found"} => \A p \in Routes : ~Fits(p)
    /\ pc \in {"store", "answered"} /\ Len(paths) < max_paths =>
          \A p \in Routes : Fits(p) => p \in ToSet(paths)

\* The rows are those of the first paths, and of all when the answer is given.
RowsInv ==
    /\ pc \in {"request", "search", "refused", "not_found"} => Stored = {}
    /\ pc = "store" => \E k \in 0 .. Len(paths) : Stored = {paths[j] : j \in 1 .. k}
    /\ pc = "answered" => Stored = ToSet(paths)

\* The inductive invariant.
PInv == TypeOK /\ FoundInv /\ CompleteInv /\ RowsInv

\* The rows of the first k paths are k rows.
LEMMA CountRows ==
    ASSUME paths \in Seq(Routes), IsInjective(paths), NEW k \in 0 .. Len(paths)
    PROVE  Cardinality({paths[j] : j \in 1 .. k}) = k
<1>. DEFINE rows == {paths[j] : j \in 1 .. k}
            f == [j \in 1 .. k |-> paths[j]]
<1>1. k \in Nat /\ DOMAIN paths = 1 .. Len(paths) /\ (1 .. k) \subseteq DOMAIN paths
    OBVIOUS
<1>2. f \in Bijection(1 .. k, rows)
  <2>1. f \in [1 .. k -> rows]
      OBVIOUS
  <2>2. \A a, b \in 1 .. k : f[a] = f[b] => a = b
      BY <1>1 DEF IsInjective
  <2>3. \A r \in rows : \E j \in 1 .. k : f[j] = r
      OBVIOUS
  <2>. QED
      BY <2>1, <2>2, <2>3 DEF Bijection, Injection, Surjection, IsInjective
<1>3. ExistsBijection(1 .. k, rows)
    BY <1>2 DEF ExistsBijection
<1>. QED
    BY <1>1, <1>3, FS_CountingElements

\* The invariant holds initially.
LEMMA PathInit == Init => PInv
<1>. SUFFICES ASSUME Init PROVE PInv
    OBVIOUS
<1>1. paths = <<>> /\ DOMAIN paths = {} /\ Len(paths) = 0 /\ ToSet(paths) = {} /\ paths \in Seq(Routes)
    BY DEF Init, ToSet
<1>2. TypeOK
  <2>1. open \subseteq Channels /\ reachable \subseteq Nodes /\ present \subseteq Nodes
      BY GraphConstants DEF Init
  <2>2. capacity \in [Edges -> Nat] /\ fee \in [Edges -> Nat]
      BY GraphConstants DEF Init
  <2>3. value \in Nat \ {0} /\ max_paths \in Nat \ {0}
      BY PathConstants DEF Init
  <2>4. IsInjective(paths) /\ ToSet(paths) \subseteq Routes /\ Len(paths) <= max_paths
      BY <1>1, <2>3 DEF IsInjective
  <2>5. visited \in [Channels -> Nat] /\ feedback \in [Routes -> {NoRow, Null, "yes", "no"}]
      BY DEF Init
  <2>. QED
      BY <2>1, <2>2, <2>3, <2>4, <2>5 DEF Init, TypeOK
<1>3. FoundInv
    BY <1>1 DEF FoundInv
<1>4. CompleteInv
    BY DEF Init, CompleteInv
<1>5. RowsInv
    BY DEF Init, RowsInv, Stored
<1>. QED
    BY <1>2, <1>3, <1>4, <1>5 DEF PInv

------------------------------------------------------------------------------
(* The steps.                                                              *)

\* A step that changes neither paths nor rows keeps what is said of them.
LEMMA SameRows ==
    ASSUME PInv, UNCHANGED <<graph, paths, feedback>>
    PROVE  /\ FoundInv' /\ Stored' = Stored /\ ToSet(paths)' = ToSet(paths)
           /\ \A p : Fits(p)' <=> Fits(p)
           /\ IsInjective(paths)'
<1>1. \A p : (Carries(p)' <=> Carries(p)) /\ (Fits(p)' <=> Fits(p))
    BY GraphStays
<1>2. paths' = paths /\ ToSet(paths)' = ToSet(paths) /\ Stored' = Stored
    BY DEF ToSet, Stored
<1>3. FoundInv'
    BY <1>1, <1>2 DEF PInv, FoundInv
<1>4. IsInjective(paths)'
    BY DEF PInv, TypeOK, IsInjective
<1>. QED
    BY <1>1, <1>2, <1>3, <1>4

\* The request is checked.
LEMMA CheckRequestKeeps == PInv /\ CheckRequest => PInv'
<1>. SUFFICES ASSUME PInv, CheckRequest PROVE PInv'
    OBVIOUS
<1>0. UNCHANGED <<graph, paths, feedback>> /\ pc = "request"
    BY DEF CheckRequest
<1>. DEFINE refused == Refused
<1>1. (refused /\ pc' = "refused") \/ (~refused /\ pc' = "search")
    BY DEF CheckRequest
<1>. HIDE DEF refused
<1>2. TypeOK'
    BY <1>0, <1>1, SameRows DEF CheckRequest, PInv, TypeOK, graph
<1>3. CompleteInv'
  <2>1. refused => \A p \in Routes : ~Fits(p)
      BY RefusedFitsNot DEF refused, PInv
  <2>. QED
      BY <1>0, <1>1, <2>1, SameRows DEF CompleteInv
<1>4. RowsInv'
    BY <1>0, <1>1, SameRows DEF RowsInv, PInv
<1>. QED
    BY <1>0, <1>2, <1>3, <1>4, SameRows DEF PInv

\* A path is found: it is new and can carry the payment.
LEMMA NextPathKeeps == PInv /\ NextPath => PInv'
<1>. SUFFICES ASSUME PInv, NextPath PROVE PInv'
    OBVIOUS
<1>1. PICK p \in Candidates : paths' = Append(paths, p) /\ visited' = Visited(p)
    BY DEF NextPath
<1>2. p \in Routes /\ IsValid(p) /\ p \notin ToSet(paths)
    BY DEF Candidates, SimplePaths
<1>3. /\ paths' \in Seq(Routes) /\ Len(paths') = Len(paths) + 1 /\ DOMAIN paths' = 1 .. Len(paths) + 1
      /\ paths'[Len(paths) + 1] = p /\ \A j \in 1 .. Len(paths) : paths'[j] = paths[j]
      /\ DOMAIN paths = 1 .. Len(paths) /\ Len(paths) \in Nat
    BY <1>1, <1>2 DEF PInv, FoundInv
<1>4. ToSet(paths)' = ToSet(paths) \cup {p}
    BY <1>3 DEF ToSet
<1>5. IsInjective(paths)'
  <2>1. \A j \in 1 .. Len(paths) : paths[j] # p
      BY <1>2, <1>3 DEF ToSet
  <2>2. \A a, b \in 1 .. Len(paths) : paths[a] = paths[b] => a = b
      BY <1>3 DEF IsInjective, PInv, TypeOK
  <2>3. SUFFICES ASSUME NEW a \in 1 .. Len(paths) + 1, NEW b \in 1 .. Len(paths) + 1, paths'[a] = paths'[b]
                 PROVE  a = b
      BY <1>3 DEF IsInjective
  <2>4. \A j \in 1 .. Len(paths) + 1 : j \in 1 .. Len(paths) \/ j = Len(paths) + 1
      BY <1>3
  <2>. QED
      BY <1>3, <2>1, <2>2, <2>3, <2>4
<1>6. visited' \in [Channels -> Nat]
  <2>1. \A c \in Channels : visited[c] + (IF \E e \in Hops(p) : c = {e[1], e[2]} THEN DiversityPenalty ELSE 0) \in Nat
      BY PathConstants DEF PInv, TypeOK
  <2>. QED
      BY <1>1, <2>1 DEF Visited
<1>7. pc = "search" /\ pc' = pc /\ Len(paths) < max_paths /\ UNCHANGED <<graph, creation_time, feedback, now>>
    BY DEF NextPath
<1>8. TypeOK'
    BY <1>2, <1>3, <1>4, <1>5, <1>6, <1>7 DEF PInv, TypeOK, graph
<1>9. FoundInv'
  <2>1. Carries(p)
      BY <1>2, ValidCarries DEF PInv
  <2>2. \A q : Carries(q)' <=> Carries(q)
      BY <1>7, GraphStays
  <2>. QED
      BY <1>3, <1>4, <2>1, <2>2 DEF FoundInv, PInv
<1>10. CompleteInv' /\ RowsInv'
    BY <1>7 DEF CompleteInv, RowsInv, PInv, Stored
<1>. QED
    BY <1>8, <1>9, <1>10 DEF PInv

\* The search ends with all paths that fit, or with as many as asked for.
LEMMA SearchDoneKeeps == PInv /\ SearchDone => PInv'
<1>. SUFFICES ASSUME PInv, SearchDone PROVE PInv'
    OBVIOUS
<1>1. pc = "search" /\ SearchEnds /\ UNCHANGED <<graph, paths, visited, feedback, now>>
    BY DEF SearchDone
<1>2. \/ paths = <<>> /\ pc' = "not_found" /\ creation_time' = creation_time
      \/ paths # <<>> /\ pc' = "store" /\ creation_time' = now
    BY DEF SearchDone
<1>3. TypeOK'
    BY <1>1, <1>2, SameRows DEF PInv, TypeOK, graph
<1>4. Len(paths) < max_paths => \A p \in Routes : Fits(p) => p \in ToSet(paths)
  <2>1. SUFFICES ASSUME Len(paths) < max_paths PROVE \A p \in Routes : Fits(p) => p \in ToSet(paths)
      OBVIOUS
  <2>2. Candidates = {}
      BY <1>1, <2>1 DEF SearchEnds, PInv, TypeOK, FoundInv
  <2>. QED
      BY <2>2, FitsIsCandidate DEF PInv
<1>5. paths = <<>> => ToSet(paths) = {} /\ Len(paths) < max_paths
    BY DEF ToSet, PInv, TypeOK
<1>6. max_paths' = max_paths /\ paths' = paths
    BY <1>1 DEF graph
<1>7. CompleteInv'
    BY <1>1, <1>2, <1>4, <1>5, <1>6, SameRows DEF CompleteInv
<1>8. RowsInv'
  <2>1. Stored' = {} /\ Len(paths) \in Nat
      BY <1>1, SameRows DEF RowsInv, PInv, FoundInv
  <2>2. 0 \in 0 .. Len(paths') /\ {paths'[j] : j \in 1 .. 0} = {}
      BY <1>6, <2>1
  <2>. QED
      BY <1>2, <2>1, <2>2 DEF RowsInv
<1>. QED
    BY <1>1, <1>3, <1>7, <1>8, SameRows DEF PInv

\* A row is written: it is the next path's, which had none.
LEMMA NextRow ==
    ASSUME PInv, PrepareFeedback
    PROVE  \E k \in 0 .. Len(paths) - 1 :
              /\ Stored = {paths[j] : j \in 1 .. k} /\ paths[k + 1] \notin Stored
              /\ k + 1 \in DOMAIN paths /\ feedback' = [feedback EXCEPT ![paths[k + 1]] = Null]
<1>1. PICK k \in 0 .. Len(paths) : Stored = {paths[j] : j \in 1 .. k}
    BY DEF PrepareFeedback, PInv, RowsInv
<1>2. paths \in Seq(Routes) /\ IsInjective(paths) /\ DOMAIN paths = 1 .. Len(paths) /\ Len(paths) \in Nat
    BY DEF PInv, FoundInv, TypeOK
<1>3. Cardinality(Stored) = k
    BY <1>1, <1>2, CountRows
<1>4. k + 1 \in DOMAIN paths /\ feedback' = [feedback EXCEPT ![paths[k + 1]] = Null]
    BY <1>3 DEF PrepareFeedback
<1>5. paths[k + 1] \notin {paths[j] : j \in 1 .. k}
    BY <1>2, <1>4 DEF IsInjective
<1>6. k \in 0 .. Len(paths) - 1 /\ paths[k + 1] \notin Stored
    BY <1>1, <1>2, <1>4, <1>5
<1>. QED
    BY <1>1, <1>4, <1>6, Zenon

\* Writing a row keeps the invariant.
LEMMA PrepareFeedbackKeeps == PInv /\ PrepareFeedback => PInv'
<1>. SUFFICES ASSUME PInv, PrepareFeedback PROVE PInv'
    OBVIOUS
<1>1. PICK k \in 0 .. Len(paths) - 1 :
        /\ Stored = {paths[j] : j \in 1 .. k} /\ paths[k + 1] \notin Stored
        /\ k + 1 \in DOMAIN paths /\ feedback' = [feedback EXCEPT ![paths[k + 1]] = Null]
    BY NextRow
<1>2. pc = "store" /\ pc' = pc /\ UNCHANGED <<graph, paths, visited, creation_time, now>>
    BY DEF PrepareFeedback
<1>3. paths \in Seq(Routes) /\ DOMAIN paths = 1 .. Len(paths) /\ Len(paths) \in Nat
    BY DEF PInv, FoundInv
<1>4. paths[k + 1] \in Routes
    BY <1>1, <1>3
<1>5. feedback' \in [Routes -> {NoRow, Null, "yes", "no"}]
    BY <1>1, <1>4 DEF PInv, TypeOK
<1>6. Stored' = Stored \cup {paths[k + 1]}
    BY <1>1, <1>4 DEF Stored, PInv, TypeOK, NoRow, Null
<1>7. TypeOK'
    BY <1>2, <1>5 DEF PInv, TypeOK, graph, IsInjective, ToSet
<1>8. \A p : (Carries(p)' <=> Carries(p)) /\ (Fits(p)' <=> Fits(p))
    BY <1>2, GraphStays
<1>9. paths' = paths /\ max_paths' = max_paths /\ ToSet(paths)' = ToSet(paths)
    BY <1>2 DEF graph, ToSet
<1>10. FoundInv' /\ CompleteInv'
    BY <1>2, <1>8, <1>9 DEF FoundInv, CompleteInv, PInv
<1>11. RowsInv'
  <2>1. Stored' = {paths'[j] : j \in 1 .. k + 1} /\ k + 1 \in 0 .. Len(paths')
      BY <1>1, <1>3, <1>6, <1>9
  <2>. QED
      BY <1>2, <2>1 DEF RowsInv
<1>. QED
    BY <1>7, <1>10, <1>11 DEF PInv

\* The answer is given when all rows are there.
LEMMA AnswerKeeps == PInv /\ Answer => PInv'
<1>. SUFFICES ASSUME PInv, Answer PROVE PInv'
    OBVIOUS
<1>1. pc = "store" /\ AllStored /\ pc' = "answered" /\ UNCHANGED <<graph, paths, visited, creation_time, feedback, now>>
    BY DEF Answer
<1>2. PICK k \in 0 .. Len(paths) : Stored = {paths[j] : j \in 1 .. k}
    BY <1>1 DEF PInv, RowsInv
<1>3. paths \in Seq(Routes) /\ IsInjective(paths) /\ DOMAIN paths = 1 .. Len(paths)
    BY DEF PInv, FoundInv, TypeOK
<1>4. k = Len(paths)
    BY <1>1, <1>2, <1>3, CountRows DEF AllStored
<1>5. Stored = ToSet(paths)
    BY <1>2, <1>3, <1>4 DEF ToSet
<1>6. TypeOK'
    BY <1>1, SameRows DEF PInv, TypeOK, graph
<1>7. CompleteInv'
    BY <1>1, SameRows DEF PInv, CompleteInv, graph
<1>8. RowsInv'
    BY <1>1, <1>5, SameRows DEF RowsInv
<1>. QED
    BY <1>1, <1>6, <1>7, <1>8, SameRows DEF PInv

\* The service dies, or time passes.
LEMMA OthersKeep == PInv /\ (Crash \/ Tick \/ UNCHANGED vars) => PInv'
<1>. SUFFICES ASSUME PInv, Crash \/ Tick \/ UNCHANGED vars PROVE PInv'
    OBVIOUS
<1>1. UNCHANGED <<graph, paths, feedback, visited, creation_time>> /\ pc' \in {pc, "died"} /\ now' \in {now, now + 1}
    BY DEF Crash, Tick, vars
<1>2. TypeOK'
    BY <1>1, SameRows DEF PInv, TypeOK, graph
<1>3. CompleteInv'
    BY <1>1, SameRows DEF PInv, CompleteInv, graph
<1>4. RowsInv'
    BY <1>1, SameRows DEF PInv, RowsInv
<1>. QED
    BY <1>1, <1>2, <1>3, <1>4, SameRows DEF PInv

\* Feedback is written to a row that has none.
LEMMA FeedbackKeeps ==
    ASSUME PInv, NEW route \in Routes, NEW success \in {"yes", "no"}, Feedback(route, success)
    PROVE  PInv'
<1>1. /\ pc = "answered" /\ feedback[route] = Null /\ feedback' = [feedback EXCEPT ![route] = success]
      /\ UNCHANGED <<graph, pc, paths, visited, creation_time, now>>
    BY DEF Feedback, Updatable
<1>2. feedback' \in [Routes -> {NoRow, Null, "yes", "no"}] /\ Stored' = Stored
    BY <1>1 DEF PInv, TypeOK, Stored, NoRow, Null
<1>3. TypeOK'
    BY <1>1, <1>2 DEF PInv, TypeOK, graph, IsInjective, ToSet
<1>4. \A p : (Carries(p)' <=> Carries(p)) /\ (Fits(p)' <=> Fits(p))
    BY <1>1, GraphStays
<1>5. paths' = paths /\ max_paths' = max_paths /\ ToSet(paths)' = ToSet(paths)
    BY <1>1 DEF graph, ToSet
<1>6. FoundInv' /\ CompleteInv'
    BY <1>1, <1>4, <1>5 DEF FoundInv, CompleteInv, PInv
<1>7. RowsInv'
    BY <1>1, <1>2, <1>5 DEF RowsInv, PInv
<1>. QED
    BY <1>3, <1>6, <1>7 DEF PInv

\* Every step keeps the invariant.
LEMMA PathStep == PInv /\ [Next]_vars => PInv'
    BY CheckRequestKeeps, NextPathKeeps, SearchDoneKeeps, PrepareFeedbackKeeps, AnswerKeeps,
       OthersKeep, FeedbackKeeps DEF Next

------------------------------------------------------------------------------
(* Weights of paths, and diversity.                                        *)

\* The weights of edges as a function.
Weights == [e \in Edges |-> Weight(e)]

\* The model's sums of weights are sums of its values.
LEMMA SumOfWeights ==
    ASSUME NEW S \in SUBSET Edges
    PROVE  MapThenSumSet(Weight, S) = Sum(Weights, S)
<1>. DEFINE F(sum) == [s \in SUBSET S |-> IF s = {} THEN 0 ELSE Weights[Picked(s)] + sum[s \ {Picked(s)}]]
            H(sum) == [s \in SUBSET S |-> IF s = {} THEN 0 ELSE Weight(Picked(s)) + sum[s \ {Picked(s)}]]
<1>1. ASSUME NEW sum PROVE F(sum) = H(sum)
  <2>1. ASSUME NEW e \in S PROVE Weights[e] = Weight(e)
      BY DEF Weights
  <2>2. ASSUME NEW s \in SUBSET S
        PROVE  (IF s = {} THEN 0 ELSE Weights[Picked(s)] + sum[s \ {Picked(s)}])
                   = (IF s = {} THEN 0 ELSE Weight(Picked(s)) + sum[s \ {Picked(s)}])
      BY <2>1, PickedIn
  <2>. QED
      BY <2>2, Zenon
<1>2. MapThenSumSet(Weight, S) = (CHOOSE sum : sum = H(sum))[S]
    BY Zenon DEF MapThenSumSet, MapThenFoldSet, Picked
<1>3. Sum(Weights, S) = (CHOOSE sum : sum = F(sum))[S]
    BY Zenon, SumIs DEF IsSumOf
<1>. HIDE DEF F, H
<1>. QED
    BY <1>1, <1>2, <1>3, Zenon

\* If no weight exceeds two, the sum is at most twice the number of weights.
LEMMA SumBounded ==
    ASSUME NEW S, IsFiniteSet(S), NEW w, \A x \in S : w[x] \in Nat /\ w[x] <= 2
    PROVE  Sum(w, S) <= 2 * Cardinality(S)
<1>. DEFINE wrong == {s \in SUBSET S : ~(Sum(w, s) <= 2 * Cardinality(s))}
<1>1. SUFFICES ASSUME wrong # {} PROVE FALSE
    OBVIOUS
<1>2. PICK s \in wrong : Smallest(s, wrong)
  <2>. HIDE DEF wrong
  <2>1. wrong \in SUBSET SUBSET S
      BY DEF wrong
  <2>. QED
      BY <1>1, <2>1, SmallestSet
<1>3. IsFiniteSet(s) /\ s \in SUBSET S
    BY FS_Subset
<1>4. Sum(w, s) = IF s = {} THEN 0 ELSE w[Picked(s)] + Sum(w, s \ {Picked(s)})
    BY <1>3, SumPicked
<1>5. s # {}
    BY <1>4, FS_EmptySet
<1>6. Picked(s) \in s
    BY <1>5, PickedIn
<1>7. s \ {Picked(s)} \notin wrong
    BY <1>2, <1>6 DEF Smallest
<1>8. Sum(w, s \ {Picked(s)}) <= 2 * Cardinality(s \ {Picked(s)})
    BY <1>3, <1>7
<1>9. /\ Cardinality(s) \in Nat /\ Cardinality(s \ {Picked(s)}) = Cardinality(s) - 1
      /\ IsFiniteSet(s \ {Picked(s)})
    BY <1>3, <1>6, FS_RemoveElement, FS_CardinalityType
<1>10. Sum(w, s \ {Picked(s)}) \in Nat /\ w[Picked(s)] \in Nat /\ w[Picked(s)] <= 2
    BY <1>3, <1>6, <1>9, SumNatural
<1>11. ~(Sum(w, s) <= 2 * Cardinality(s))
    BY <1>2
<1>. HIDE DEF wrong
<1>. QED
    BY <1>4, <1>5, <1>8, <1>9, <1>10, <1>11

\* The hops of a route are edges, one less than its nodes at most.
LEMMA HopsCount ==
    ASSUME NEW p \in Routes
    PROVE  /\ Hops(p) \in SUBSET Edges /\ IsFiniteSet(Hops(p))
           /\ Cardinality(Hops(p)) \in Nat /\ Cardinality(Hops(p)) <= Len(p) - 1
<1>. DEFINE f == [i \in 1 .. Len(p) - 1 |-> <<p[i], p[i + 1]>>]
<1>1. Len(p) \in Nat /\ Len(p) >= 2
    BY RouteShape
<1>2. f \in Surjection(1 .. Len(p) - 1, Hops(p))
    BY DEF Surjection, Hops
<1>3. IsFiniteSet(1 .. Len(p) - 1) /\ Cardinality(1 .. Len(p) - 1) = Len(p) - 1
  <2>1. Len(p) - 1 \in Int /\ ~(1 > Len(p) - 1) /\ (Len(p) - 1) - 1 + 1 = Len(p) - 1
      BY <1>1
  <2>. QED
      BY <2>1, FS_Interval
<1>. HIDE DEF f
<1>4. IsFiniteSet(Hops(p)) /\ Cardinality(Hops(p)) <= Cardinality(1 .. Len(p) - 1)
    BY <1>2, <1>3, FS_Surjection
<1>5. Hops(p) \in SUBSET Edges
    BY DEF Routes
<1>. QED
    BY <1>3, <1>4, <1>5, FS_CardinalityType

\* Both views of an edge belong to its channel.
LEMMA EdgeFacts ==
    ASSUME NEW e \in Edges
    PROVE  {e[1], e[2]} \in Channels /\ <<e[2], e[1]>> \in Edges
<1>1. {e[2], e[1]} = {e[1], e[2]}
    OBVIOUS
<1>. QED
    BY <1>1 DEF Edges

\* Weights are numbers, and so are the weights of paths.
LEMMA WeightsNatural ==
    ASSUME TypeOK
    PROVE  /\ \A e \in Edges : Weights[e] \in Nat
           /\ \A p \in Routes : Sum(Weights, Hops(p)) \in Nat
<1>1. ASSUME NEW e \in Edges PROVE Weights[e] \in Nat
  <2>. DEFINE fees == fee[e] + fee[<<e[2], e[1]>>]
  <2>1. fees \in Nat /\ visited[{e[1], e[2]}] \in Nat
      BY EdgeFacts DEF TypeOK
  <2>2. NoRefund(e) \in Nat
      BY DEF NoRefund
  <2>3. Weight(e) = IF value + fees > capacity[e] THEN Infinite
                    ELSE 1 + visited[{e[1], e[2]}] + FeePenalty * fees + NoRefund(e)
      BY DEF Weight
  <2>. HIDE DEF fees
  <2>4. FeePenalty * fees \in Nat
      BY <2>1, PathConstants
  <2>. QED
      BY <2>1, <2>2, <2>3, <2>4, PathConstants DEF Weights
<1>2. ASSUME NEW p \in Routes PROVE Sum(Weights, Hops(p)) \in Nat
    BY <1>1, HopsCount, SumNatural
<1>. QED
    BY <1>1, <1>2

\* The weight of a path is the sum, or infinite.
LEMMA PathWeightIs ==
    ASSUME TypeOK, NEW p \in Routes
    PROVE  /\ PathWeight(p) \in {Infinite, Sum(Weights, Hops(p))}
           /\ PathWeight(p) <= Sum(Weights, Hops(p))
<1>. DEFINE total == Sum(Weights, Hops(p))
<1>1. PathWeight(p) = Min({Infinite, total})
    BY HopsCount, SumOfWeights DEF PathWeight
<1>2. total \in Nat /\ Infinite \in Nat
    BY WeightsNatural, PathConstants
<1>. HIDE DEF total
<1>3. \E x \in {Infinite, total} : \A y \in {Infinite, total} : x <= y
    BY <1>2
<1>4. Min({Infinite, total}) \in {Infinite, total} /\ Min({Infinite, total}) <= total
    BY <1>3 DEF Min
<1>. QED
    BY <1>1, <1>4 DEF total

\* Without fees a path that fits, over channels that were not used before,
\* weighs two for each hop at most.
LEMMA LightPath ==
    ASSUME TypeOK, Range(fee) = {0}, NEW p \in Routes, Fits(p),
           \A e \in Hops(p) : visited[{e[1], e[2]}] = 0
    PROVE  PathWeight(p) <= 2 * (Len(p) - 1)
<1>1. ASSUME NEW e \in Edges PROVE fee[e] = 0
    BY DEF TypeOK, Range
<1>2. ASSUME NEW e \in Hops(p) PROVE Weights[e] \in Nat /\ Weights[e] <= 2
  <2>1. PICK i \in 1 .. Len(p) - 1 : e = <<p[i], p[i + 1]>>
      BY DEF Hops
  <2>2. e \in Edges
      BY HopsCount
  <2>3. Needed(p, i) <= capacity[e] /\ Needed(p, i) >= value /\ Needed(p, i) \in Nat
      BY <2>1, NeededStep DEF Fits, Carries
  <2>4. fee[e] = 0 /\ fee[<<e[2], e[1]>>] = 0 /\ capacity[e] \in Nat /\ value \in Nat
      BY <1>1, <2>2, EdgeFacts DEF TypeOK
  <2>5. ~(value + (0 + 0) > capacity[e])
      BY <2>3, <2>4
  <2>6. Weight(e) = 1 + visited[{e[1], e[2]}] + FeePenalty * (0 + 0) + NoRefund(e)
      BY <2>4, <2>5 DEF Weight
  <2>7. NoRefund(e) \in {0, 1} /\ FeePenalty * (0 + 0) = 0
      BY PathConstants DEF NoRefund
  <2>8. Weight(e) \in {1, 2}
    <3>1. visited[{e[1], e[2]}] = 0
        BY <1>2
    <3>2. Weight(e) = 1 + 0 + 0 + NoRefund(e)
        BY <2>6, <2>7, <3>1
    <3>. HIDE DEF Weight, NoRefund
    <3>. QED
        BY <2>7, <3>2
  <2>. QED
      BY <2>2, <2>8 DEF Weights
<1>3. Sum(Weights, Hops(p)) <= 2 * Cardinality(Hops(p))
    BY <1>2, HopsCount, SumBounded
<1>. QED
    BY <1>3, HopsCount, PathWeightIs, WeightsNatural, RouteShape, PathConstants

\* A path over a channel that carries the penalty weighs more than that.
LEMMA HeavyPath ==
    ASSUME TypeOK, NEW p \in Routes, NEW e \in Hops(p),
           visited[{e[1], e[2]}] = DiversityPenalty
    PROVE  PathWeight(p) > DiversityPenalty
<1>1. e \in Edges
    BY HopsCount
<1>2. Weights[e] > DiversityPenalty
  <2>. DEFINE fees == fee[e] + fee[<<e[2], e[1]>>]
  <2>1. fees \in Nat
      BY <1>1, EdgeFacts DEF TypeOK
  <2>2. NoRefund(e) \in Nat
      BY DEF NoRefund
  <2>3. Weight(e) = IF value + fees > capacity[e] THEN Infinite
                    ELSE 1 + DiversityPenalty + FeePenalty * fees + NoRefund(e)
      BY DEF Weight
  <2>. HIDE DEF fees
  <2>4. FeePenalty * fees \in Nat
      BY <2>1, PathConstants
  <2>. QED
      BY <1>1, <2>2, <2>3, <2>4, PathConstants DEF Weights
<1>3. Sum(Weights, Hops(p)) = Weights[e] + Sum(Weights, Hops(p) \ {e})
    BY HopsCount, WeightsNatural, SumRemove
<1>4. IsFiniteSet(Hops(p) \ {e}) /\ \A x \in Hops(p) \ {e} : Weights[x] \in Nat
    BY HopsCount, WeightsNatural, FS_RemoveElement
<1>5. Sum(Weights, Hops(p) \ {e}) \in Nat /\ Weights[e] \in Nat
    BY <1>1, <1>4, WeightsNatural, SumNatural
<1>. QED
    BY <1>2, <1>3, <1>5, PathWeightIs, PathConstants

\* Before the second path is searched, just the channels of the first one carry
\* the penalty.
VisitedInv ==
    /\ Len(paths) = 0 => \A c \in Channels : visited[c] = 0
    /\ Len(paths) = 1 =>
          \A c \in Channels :
              visited[c] = IF \E e \in Hops(paths[1]) : c = {e[1], e[2]} THEN DiversityPenalty ELSE 0

\* What a path has to offer for the second one to be disjoint from the first.
Alternative(p, q) == Fits(p) /\ Disjoint(p, q) /\ 2 * (Len(p) - 1) <= DiversityPenalty

DiverseInv ==
    Len(paths) >= 2 /\ Range(fee) = {0} /\ (\E p \in Routes : Alternative(p, paths[1]))
    => Disjoint(paths[2], paths[1])

\* The invariant for diversity.
DInv == PInv /\ VisitedInv /\ DiverseInv

\* The second path is the lightest one: an alternative is lighter than any path
\* that shares a channel with the first one.
LEMMA SecondPath ==
    ASSUME PInv, VisitedInv, Len(paths) = 1, Range(fee) = {0},
           NEW p \in Routes, Alternative(p, paths[1]),
           NEW q \in Candidates, \A r \in Candidates : PathWeight(q) <= PathWeight(r)
    PROVE  Disjoint(q, paths[1])
<1>. SUFFICES ASSUME ~Disjoint(q, paths[1]) PROVE FALSE
    OBVIOUS
<1>1. /\ TypeOK /\ q \in Routes /\ paths \in Seq(Routes) /\ paths[1] \in Routes
      /\ DOMAIN paths = {1} /\ ToSet(paths) = {paths[1]}
    BY DEF PInv, FoundInv, Candidates, SimplePaths, ToSet
<1>2. PICK e \in Hops(q), f \in Hops(paths[1]) : {e[1], e[2]} = {f[1], f[2]}
    BY DEF Disjoint
<1>3. e \in Edges /\ {e[1], e[2]} \in Channels
    BY <1>1, HopsCount, EdgeFacts
<1>4. visited[{e[1], e[2]}] = DiversityPenalty
    BY <1>2, <1>3 DEF VisitedInv
<1>5. PathWeight(q) > DiversityPenalty
    BY <1>1, <1>4, HeavyPath
<1>6. ASSUME NEW h \in Hops(p) PROVE visited[{h[1], h[2]}] = 0
  <2>1. h \in Edges /\ {h[1], h[2]} \in Channels
      BY HopsCount, EdgeFacts
  <2>2. ~\E g \in Hops(paths[1]) : {h[1], h[2]} = {g[1], g[2]}
      BY DEF Alternative, Disjoint
  <2>. QED
      BY <2>1, <2>2 DEF VisitedInv
<1>7. PathWeight(p) <= 2 * (Len(p) - 1)
    BY <1>1, <1>6, LightPath DEF Alternative
<1>8. p \notin ToSet(paths)
  <2>1. <<p[1], p[1 + 1]>> \in Hops(p)
    <3>1. 1 \in 1 .. Len(p) - 1
        BY RouteShape
    <3>. QED
        BY <3>1, RouteShape
  <2>2. p # paths[1]
      BY <2>1 DEF Alternative, Disjoint
  <2>. QED
      BY <1>1, <2>2
<1>9. p \in Candidates
    BY <1>1, <1>8, FitsIsCandidate DEF Alternative
<1>10. PathWeight(p) \in Nat /\ PathWeight(q) \in Nat /\ Len(p) \in Nat
    BY <1>1, PathWeightIs, WeightsNatural, RouteShape, PathConstants
<1>. QED
    BY <1>5, <1>7, <1>9, <1>10, PathConstants DEF Alternative

\* Every step keeps the invariant; only a new path can disturb it.
LEMMA DiverseStep == DInv /\ [Next]_vars => DInv'
<1>. SUFFICES ASSUME DInv, [Next]_vars PROVE DInv'
    OBVIOUS
<1>1. PInv'
    BY PathStep DEF DInv
<1>2. UNCHANGED graph
    BY DEF Next, CheckRequest, NextPath, SearchDone, PrepareFeedback, Answer, Crash, Tick, Feedback,
           vars
<1>3. fee' = fee /\ \A p, q : Alternative(p, q)' <=> Alternative(p, q)
    BY <1>2, GraphStays DEF Alternative, graph
<1>4. CASE UNCHANGED <<paths, visited>>
    BY <1>1, <1>3, <1>4 DEF DInv, VisitedInv, DiverseInv
<1>5. CASE NextPath
  <2>1. PICK q \in Candidates : /\ \A r \in Candidates : PathWeight(q) <= PathWeight(r)
                                /\ paths' = Append(paths, q) /\ visited' = Visited(q)
      BY <1>5 DEF NextPath
  <2>2. /\ q \in Routes /\ paths \in Seq(Routes) /\ Len(paths) \in Nat
        /\ Len(paths') = Len(paths) + 1 /\ paths'[Len(paths) + 1] = q
        /\ \A j \in 1 .. Len(paths) : paths'[j] = paths[j]
      BY <2>1 DEF DInv, PInv, FoundInv, Candidates, SimplePaths
  <2>3. VisitedInv'
    <3>1. CASE Len(paths) = 0
      <4>1. \A c \in Channels : visited'[c] =
                0 + IF \E e \in Hops(q) : c = {e[1], e[2]} THEN DiversityPenalty ELSE 0
          BY <2>1, <3>1 DEF Visited, DInv, VisitedInv
      <4>. QED
          BY <2>2, <3>1, <4>1, PathConstants DEF VisitedInv
    <3>2. CASE Len(paths) # 0
        BY <2>2, <3>2 DEF VisitedInv
    <3>. QED
        BY <3>1, <3>2
  <2>4. DiverseInv'
    <3>1. CASE Len(paths) = 0
        BY <2>2, <3>1 DEF DiverseInv
    <3>2. CASE Len(paths) = 1
      <4>1. paths'[1] = paths[1] /\ paths'[2] = q
          BY <2>2, <3>2
      <4>. QED
          BY <1>3, <2>1, <3>2, <4>1, SecondPath DEF DiverseInv, DInv
    <3>3. CASE Len(paths) >= 2
      <4>1. paths'[1] = paths[1] /\ paths'[2] = paths[2]
          BY <2>2, <3>3
      <4>. QED
          BY <1>3, <3>3, <4>1 DEF DiverseInv, DInv
    <3>4. Len(paths) = 0 \/ Len(paths) = 1 \/ Len(paths) >= 2
        BY <2>2
    <3>. QED
        BY <3>1, <3>2, <3>3, <3>4
  <2>. QED
      BY <1>1, <2>3, <2>4 DEF DInv
<1>. QED
    BY <1>4, <1>5 DEF Next, CheckRequest, SearchDone, PrepareFeedback, Answer, Crash, Tick, Feedback,
                      vars

------------------------------------------------------------------------------
(* The theorems.                                                           *)

\* The inductive invariant holds in every state.
THEOREM Invariance == Spec => []PInv
    BY PathInit, PathStep, PTL DEF Spec

\* Type correctness: paths are different routes, at most as many as asked for.
THEOREM TypeCorrect == Spec => []TypeOK
<1>1. PInv => TypeOK
    BY DEF PInv
<1>. QED
    BY <1>1, Invariance, PTL

\* Whatever the graph, the fees and the payment are, each path of an answer can
\* carry the payment with the fee that the answer estimates, and what arrives
\* is the value: _calculate_fees, computed backwards, agrees with the payment,
\* sent forward.
THEOREM AnswersCarry == Spec => []PathsCarryPayment
<1>1. PInv => PathsCarryPayment
  <2>. SUFFICES ASSUME PInv, NEW p \in ToSet(paths)
                PROVE  /\ \A i \in 1 .. Len(p) - 1 : Arrives(p, i) <= capacity[<<p[i], p[i + 1]>>]
                       /\ Arrives(p, Len(p) - 1) = value
      BY DEF PathsCarryPayment
  <2>1. TypeOK /\ p \in Routes /\ Carries(p)
      BY DEF PInv, TypeOK, FoundInv
  <2>2. \A i \in 1 .. Len(p) - 1 : Arrives(p, i) = Needed(p, i)
      BY <2>1, ArrivesNeeded
  <2>3. Len(p) - 1 \in 1 .. Len(p) - 1
      BY <2>1, RouteShape
  <2>4. Needed(p, Len(p) - 1) = value
      BY <2>1, <2>3, NeededStep
  <2>. QED
      BY <2>1, <2>2, <2>3, <2>4 DEF Carries
<1>. QED
    BY <1>1, Invariance, PTL

\* Whatever the graph is, no usable path is missed: neither the checks of
\* check_path_request_errors nor those of a path refuse one, and the search
\* ends only when it has them all or as many as asked for.
THEOREM NoneMissed == Spec => []NothingMissed
<1>1. PInv => NothingMissed
    BY UsableFits DEF PInv, CompleteInv, NothingMissed
<1>. QED
    BY <1>1, Invariance, PTL

\* Without fees, whatever the graph is: when there is a short usable path that
\* shares no channel with the first one, the second one shares none either.
\* The penalty of edge_weight is enough for that.
THEOREM Diversity == Spec => []DiverseIfPossible
<1>1. Init => DInv
  <2>. SUFFICES ASSUME Init PROVE DInv
      OBVIOUS
  <2>1. Len(paths) = 0
      BY DEF Init
  <2>. QED
      BY <2>1, PathInit DEF Init, DInv, VisitedInv, DiverseInv
<1>2. DInv => DiverseIfPossible
    BY UsableFits DEF DInv, DiverseInv, Alternative, DiverseIfPossible
<1>. QED
    BY <1>1, <1>2, DiverseStep, PTL DEF Spec

\* The rows that allow feedback are those of the answer's paths when the client
\* gets it, although they are written one by one.
THEOREM RowsBeforeAnswer == Spec => []AnswerHasRows
<1>1. PInv => AnswerHasRows
    BY DEF PInv, RowsInv, AnswerHasRows
<1>. QED
    BY <1>1, Invariance, PTL

\* No row is overwritten: the first feedback on a path stands, and it was given
\* for a path of the answer, with a token that was young enough.
THEOREM FeedbackStands == Spec => FirstFeedbackStands
<1>. DEFINE Stands ==
        \A r \in Routes :
          /\ feedback[r] \in {"yes", "no"} => feedback'[r] = feedback[r]
          /\ feedback'[r] \in {"yes", "no"} /\ feedback'[r] # feedback[r] =>
                r \in ToSet(paths) /\ now - creation_time < MaxAge
<1>1. PInv /\ Next => Stands
  <2>. SUFFICES ASSUME PInv, Next PROVE Stands
      OBVIOUS
  <2>1. feedback \in [Routes -> {NoRow, Null, "yes", "no"}]
      BY DEF PInv, TypeOK
  <2>2. CASE PrepareFeedback
    <3>1. PICK k \in 0 .. Len(paths) - 1 :
            paths[k + 1] \notin Stored /\ feedback' = [feedback EXCEPT ![paths[k + 1]] = Null]
        BY <2>2, NextRow
    <3>2. \A r \in Routes : feedback'[r] = (IF r = paths[k + 1] THEN Null ELSE feedback[r])
        BY <2>1, <3>1
    <3>3. \A r \in Routes : r = paths[k + 1] => feedback[r] = NoRow
        BY <3>1 DEF Stored
    <3>. QED
        BY <3>2, <3>3 DEF NoRow, Null
  <2>3. ASSUME NEW route \in Routes, NEW success \in {"yes", "no"}, Feedback(route, success)
        PROVE  Stands
    <3>1. /\ feedback[route] = Null /\ feedback' = [feedback EXCEPT ![route] = success]
          /\ pc = "answered" /\ creation_time + MaxAge > now
        BY <2>3 DEF Feedback, Updatable, IsTokenValid
    <3>2. \A r \in Routes : feedback'[r] = (IF r = route THEN success ELSE feedback[r])
        BY <2>1, <3>1
    <3>3. route \in ToSet(paths)
        BY <3>1 DEF PInv, RowsInv, Stored, NoRow, Null
    <3>4. now - creation_time < MaxAge
        BY <3>1, PathConstants DEF PInv, TypeOK
    <3>. QED
        BY <3>1, <3>2, <3>3, <3>4 DEF Null
  <2>4. CASE feedback' = feedback
      BY <2>4
  <2>5. CheckRequest \/ NextPath \/ SearchDone \/ Answer \/ Crash \/ Tick => feedback' = feedback
      BY DEF CheckRequest, NextPath, SearchDone, Answer, Crash, Tick
  <2>. QED
      BY <2>2, <2>3, <2>4, <2>5 DEF Next
<1>2. PInv /\ [Next]_vars => [Stands]_vars
    BY <1>1
<1>. QED
    BY <1>2, Invariance, PTL DEF Spec, FirstFeedbackStands

=============================================================================
