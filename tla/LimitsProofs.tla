---------------------------- MODULE LimitsProofs ----------------------------
(***************************************************************************)
(* What is counted, and how far a limit on it can be overrun, for any      *)
(* limits: messages of a session in a span of time, what users and teams   *)
(* spend, the weight of the injections a session was shown.                *)
(*                                                                         *)
(* The sums are the library's, which recurse over finite sets; the first   *)
(* part shows that they do, by induction over the sets.                    *)
(*                                                                         *)
(* Rate limit: the bound of a span that is over follows from what was let  *)
(* through of it while it lasted, which the counter knows as long as the   *)
(* span began after its window, or inside it, or after the last close      *)
(* (Burst).                                                                *)
(*                                                                         *)
(* Cap and quota: each run that was let past a check has an allowance, and *)
(* the allowances are what may still be added to what is spent (CapKept,   *)
(* QuotaKept).                                                             *)
(*                                                                         *)
(* Scores: the matches of a text weigh what its patterns do, for no two of *)
(* them are of one pattern; a text shown next weighs something or nothing, *)
(* so a score never falls (ScoreInv).                                      *)
(*                                                                         *)
(* Patterns: those of one type have no event in common, so their counts    *)
(* add up to no more than the log holds (CountsAdd), then and ever after,  *)
(* for the log only grows (Grown).  A job nobody wrote during has gathered *)
(* what a job over the whole log would (WholeUnderWay); once it is through *)
(* every patch of such a job is known (WholeKnown).                        *)
(***************************************************************************)
EXTENDS ChatRateLimit, CostGovernance, Screening, PatternAnalysis, FiniteSetTheorems, SequenceTheorems, TLAPS

(* A nonempty set of subsets of a finite set has a smallest one: taken of  *)
(* the sets that are counterexamples, this is induction over finite sets.  *)
LEMMA SmallestSet ==
  ASSUME NEW S, IsFiniteSet(S), NEW T, T \subseteq SUBSET S, T # {}
  PROVE  \E x \in T : \A y \in T : ~(y \subseteq x /\ y # x)
<1>1. IsWellFoundedOn(StrictSubsetOrdering(S), SUBSET S)
  BY FS_StrictSubsetOrderingWellFounded, FS_FiniteSubsetsOfFinite
<1>2. \E x \in T : \A y \in T : ~ (<<y, x>> \in StrictSubsetOrdering(S))
  BY <1>1, WFMin
<1> QED BY <1>2 DEF StrictSubsetOrdering

LEMMA SetInduction ==
  ASSUME NEW S, IsFiniteSet(S), NEW G, {} \in G,
         \A s \in SUBSET S : \A x \in s : s \ {x} \in G => s \in G
  PROVE  S \in G
<1> DEFINE B == (SUBSET S) \ G
<1> SUFFICES ASSUME B # {} PROVE FALSE
  OBVIOUS
<1>1. B \subseteq SUBSET S
  OBVIOUS
<1> HIDE DEF B
<1>2. PICK s \in B : \A y \in B : ~(y \subseteq s /\ y # s)
  BY <1>1, SmallestSet
<1> USE DEF B
<1>3. PICK x \in s : TRUE
  OBVIOUS
<1>4. s \ {x} \notin B
  BY <1>2, <1>3
<1>5. s \in SUBSET S /\ s \ {x} \in G
  BY <1>4
<1> QED BY <1>3, <1>5

(* The library's sum is the solution of this recursion.                    *)
PickOf(s) == CHOOSE x \in s : TRUE
Sums(g, f, S) ==
  g = [s \in SUBSET S |-> IF s = {} THEN 0 ELSE f[PickOf(s)] + g[s \ {PickOf(s)}]]

LEMMA PickIsIn == ASSUME NEW s, s # {} PROVE PickOf(s) \in s
  BY DEF PickOf

(* The recursion has one solution on the sets both cover ...               *)
LEMMA SumsUnique ==
  ASSUME NEW S, IsFiniteSet(S), NEW T, NEW f, NEW g, NEW h, Sums(g, f, S), Sums(h, f, T)
  PROVE  \A s \in SUBSET (S \cap T) : g[s] = h[s]
<1> DEFINE B == {s \in SUBSET (S \cap T) : g[s] # h[s]}
<1> SUFFICES ASSUME B # {} PROVE FALSE
  OBVIOUS
<1>0. B \subseteq SUBSET S
  OBVIOUS
<1> HIDE DEF B
<1>1. PICK x \in B : \A y \in B : ~(y \subseteq x /\ y # x)
  BY <1>0, SmallestSet
<1> USE DEF B
<1>2. x # {}
  BY DEF Sums
<1>3. PickOf(x) \in x
  BY <1>2, PickIsIn
<1>4. x \ {PickOf(x)} \notin B
  BY <1>1, <1>3
<1>5. g[x \ {PickOf(x)}] = h[x \ {PickOf(x)}]
  BY <1>4
<1>6. g[x] = f[PickOf(x)] + g[x \ {PickOf(x)}]
  BY <1>2 DEF Sums
<1>7. h[x] = f[PickOf(x)] + h[x \ {PickOf(x)}]
  BY <1>2 DEF Sums
<1> QED BY <1>5, <1>6, <1>7

(* ... and one on every finite set, so CHOOSE finds it.                    *)
LEMMA SumsExist ==
  ASSUME NEW S, IsFiniteSet(S), NEW f
  PROVE  \E g : Sums(g, f, S)
<1> DEFINE B == {s \in SUBSET S : ~ \E g : Sums(g, f, s)}
<1> SUFFICES ASSUME B # {} PROVE FALSE
  OBVIOUS
<1>0. B \subseteq SUBSET S
  OBVIOUS
<1> HIDE DEF B
<1>1. PICK x \in B : \A y \in B : ~(y \subseteq x /\ y # x)
  BY <1>0, SmallestSet
<1> USE DEF B
<1> DEFINE H(y) == CHOOSE g : Sums(g, f, y)
<1>2. ASSUME NEW y \in SUBSET x, y # x PROVE Sums(H(y), f, y)
  BY <1>1, <1>2
<1> HIDE DEF H
<1> DEFINE Value(y) == IF y = {} THEN 0 ELSE f[PickOf(y)] + H(y \ {PickOf(y)})[y \ {PickOf(y)}]
<1> DEFINE G == [y \in SUBSET x |-> Value(y)]
<1>3. ASSUME NEW y \in SUBSET x, y # x PROVE H(y)[y] = Value(y)
  <2>1. CASE y = {}
    BY <2>1, <1>2, <1>3 DEF Sums
  <2>2. CASE y # {}
    <3> DEFINE z == y \ {PickOf(y)}
    <3>1. PickOf(y) \in y /\ z \in SUBSET x /\ z # x /\ z \subseteq y
      BY <2>2, PickIsIn
    <3>2. Sums(H(y), f, y) /\ Sums(H(z), f, z)
      BY <1>2, <1>3, <3>1
    <3>3. IsFiniteSet(y)
      BY FS_Subset
    <3>4. H(y)[z] = H(z)[z]
      BY <3>1, <3>2, <3>3, SumsUnique
    <3>5. H(y)[y] = f[PickOf(y)] + H(y)[z]
      BY <3>2, <2>2 DEF Sums
    <3> QED BY <3>4, <3>5, <2>2
  <2> QED BY <2>1, <2>2
<1>4. ASSUME NEW y \in SUBSET x
      PROVE  G[y] = IF y = {} THEN 0 ELSE f[PickOf(y)] + G[y \ {PickOf(y)}]
  <2>1. CASE y = {}
    BY <2>1
  <2>2. CASE y # {}
    <3> DEFINE z == y \ {PickOf(y)}
    <3>1. z \in SUBSET x /\ z # x
      BY <2>2, PickIsIn
    <3>2. G[z] = Value(z) /\ G[y] = Value(y)
      BY <3>1
    <3>3. H(z)[z] = Value(z)
      BY <3>1, <1>3
    <3> QED BY <3>2, <3>3, <2>2
  <2> QED BY <2>1, <2>2
<1> HIDE DEF Value
<1>5. Sums(G, f, x)
  <2>1. G = [y \in SUBSET x |-> G[y]]
    OBVIOUS
  <2>. DEFINE K == [y \in SUBSET x |-> IF y = {} THEN 0 ELSE f[PickOf(y)] + G[y \ {PickOf(y)}]]
  <2>2. G = K
    BY <1>4
  <2> QED BY <2>2 DEF Sums
<1> QED BY <1>5

(* The library's sum satisfies the recursion.                              *)
LEMMA SumIsSums ==
  ASSUME NEW S, IsFiniteSet(S), NEW f
  PROVE  \E g : Sums(g, f, S) /\ \A s \in SUBSET S : SumFunctionOnSet(f, s) = g[s]
<1> DEFINE G(s) == CHOOSE g : Sums(g, f, s)
<1>1. ASSUME NEW s PROVE SumFunctionOnSet(f, s) = G(s)[s]
  BY DEF SumFunctionOnSet, FoldFunctionOnSet, MapThenFoldSet, Sums, PickOf
<1>2. ASSUME NEW s \in SUBSET S PROVE Sums(G(s), f, s)
  BY <1>2, FS_Subset, SumsExist
<1> HIDE DEF G
<1>3. ASSUME NEW s \in SUBSET S PROVE G(s)[s] = G(S)[s]
  BY <1>2, <1>3, FS_Subset, SumsUnique
<1> QED BY <1>1, <1>2, <1>3
LEMMA SumEmpty == ASSUME NEW f PROVE SumFunctionOnSet(f, {}) = 0
<1>1. IsFiniteSet({})
  BY FS_EmptySet
<1>2. PICK g : Sums(g, f, {}) /\ \A s \in SUBSET {} : SumFunctionOnSet(f, s) = g[s]
  BY <1>1, SumIsSums
<1> QED BY <1>2 DEF Sums

(* Some element comes first in a sum.                                      *)
LEMMA SumPick ==
  ASSUME NEW S, IsFiniteSet(S), S # {}, NEW f
  PROVE  \E x \in S : SumFunctionOnSet(f, S) = f[x] + SumFunctionOnSet(f, S \ {x})
<1>1. PICK g : Sums(g, f, S) /\ \A s \in SUBSET S : SumFunctionOnSet(f, s) = g[s]
  BY SumIsSums
<1>2. PickOf(S) \in S
  BY PickIsIn
<1>3. g[S] = f[PickOf(S)] + g[S \ {PickOf(S)}]
  BY <1>1 DEF Sums
<1> QED BY <1>1, <1>2, <1>3

LEMMA SumInt ==
  ASSUME NEW S, IsFiniteSet(S), NEW f, \A x \in S : f[x] \in Int
  PROVE  SumFunctionOnSet(f, S) \in Int
<1> DEFINE B == {s \in SUBSET S : SumFunctionOnSet(f, s) \notin Int}
<1> SUFFICES ASSUME B # {} PROVE FALSE
  OBVIOUS
<1>1. B \subseteq SUBSET S
  OBVIOUS
<1> HIDE DEF B
<1>2. PICK s \in B : \A y \in B : ~(y \subseteq s /\ y # s)
  BY <1>1, SmallestSet
<1> USE DEF B
<1>3. s # {}
  BY SumEmpty
<1>4. IsFiniteSet(s)
  BY FS_Subset
<1>5. PICK x \in s : SumFunctionOnSet(f, s) = f[x] + SumFunctionOnSet(f, s \ {x})
  BY <1>3, <1>4, SumPick
<1>6. s \ {x} \notin B
  BY <1>2
<1>7. SumFunctionOnSet(f, s \ {x}) \in Int
  BY <1>6
<1> QED BY <1>5, <1>7

(* Any element can be taken first.                                         *)
LEMMA SumSplit ==
  ASSUME NEW S, IsFiniteSet(S), NEW f, \A y \in S : f[y] \in Int, NEW x \in S
  PROVE  SumFunctionOnSet(f, S) = f[x] + SumFunctionOnSet(f, S \ {x})
<1> DEFINE Splits(s, y) == SumFunctionOnSet(f, s) = f[y] + SumFunctionOnSet(f, s \ {y})
           B == {s \in SUBSET S : \E y \in s : ~Splits(s, y)}
<1> SUFFICES ASSUME B # {} PROVE FALSE
  BY Zenon
<1>1. B \subseteq SUBSET S
  OBVIOUS
<1> HIDE DEF B
<1>2. PICK s \in B : \A y \in B : ~(y \subseteq s /\ y # s)
  BY <1>1, SmallestSet
<1> USE DEF B
<1> HIDE DEF Splits
<1>3. PICK z \in s : ~Splits(s, z)
  OBVIOUS
<1>4. IsFiniteSet(s)
  BY FS_Subset
<1>5. PICK y \in s : Splits(s, y)
  BY <1>4, SumPick DEF Splits
<1>6. y # z
  BY <1>3, <1>5
<1>7. Splits(s \ {y}, z) /\ Splits(s \ {z}, y)
  BY <1>2, <1>6
<1>8. (s \ {y}) \ {z} = (s \ {z}) \ {y}
  OBVIOUS
<1>9. SumFunctionOnSet(f, (s \ {y}) \ {z}) \in Int
  BY <1>4, FS_Subset, SumInt
<1>10. f[y] \in Int /\ f[z] \in Int
  OBVIOUS
<1> QED BY <1>3, <1>5, <1>7, <1>8, <1>9, <1>10 DEF Splits

LEMMA SumAdd ==
  ASSUME NEW S, IsFiniteSet(S), NEW x, x \notin S, NEW f, \A y \in S \cup {x} : f[y] \in Int
  PROVE  SumFunctionOnSet(f, S \cup {x}) = f[x] + SumFunctionOnSet(f, S)
<1>1. IsFiniteSet(S \cup {x})
  BY FS_AddElement
<1>2. (S \cup {x}) \ {x} = S
  OBVIOUS
<1> QED BY <1>1, <1>2, SumSplit

(* The sum depends only on what is summed.                                 *)
LEMMA SumSame ==
  ASSUME NEW S, IsFiniteSet(S), NEW f, NEW g, \A x \in S : f[x] = g[x], \A x \in S : f[x] \in Int
  PROVE  SumFunctionOnSet(f, S) = SumFunctionOnSet(g, S)
<1> DEFINE Same(s) == SumFunctionOnSet(f, s) = SumFunctionOnSet(g, s)
           B == {s \in SUBSET S : ~Same(s)}
<1> SUFFICES ASSUME B # {} PROVE FALSE
  BY Zenon
<1>1. B \subseteq SUBSET S
  OBVIOUS
<1> HIDE DEF B
<1>2. PICK s \in B : \A y \in B : ~(y \subseteq s /\ y # s)
  BY <1>1, SmallestSet
<1> USE DEF B
<1>3. s # {}
  BY SumEmpty
<1>4. PICK x \in s : TRUE
  BY <1>3
<1>5. IsFiniteSet(s)
  BY FS_Subset
<1>6. Same(s \ {x})
  BY <1>2
<1>7. SumFunctionOnSet(f, s) = f[x] + SumFunctionOnSet(f, s \ {x})
  BY <1>5, SumSplit
<1>8. SumFunctionOnSet(g, s) = g[x] + SumFunctionOnSet(g, s \ {x})
  BY <1>5, SumSplit
<1> QED BY <1>6, <1>7, <1>8

LEMMA SumChange ==
  ASSUME NEW S, IsFiniteSet(S), NEW f, NEW g, NEW x \in S,
         \A y \in S : f[y] \in Int, \A y \in S : g[y] \in Int,
         \A y \in S \ {x} : f[y] = g[y]
  PROVE  SumFunctionOnSet(g, S) = SumFunctionOnSet(f, S) - f[x] + g[x]
<1>1. SumFunctionOnSet(f, S) = f[x] + SumFunctionOnSet(f, S \ {x})
  BY SumSplit
<1>2. SumFunctionOnSet(g, S) = g[x] + SumFunctionOnSet(g, S \ {x})
  BY SumSplit
<1>3. IsFiniteSet(S \ {x})
  BY FS_RemoveElement
<1>4. SumFunctionOnSet(f, S \ {x}) = SumFunctionOnSet(g, S \ {x})
  BY <1>3, SumSame
<1>5. SumFunctionOnSet(f, S \ {x}) \in Int
  BY <1>3, SumInt
<1> QED BY <1>1, <1>2, <1>4, <1>5

(* Between nothing and L for each.                                         *)
LEMMA SumBounds ==
  ASSUME NEW S, IsFiniteSet(S), NEW L \in Nat, NEW f, \A x \in S : f[x] \in 0..L
  PROVE  /\ SumFunctionOnSet(f, S) \in Nat
         /\ SumFunctionOnSet(f, S) <= L * Cardinality(S)
<1> DEFINE Bounded(s) == /\ SumFunctionOnSet(f, s) \in Nat
                         /\ SumFunctionOnSet(f, s) <= L * Cardinality(s)
           B == {s \in SUBSET S : ~Bounded(s)}
<1> SUFFICES ASSUME B # {} PROVE FALSE
  <2> B = {}
    OBVIOUS
  <2> QED BY FS_Subset
<1>1. B \subseteq SUBSET S
  OBVIOUS
<1> HIDE DEF B
<1>2. PICK s \in B : \A y \in B : ~(y \subseteq s /\ y # s)
  BY <1>1, SmallestSet
<1> USE DEF B
<1>3. s # {}
  <2>1. SumFunctionOnSet(f, {}) = 0 /\ Cardinality({}) = 0 /\ L * 0 = 0
    BY SumEmpty, FS_EmptySet
  <2>2. Bounded({})
    BY <2>1
  <2> QED BY <2>2
<1>4. PICK x \in s : TRUE
  BY <1>3
<1>5. IsFiniteSet(s)
  BY FS_Subset
<1>6. Bounded(s \ {x})
  BY <1>2
<1>7. SumFunctionOnSet(f, s) = f[x] + SumFunctionOnSet(f, s \ {x})
  BY <1>5, SumSplit
<1>8. PICK n \in Nat : n = Cardinality(s \ {x})
  BY <1>5, FS_RemoveElement, FS_CardinalityType
<1>9. Cardinality(s) = n + 1
  <2>1. Cardinality(s) \in Nat
    BY <1>5, FS_CardinalityType
  <2>2. Cardinality(s \ {x}) = Cardinality(s) - 1
    BY <1>5, FS_RemoveElement
  <2> QED BY <1>8, <2>1, <2>2
<1>10. L * (n + 1) = L * n + L
  OBVIOUS
<1>11. f[x] \in 0..L
  OBVIOUS
<1>12. PICK p : p = L * n
  OBVIOUS
<1>13. p \in Nat
  BY <1>12
<1> QED BY <1>6, <1>7, <1>8, <1>9, <1>10, <1>11, <1>12, <1>13

LEMMA SumNat ==
  ASSUME NEW S, IsFiniteSet(S), NEW f, \A x \in S : f[x] \in Nat
  PROVE  SumFunctionOnSet(f, S) \in Nat
<1> DEFINE B == {s \in SUBSET S : SumFunctionOnSet(f, s) \notin Nat}
<1> SUFFICES ASSUME B # {} PROVE FALSE
  OBVIOUS
<1>1. B \subseteq SUBSET S
  OBVIOUS
<1> HIDE DEF B
<1>2. PICK s \in B : \A y \in B : ~(y \subseteq s /\ y # s)
  BY <1>1, SmallestSet
<1> USE DEF B
<1>3. s # {}
  BY SumEmpty
<1>6. IsFiniteSet(s)
  BY FS_Subset
<1>4. PICK x \in s : SumFunctionOnSet(f, s) = f[x] + SumFunctionOnSet(f, s \ {x})
  BY <1>3, <1>6, SumPick
<1>5. s \ {x} \notin B
  BY <1>2
<1> QED BY <1>4, <1>5

LEMMA SumZero ==
  ASSUME NEW S, IsFiniteSet(S), NEW f, \A x \in S : f[x] = 0
  PROVE  SumFunctionOnSet(f, S) = 0
<1> DEFINE n == Cardinality(S)
<1>1. \A x \in S : f[x] \in 0..0
  OBVIOUS
<1>2. n \in Nat
  BY FS_CardinalityType
<1>3. SumFunctionOnSet(f, S) \in Nat /\ SumFunctionOnSet(f, S) <= 0 * n
  BY <1>1, SumBounds
<1> QED BY <1>2, <1>3

(* Sizes of sets one element apart.                                        *)
LEMMA CountGrows ==
  ASSUME NEW A, IsFiniteSet(A), NEW x, NEW B, B \subseteq A \cup {x}
  PROVE  /\ IsFiniteSet(B) /\ Cardinality(A) \in Nat /\ Cardinality(B) \in Nat
         /\ Cardinality(B) <= Cardinality(A) + 1
<1>1. IsFiniteSet(A \cup {x}) /\ Cardinality(A \cup {x}) <= Cardinality(A) + 1
  <2>1. Cardinality(A) \in Nat
    BY FS_CardinalityType
  <2>2. /\ IsFiniteSet(A \cup {x})
        /\ Cardinality(A \cup {x}) = IF x \in A THEN Cardinality(A) ELSE Cardinality(A) + 1
    BY FS_AddElement
  <2> QED BY <2>1, <2>2
<1>2. IsFiniteSet(B) /\ Cardinality(B) <= Cardinality(A \cup {x})
  BY <1>1, FS_Subset
<1> QED BY <1>1, <1>2, FS_CardinalityType

LEMMA CountShrinks ==
  ASSUME NEW A, IsFiniteSet(A), NEW x \in A, NEW B, B \subseteq A \ {x}
  PROVE  /\ IsFiniteSet(B) /\ Cardinality(A) \in Nat /\ Cardinality(B) \in Nat
         /\ Cardinality(B) + 1 <= Cardinality(A)
<1>1. IsFiniteSet(A \ {x}) /\ Cardinality(A \ {x}) = Cardinality(A) - 1
  BY FS_RemoveElement
<1>2. IsFiniteSet(B) /\ Cardinality(B) <= Cardinality(A \ {x})
  BY <1>1, FS_Subset
<1> QED BY <1>1, <1>2, FS_CardinalityType

LEMMA CountSubset ==
  ASSUME NEW A, IsFiniteSet(A), NEW B, B \subseteq A
  PROVE  /\ IsFiniteSet(B) /\ Cardinality(A) \in Nat /\ Cardinality(B) \in Nat
         /\ Cardinality(B) <= Cardinality(A)
  BY FS_Subset, FS_CardinalityType

LEMMA TimesGrows ==
  ASSUME NEW L \in Nat, NEW a \in Nat, NEW b \in Nat, a <= b
  PROVE  L * a <= L * b /\ L * a \in Nat /\ L * b \in Nat
<1>1. PICK k \in Nat : b = a + k
  BY b - a \in Nat
<1>2. L * (a + k) = L * a + L * k
  OBVIOUS
<1>3. L * a \in Nat /\ L * k \in Nat
  OBVIOUS
<1> QED BY <1>1, <1>2, <1>3

(* What P runs may still cost is allowed for: it stays so when the runs    *)
(* grow no more than the allowance, and when one is paid.                  *)
LEMMA AllowanceGrows ==
  ASSUME NEW L \in Nat, NEW O \in Nat, NEW S \in Nat, NEW P \in Nat, NEW U \in Nat, NEW C \in Int,
         NEW Q \in Nat, NEW V \in Nat,
         S + L * P <= C + L * (O + U), Q + U <= P + V
  PROVE  S + L * Q <= C + L * (O + V)
<1>1. L * (Q + (O + U)) <= L * (P + (O + V))
  BY TimesGrows
<1>2. L * (Q + (O + U)) = L * Q + L * (O + U) /\ L * (P + (O + V)) = L * P + L * (O + V)
  OBVIOUS
<1>3. L * Q \in Nat /\ L * (O + U) \in Nat /\ L * P \in Nat /\ L * (O + V) \in Nat
  OBVIOUS
<1> QED BY <1>1, <1>2, <1>3

LEMMA AllowancePaid ==
  ASSUME NEW L \in Nat, NEW S \in Nat, NEW P \in Nat, NEW B \in Int, NEW Q \in Nat, NEW T \in Nat,
         S + L * P <= B, Q + 1 <= P, T <= S + L
  PROVE  T + L * Q <= B
<1>1. L * (Q + 1) <= L * P
  BY TimesGrows
<1>2. L * (Q + 1) = L * Q + L
  OBVIOUS
<1>3. L * Q \in Nat /\ L * P \in Nat
  OBVIOUS
<1> QED BY <1>1, <1>2, <1>3

-----------------------------------------------------------------------------
(* The message limit.                                                      *)
Forwarded(t) == SumFunctionOnSet(forwarded, Span(t))
ClosedIn(t) == SumFunctionOnSet(closed, Span(t))

(* Nothing has happened yet at instants to come.                           *)
FutureEmpty == \A i \in Times : i > now => forwarded[i] = 0 /\ closed[i] = 0

(* What the counter knows of a span under way: all of it since the last    *)
(* close when its window began in the span, and with the tail of a window  *)
(* that began before the span, less than the limit.                        *)
Allowed(t) ==
  IF now \notin Span(t) THEN 2 * MaxPerWindow - 1 + MaxPerWindow * ClosedIn(t)
  ELSE IF counter = NoEntry THEN MaxPerWindow - 1 + MaxPerWindow * ClosedIn(t)
  ELSE IF counter.windowStart >= t
       THEN MaxPerWindow - 1 + MaxPerWindow * ClosedIn(t) + counter.count
  ELSE counter.count - 1

Burst == \A t \in SpanStarts : Forwarded(t) <= Allowed(t)

LimitInv == LimitTypeOK /\ FutureEmpty /\ Burst

LEMMA SpanFacts ==
  ASSUME NEW t \in SpanStarts
  PROVE  Span(t) \subseteq Times /\ IsFiniteSet(Span(t)) /\ t \in Nat
<1>1. t \in Int /\ t + Window - 1 \in Int
  BY LimitAssumption DEF SpanStarts
<1> QED BY <1>1, LimitAssumption, FS_Interval DEF SpanStarts, Span, Times

LEMMA SpanSums ==
  ASSUME LimitTypeOK, NEW t \in SpanStarts
  PROVE  Forwarded(t) \in Nat /\ ClosedIn(t) \in Nat /\ MaxPerWindow * ClosedIn(t) \in Nat
<1>1. \A i \in Span(t) : forwarded[i] \in Nat /\ closed[i] \in Nat
  BY SpanFacts, LimitAssumption DEF LimitTypeOK
<1>2. SumFunctionOnSet(forwarded, Span(t)) \in Nat /\ SumFunctionOnSet(closed, Span(t)) \in Nat
  BY <1>1, SpanFacts, SumNat
<1> QED BY <1>2, LimitAssumption DEF Forwarded, ClosedIn

(* What one more at this instant does to the sum over a span.              *)
LEMMA SpanGrows ==
  ASSUME LimitTypeOK, NEW t \in SpanStarts, NEW f \in [Times -> Nat]
  PROVE  SumFunctionOnSet([f EXCEPT ![now] = @ + 1], Span(t)) =
           SumFunctionOnSet(f, Span(t)) + (IF now \in Span(t) THEN 1 ELSE 0)
<1> DEFINE g == [f EXCEPT ![now] = @ + 1]
<1>1. now \in Times
  BY DEF LimitTypeOK
<1>2. g \in [Times -> Nat] /\ g[now] = f[now] + 1 /\ \A i \in Times \ {now} : g[i] = f[i]
  BY <1>1
<1>3. \A i \in Span(t) : f[i] \in Int /\ g[i] \in Int
  BY <1>2, SpanFacts
<1> HIDE DEF g
<1>4. SumFunctionOnSet(f, Span(t)) \in Int
  BY <1>3, SpanFacts, SumInt
<1>5. CASE now \in Span(t)
  <2>1. \A i \in Span(t) \ {now} : f[i] = g[i]
    BY <1>2, SpanFacts
  <2>2. SumFunctionOnSet(g, Span(t)) = SumFunctionOnSet(f, Span(t)) - f[now] + g[now]
    BY <1>3, <1>5, <2>1, SpanFacts, SumChange
  <2> QED BY <1>1, <1>2, <1>4, <1>5, <2>2 DEF g
<1>6. CASE now \notin Span(t)
  <2>1. \A i \in Span(t) : f[i] = g[i]
    BY <1>2, <1>6, SpanFacts
  <2>2. SumFunctionOnSet(g, Span(t)) = SumFunctionOnSet(f, Span(t))
    BY <1>3, <2>1, SpanFacts, SumSame
  <2> QED BY <1>4, <1>6, <2>2 DEF g
<1> QED BY <1>5, <1>6

LEMMA LimitInvInit == LimitInit => LimitInv
<1> SUFFICES ASSUME LimitInit PROVE LimitInv
  OBVIOUS
<1>1. LimitTypeOK
  BY LimitAssumption DEF LimitInit, LimitTypeOK, Times
<1>2. FutureEmpty
  BY DEF LimitInit, FutureEmpty
<1>3. ASSUME NEW t \in SpanStarts PROVE Forwarded(t) <= Allowed(t)
  <2>1. \A i \in Span(t) : forwarded[i] = 0
    BY SpanFacts DEF LimitInit
  <2>2. Forwarded(t) = 0
    BY <2>1, SpanFacts, SumZero DEF Forwarded
  <2>3. MaxPerWindow * ClosedIn(t) \in Nat
    BY <1>1, SpanSums
  <2>4. Allowed(t) = 2 * MaxPerWindow - 1 + MaxPerWindow * ClosedIn(t)
          \/ Allowed(t) = MaxPerWindow - 1 + MaxPerWindow * ClosedIn(t)
    BY DEF Allowed, LimitInit
  <2> QED BY <2>2, <2>3, <2>4, LimitAssumption
<1> QED BY <1>1, <1>2, <1>3 DEF LimitInv, Burst

(* The counter after a message and after the window's length.              *)
LEMMA LimitTypeNext == LimitInv /\ [LimitNext]_limitVars => LimitTypeOK' /\ FutureEmpty'
<1> SUFFICES ASSUME LimitInv, [LimitNext]_limitVars PROVE LimitTypeOK' /\ FutureEmpty'
  OBVIOUS
<1> USE LimitAssumption DEF LimitInv, LimitTypeOK, FutureEmpty
<1>1. ASSUME NEW s \in Sockets, Connect(s) PROVE LimitTypeOK' /\ FutureEmpty'
  BY <1>1 DEF Connect
<1>2. ASSUME NEW s \in Sockets, Close(s) PROVE LimitTypeOK' /\ FutureEmpty'
  <2>1. IsFiniteSet(Times) /\ DOMAIN closed = Times
    BY FS_Interval DEF Times
  <2>2. \A i \in Times : closed[i] \in Nat /\ closed[i] \in Int
    OBVIOUS
  <2>3. SumFunctionOnSet(closed, Times) = closed[now] + SumFunctionOnSet(closed, Times \ {now})
    BY <2>1, <2>2, SumSplit
  <2>4. IsFiniteSet(Times \ {now})
    BY <2>1, FS_RemoveElement
  <2>5. SumFunctionOnSet(closed, Times \ {now}) \in Nat
    BY <2>2, <2>4, SumNat
  <2>6. SumFunctionOnSet(closed, Times) < MaxCloses
    BY <1>2, <2>1 DEF Close, SumFunction
  <2>7. closed[now] + 1 \in 0..MaxCloses
    BY <2>2, <2>3, <2>5, <2>6
  <2>8. closed' \in [Times -> 0..MaxCloses]
    BY <1>2, <2>7 DEF Close
  <2>9. \A i \in Times : i # now => closed'[i] = closed[i] /\ forwarded' = forwarded /\ now' = now
    BY <1>2 DEF Close
  <2>10. now \in Nat
    BY DEF Times
  <2>11. FutureEmpty'
    BY <1>2, <2>9, <2>10 DEF Close, Times
  <2> QED BY <1>2, <2>8, <2>11 DEF Close
<1>3. ASSUME NEW s \in Sockets, Message(s) PROVE LimitTypeOK' /\ FutureEmpty'
  <2>1. counter # NoEntry => counter.count \in 1..MaxPerWindow /\ counter.windowStart \in 0..now
                             /\ counter = [count |-> counter.count, windowStart |-> counter.windowStart]
    OBVIOUS
  <2>2. counter' \in [count : 1..MaxPerWindow, windowStart : 0..now]
    <3>1. CASE Expired
      BY <1>3, <3>1 DEF Message, Times
    <3>2. CASE ~Expired
      BY <1>3, <2>1, <3>2 DEF Message, Expired
    <3> QED BY <3>1, <3>2
  <2>3. forwarded' \in [Times -> Nat]
    BY <1>3 DEF Message
  <2>4. FutureEmpty'
    <3>1. \A i \in Times : i # now => forwarded'[i] = forwarded[i]
      BY <1>3 DEF Message
    <3>2. now \in Nat /\ now' = now /\ closed' = closed
      BY <1>3 DEF Times, Message
    <3> QED BY <3>1, <3>2 DEF Times
  <2> QED BY <1>3, <2>2, <2>3, <2>4 DEF Message
<1>4. CASE Tick
  <2>1. now' \in Times /\ now' = now + 1 /\ now \in Nat
    BY <1>4 DEF Tick, Times
  <2>2. counter' \in {NoEntry} \cup [count : 1..MaxPerWindow, windowStart : 0..now']
    BY <1>4, <2>1 DEF Tick
  <2>3. FutureEmpty'
    BY <1>4, <2>1 DEF Tick, Times
  <2> QED BY <1>4, <2>1, <2>2, <2>3 DEF Tick
<1>5. CASE UNCHANGED limitVars
  BY <1>5 DEF limitVars
<1> QED BY <1>1, <1>2, <1>3, <1>4, <1>5 DEF LimitNext

(* One span: F of the messages were let through, p is the limit times the  *)
(* closes in it.                                                           *)
LEMMA BurstKept ==
  ASSUME LimitInv, LimitTypeOK', [LimitNext]_limitVars, NEW t \in SpanStarts
  PROVE  Forwarded(t)' <= Allowed(t)'
<1> USE LimitAssumption
<1>1. PICK F \in Nat : F = Forwarded(t)
  BY SpanSums DEF LimitInv
<1>2. PICK C \in Nat : C = ClosedIn(t)
  BY SpanSums DEF LimitInv
<1>3. PICK p \in Nat : p = MaxPerWindow * C
  BY <1>2, SpanSums DEF LimitInv
<1>4. F <= Allowed(t)
  BY <1>1 DEF LimitInv, Burst
<1>5. /\ now \in Nat /\ t \in Nat
      /\ \/ counter = NoEntry
         \/ /\ counter.count \in 1..MaxPerWindow /\ counter.windowStart \in 0..now
            /\ counter # NoEntry
            /\ counter = [count |-> counter.count, windowStart |-> counter.windowStart]
  <2>1. now \in Nat /\ t \in Nat
    BY SpanFacts DEF LimitInv, LimitTypeOK, Times
  <2>2. counter = NoEntry \/ counter \in [count : 1..MaxPerWindow, windowStart : 0..now]
    BY DEF LimitInv, LimitTypeOK
  <2> QED BY <2>1, <2>2
<1>6. now \in Span(t) <=> t <= now /\ now < t + Window
  BY <1>5 DEF Span
<1>7. ASSUME NEW s \in Sockets, Connect(s) PROVE Forwarded(t)' <= Allowed(t)'
  BY <1>1, <1>4, <1>7 DEF Connect, Forwarded, Allowed, ClosedIn
<1>8. ASSUME NEW s \in Sockets, Close(s) PROVE Forwarded(t)' <= Allowed(t)'
  <2>1. closed \in [Times -> Nat]
    BY DEF LimitInv, LimitTypeOK
  <2>2. SumFunctionOnSet([closed EXCEPT ![now] = @ + 1], Span(t)) = C + (IF now \in Span(t) THEN 1 ELSE 0)
    BY <1>2, <2>1, SpanGrows DEF ClosedIn, LimitInv
  <2>3. ClosedIn(t)' = C + (IF now \in Span(t) THEN 1 ELSE 0) /\ Forwarded(t)' = F
    BY <1>1, <1>8, <2>2 DEF Close, ClosedIn, Forwarded
  <2>4. CASE now \in Span(t)
    <3>1. MaxPerWindow * ClosedIn(t)' = p + MaxPerWindow
      BY <1>3, <2>3, <2>4
    <3>2. Allowed(t)' = MaxPerWindow - 1 + (p + MaxPerWindow)
      BY <1>8, <2>4, <3>1 DEF Close, Allowed
    <3>3. Allowed(t) <= MaxPerWindow - 1 + (p + MaxPerWindow)
      BY <1>2, <1>3, <1>5, <2>4 DEF Allowed
    <3>4. Allowed(t) \in Int
      BY <1>2, <1>3, <1>5, <2>4 DEF Allowed
    <3> QED BY <1>4, <2>3, <3>2, <3>3, <3>4
  <2>5. CASE now \notin Span(t)
    BY <1>2, <1>4, <1>8, <2>3, <2>5 DEF Close, Allowed
  <2> QED BY <2>4, <2>5
<1>9. ASSUME NEW s \in Sockets, Message(s) PROVE Forwarded(t)' <= Allowed(t)'
  <2>1. SumFunctionOnSet([forwarded EXCEPT ![now] = @ + 1], Span(t)) = F + (IF now \in Span(t) THEN 1 ELSE 0)
    BY <1>1, SpanGrows DEF Forwarded, LimitInv, LimitTypeOK
  <2>2. Forwarded(t)' = F + (IF now \in Span(t) THEN 1 ELSE 0) /\ ClosedIn(t)' = C /\ now' = now
    BY <1>2, <1>9, <2>1 DEF Message, ClosedIn, Forwarded
  <2>3. CASE now \notin Span(t)
    BY <1>2, <1>4, <2>2, <2>3 DEF Allowed
  <2>4. CASE now \in Span(t) /\ Expired
    <3>1. counter'.windowStart = now /\ counter'.count = 1 /\ counter' # NoEntry
      BY <1>9, <2>4 DEF Message, NoEntry
    <3>2. Allowed(t)' = MaxPerWindow - 1 + p + 1
      BY <1>3, <1>6, <2>2, <2>4, <3>1 DEF Allowed
    <3>3. Allowed(t) <= MaxPerWindow - 1 + p
      BY <1>2, <1>3, <1>5, <1>6, <2>4 DEF Allowed, Expired
    <3>4. Allowed(t) \in Int
      BY <1>2, <1>3, <1>5, <2>4 DEF Allowed
    <3> QED BY <1>4, <2>2, <2>4, <3>2, <3>3, <3>4
  <2>5. CASE now \in Span(t) /\ ~Expired
    <3>1. /\ counter'.windowStart = counter.windowStart
          /\ counter'.count = counter.count + 1 /\ counter # NoEntry /\ counter' # NoEntry
      BY <1>5, <1>9, <2>5 DEF Message, Expired, NoEntry
    <3>2. Allowed(t)' = Allowed(t) + 1 /\ Allowed(t) \in Int
      BY <1>2, <1>3, <1>5, <2>2, <2>5, <3>1 DEF Allowed
    <3> QED BY <1>4, <2>2, <2>5, <3>2
  <2> QED BY <2>3, <2>4, <2>5
<1>10. CASE Tick
  <2>1. Forwarded(t)' = F /\ ClosedIn(t)' = C /\ now' = now + 1 /\ counter' = counter
    BY <1>1, <1>2, <1>10 DEF Tick, Forwarded, ClosedIn
  <2>2. CASE now' \notin Span(t)
    <3>1. Allowed(t)' = 2 * MaxPerWindow - 1 + p
      BY <1>3, <2>1, <2>2 DEF Allowed
    <3>2. Allowed(t) <= 2 * MaxPerWindow - 1 + p /\ Allowed(t) \in Int
      BY <1>2, <1>3, <1>5 DEF Allowed
    <3> QED BY <1>4, <2>1, <3>1, <3>2
  <2>3. CASE now' \in Span(t) /\ now \in Span(t)
    BY <1>2, <1>4, <2>1, <2>3 DEF Allowed
  <2>4. CASE now' \in Span(t) /\ now \notin Span(t)
    <3>1. now < t
      BY <1>5, <1>6, <2>1, <2>4 DEF Span
    <3>2. \A i \in Span(t) : forwarded[i] = 0
      BY <1>5, <3>1, SpanFacts DEF Span, LimitInv, FutureEmpty, Times
    <3>3. F = 0
      BY <1>1, <3>2, SpanFacts, SumZero DEF Forwarded
    <3>4. Allowed(t)' >= 0 /\ Allowed(t)' \in Int
      BY <1>3, <1>5, <2>1, <2>4, <3>1 DEF Allowed
    <3> QED BY <2>1, <3>3, <3>4
  <2> QED BY <2>2, <2>3, <2>4
<1>11. CASE UNCHANGED limitVars
  BY <1>1, <1>4, <1>11 DEF limitVars, Forwarded, Allowed, ClosedIn
<1> QED BY <1>7, <1>8, <1>9, <1>10, <1>11 DEF LimitNext

THEOREM LimitInvariant == LimitSpec => []LimitInv
<1>1. LimitInv /\ [LimitNext]_limitVars => LimitInv'
  <2> SUFFICES ASSUME LimitInv, [LimitNext]_limitVars PROVE LimitInv'
    OBVIOUS
  <2>1. LimitTypeOK' /\ FutureEmpty'
    BY LimitTypeNext
  <2>2. \A t \in SpanStarts : Forwarded(t)' <= Allowed(t)'
    BY <2>1, BurstKept
  <2>3. Burst'
    BY <2>2 DEF Burst
  <2> QED BY <2>1, <2>3 DEF LimitInv
<1> QED BY LimitInvInit, <1>1, PTL DEF LimitSpec

(* chat.route.ts: in a span of one window's length at any offset, fewer    *)
(* than twice the limit get through, and one limit more for each close.    *)
THEOREM BurstAlwaysBounded == LimitSpec => []BurstBounded
<1>1. LimitInv => BurstBounded
  <2> SUFFICES ASSUME LimitInv, NEW t \in SpanStarts
               PROVE  Forwarded(t) <= 2 * MaxPerWindow - 1 + MaxPerWindow * ClosedIn(t)
    BY DEF BurstBounded, Forwarded, ClosedIn
  <2>1. Forwarded(t) <= Allowed(t) /\ Forwarded(t) \in Nat
    BY SpanSums DEF LimitInv, Burst
  <2>2. PICK p \in Nat : p = MaxPerWindow * ClosedIn(t)
    BY SpanSums DEF LimitInv
  <2>3. Allowed(t) <= 2 * MaxPerWindow - 1 + p /\ Allowed(t) \in Int
    BY <2>2, LimitAssumption DEF Allowed, LimitInv, LimitTypeOK
  <2> QED BY <2>1, <2>2, <2>3, LimitAssumption
<1> QED BY LimitInvariant, <1>1, PTL

-----------------------------------------------------------------------------
(* The cap and the quotas.                                                 *)

(* Messages the bound on overlap counts; those past the cap's check.       *)
Sending(u) == {m \in Runs : userOf[m] = u /\ pc[m] \in UnderWay \ {"recording"}}
PastCap(u) == {m \in Runs : userOf[m] = u /\ pc[m] \in {"quota", "running", "recording"}}

(* Runs past the quota's check, and those that will pass it unchecked as   *)
(* they passed the cap's.                                                  *)
PastQuota(t) == {m \in Runs : /\ teamOf[userOf[m]] = t
                              /\ \/ pc[m] \in {"running", "recording"}
                                 \/ pc[m] = "quota" /\ m \in unchecked}

(* A cost is recorded last, and only a check of the runtime counts as      *)
(* failed.                                                                 *)
StagesKept ==
  \A m \in Runs : /\ recordedOn[m] # Never => pc[m] = "done" /\ recordedOn[m] <= day
                  /\ pc[m] \in {"idle", "gateway", "cap"} => m \notin unchecked

OverlapKept == \A u \in Users : Cardinality(Sending(u)) <= Overlap

(* A cap of 0 lets nobody past who was checked.                            *)
Lag == IF Cap = 0 THEN 0 ELSE Overlap

(* What a user may still cost today, each run past the check at its most.  *)
CapKeptFor(u) ==
  /\ Cardinality(PastCap(u)) <= Lag + UncheckedBy({u})
  /\ \A d \in 0..LastDay :
       SpentOn(u, d) + (IF d = day THEN RunCostLimit * Cardinality(PastCap(u)) ELSE 0)
         <= (Cap - 1) + RunCostLimit * (Overlap + UncheckedBy({u}))

CapKept == \A u \in Users : CapKeptFor(u)

(* Before a team has a quota, only failed checks let its runs through.     *)
UnsetRefuses ==
  \A m \in Runs :
    /\ quota[teamOf[userOf[m]]] = NoQuota
    /\ pc[m] \in {"running", "recording"} \/ recordedOn[m] # Never
    => m \in unchecked

TeamKept(t, start) ==
  TeamSpend(t, start, start + PeriodDays) + RunCostLimit * Cardinality(PastQuota(t)) <=
    (Max(QuotaAmounts) - 1)
      + RunCostLimit * (Overlap * Cardinality(Members(t)) + UncheckedBy(Members(t)))

QuotaKept == \A t \in Teams : quota[t] # NoQuota => TeamKept(t, quota[t].start)

CostInv == /\ CostTypeOK /\ StagesKept /\ OverlapKept /\ CapKept
           /\ UnsetRefuses /\ QuotaKept

RunStep(m) == \/ MessageSent(m) \/ GatewayCheck(m) \/ CapCheck(m) \/ QuotaCheck(m)
              \/ CheckFails(m) \/ LlmTurn(m) \/ RunCompletes(m) \/ RunThrows(m)
              \/ RecordArrives(m) \/ RecordLost(m)

LEMMA CostInvInit == CostInit => CostInv
<1> SUFFICES ASSUME CostInit PROVE CostInv
  OBVIOUS
<1> USE CostAssumption
<1>1. CostTypeOK
  BY DEF CostInit, CostTypeOK
<1>2. StagesKept /\ UnsetRefuses
  BY DEF CostInit, StagesKept, UnsetRefuses, Never
<1>3. QuotaKept
  BY DEF CostInit, QuotaKept
<1>4. OverlapKept
  <2>1. ASSUME NEW u \in Users PROVE Sending(u) = {}
    BY DEF CostInit, Sending, UnderWay, Waiting
  <2> QED BY <2>1, FS_EmptySet DEF OverlapKept
<1>5. CapKept
  <2> SUFFICES ASSUME NEW u \in Users, NEW d \in 0..LastDay
               PROVE  /\ Cardinality(PastCap(u)) <= Lag + UncheckedBy({u})
                      /\ SpentOn(u, d) + (IF d = day THEN RunCostLimit * Cardinality(PastCap(u)) ELSE 0)
                           <= (Cap - 1) + RunCostLimit * (Overlap + UncheckedBy({u}))
    BY DEF CapKept, CapKeptFor, CostInit
  <2>1. PastCap(u) = {} /\ {m \in unchecked : userOf[m] \in {u}} = {}
    BY DEF CostInit, PastCap
  <2>2. {m \in Runs : userOf[m] = u /\ recordedOn[m] = d} = {}
    BY DEF CostInit, Never
  <2>3. SpentOn(u, d) = 0
    BY <2>2, SumEmpty DEF SpentOn, TotalCost
  <2>4. Cardinality(PastCap(u)) = 0 /\ UncheckedBy({u}) = 0
    BY <2>1, FS_EmptySet DEF UncheckedBy
  <2>5. RunCostLimit * 0 = 0 /\ RunCostLimit * (Overlap + 0) >= 1
    OBVIOUS
  <2> QED BY <2>3, <2>4, <2>5 DEF Lag
<1> QED BY <1>1, <1>2, <1>3, <1>4, <1>5 DEF CostInv

LEMMA CostTypeNext ==
  ASSUME CostInv, [CostNext]_costVars PROVE CostTypeOK' /\ StagesKept' /\ UnsetRefuses'
<1> USE CostAssumption DEF CostInv, CostTypeOK, StagesKept, UnsetRefuses, Never, UnderWay, Waiting, GoTo
<1>1. ASSUME NEW m \in Runs, MessageSent(m) PROVE CostTypeOK' /\ StagesKept' /\ UnsetRefuses'
  BY <1>1 DEF MessageSent
<1>2. ASSUME NEW m \in Runs, GatewayCheck(m) PROVE CostTypeOK' /\ StagesKept' /\ UnsetRefuses'
  BY <1>2 DEF GatewayCheck, Check
<1>3. ASSUME NEW m \in Runs, CapCheck(m) PROVE CostTypeOK' /\ StagesKept' /\ UnsetRefuses'
  BY <1>3 DEF CapCheck, Check
<1>4. ASSUME NEW m \in Runs, QuotaCheck(m) PROVE CostTypeOK' /\ StagesKept' /\ UnsetRefuses'
  <2>1. quota[teamOf[userOf[m]]] = NoQuota => pc' = [pc EXCEPT ![m] = "refused"]
    BY <1>4 DEF QuotaCheck, Check, AtCapacity
  <2> QED BY <1>4, <2>1 DEF QuotaCheck, Check
<1>5. ASSUME NEW m \in Runs, CheckFails(m) PROVE CostTypeOK' /\ StagesKept' /\ UnsetRefuses'
  BY <1>5 DEF CheckFails
<1>6. ASSUME NEW m \in Runs, LlmTurn(m) PROVE CostTypeOK' /\ StagesKept' /\ UnsetRefuses'
  BY <1>6 DEF LlmTurn
<1>7. ASSUME NEW m \in Runs, RunCompletes(m) \/ RunThrows(m) \/ RecordLost(m)
      PROVE  CostTypeOK' /\ StagesKept' /\ UnsetRefuses'
  BY <1>7 DEF RunCompletes, RunThrows, RecordLost
<1>8. ASSUME NEW m \in Runs, RecordArrives(m) PROVE CostTypeOK' /\ StagesKept' /\ UnsetRefuses'
  BY <1>8 DEF RecordArrives
<1>9. ASSUME NEW t \in Teams, NEW amount \in QuotaAmounts, SetTeamQuota(t, amount)
      PROVE  CostTypeOK' /\ StagesKept' /\ UnsetRefuses'
  <2>1. PICK s \in 0..LastDay : quota' = [quota EXCEPT ![t] = [amount |-> amount, start |-> s]]
    BY <1>9 DEF SetTeamQuota
  <2>2. quota'[t] # NoQuota /\ \A x \in Teams \ {t} : quota'[x] = quota[x]
    BY <2>1 DEF NoQuota
  <2>3. quota' \in [Teams -> {NoQuota} \cup [amount : QuotaAmounts, start : 0..LastDay]]
    BY <2>1
  <2> QED BY <1>9, <2>2, <2>3 DEF SetTeamQuota
<1>10. CASE NextDay
  BY <1>10 DEF NextDay
<1>11. CASE UNCHANGED costVars
  BY <1>11 DEF costVars
<1> QED BY <1>1, <1>2, <1>3, <1>4, <1>5, <1>6, <1>7, <1>8, <1>9, <1>10, <1>11 DEF CostNext

(* A step of one message leaves the others alone.                          *)
LEMMA RunEffect ==
  ASSUME CostInv, NEW m \in Runs, RunStep(m)
  PROVE  /\ \A n \in Runs \ {m} : /\ pc'[n] = pc[n] /\ cost'[n] = cost[n]
                                  /\ recordedOn'[n] = recordedOn[n]
                                  /\ n \in unchecked' <=> n \in unchecked
         /\ unchecked \subseteq unchecked' /\ day' = day /\ quota' = quota
  BY DEF CostInv, CostTypeOK, RunStep, MessageSent, GatewayCheck, CapCheck, QuotaCheck, Check,
         CheckFails, LlmTurn, RunCompletes, RunThrows, RecordArrives, RecordLost, GoTo

LEMMA CountsFinite ==
  ASSUME CostTypeOK
  PROVE  /\ \A u : /\ IsFiniteSet(Sending(u)) /\ Cardinality(Sending(u)) \in Nat
                   /\ IsFiniteSet(PastCap(u)) /\ Cardinality(PastCap(u)) \in Nat
         /\ \A t : IsFiniteSet(PastQuota(t)) /\ Cardinality(PastQuota(t)) \in Nat
         /\ \A S : /\ IsFiniteSet({m \in unchecked : userOf[m] \in S}) /\ UncheckedBy(S) \in Nat
         /\ \A t : IsFiniteSet(Members(t)) /\ Cardinality(Members(t)) \in Nat
<1> USE CostAssumption
<1>1. \A S \in SUBSET Runs : IsFiniteSet(S) /\ Cardinality(S) \in Nat
  BY FS_Subset, FS_CardinalityType
<1>2. \A u : Sending(u) \in SUBSET Runs /\ PastCap(u) \in SUBSET Runs
  BY DEF Sending, PastCap
<1>3. \A t : PastQuota(t) \in SUBSET Runs
  BY DEF PastQuota
<1>4. \A S : {m \in unchecked : userOf[m] \in S} \in SUBSET Runs
  BY DEF CostTypeOK
<1>5. \A t : Members(t) \in SUBSET Users
  BY DEF Members
<1>6. \A t : IsFiniteSet(Members(t)) /\ Cardinality(Members(t)) \in Nat
  BY <1>5, FS_Subset, FS_CardinalityType
<1> QED BY <1>1, <1>2, <1>3, <1>4, <1>6 DEF UncheckedBy

LEMMA CountsFiniteNext ==
  ASSUME CostTypeOK'
  PROVE  /\ \A u : IsFiniteSet(PastCap(u)') /\ Cardinality(PastCap(u)') \in Nat
         /\ \A t : IsFiniteSet(PastQuota(t)') /\ Cardinality(PastQuota(t)') \in Nat
         /\ \A S : /\ IsFiniteSet({m \in unchecked' : userOf[m] \in S})
                   /\ UncheckedBy(S)' = Cardinality({m \in unchecked' : userOf[m] \in S})
                   /\ UncheckedBy(S)' \in Nat
<1>1. \A S \in SUBSET Runs : IsFiniteSet(S) /\ Cardinality(S) \in Nat
  BY CostAssumption, FS_Subset, FS_CardinalityType
<1>2. \A u : PastCap(u)' \in SUBSET Runs
  BY DEF PastCap
<1>3. \A t : PastQuota(t)' \in SUBSET Runs
  BY DEF PastQuota
<1>4. \A S : {m \in unchecked' : userOf[m] \in S} \in SUBSET Runs
  BY DEF CostTypeOK
<1> QED BY <1>1, <1>2, <1>3, <1>4 DEF UncheckedBy

LEMMA OverlapNext ==
  ASSUME CostInv, CostTypeOK', [CostNext]_costVars PROVE OverlapKept'
<1> SUFFICES ASSUME NEW u \in Users PROVE Cardinality(Sending(u)') <= Overlap
  BY DEF OverlapKept
<1>1. Cardinality(Sending(u)) <= Overlap /\ IsFiniteSet(Sending(u))
  BY CountsFinite DEF CostInv, OverlapKept
<1>2. SUFFICES ASSUME ~(Sending(u)' \subseteq Sending(u)) PROVE Cardinality(Sending(u)') <= Overlap
  BY <1>1, CountSubset, CostAssumption
<1>3. PICK m \in Runs : MessageSent(m) /\ userOf[m] = u
  <2> USE DEF CostInv, CostTypeOK, Sending, UnderWay, Waiting, GoTo
  <2>1. ASSUME NEW m \in Runs, RunStep(m), ~MessageSent(m) PROVE FALSE
    BY <1>2, <2>1 DEF RunStep, GatewayCheck, CapCheck, QuotaCheck, Check,
         CheckFails, LlmTurn, RunCompletes, RunThrows, RecordArrives, RecordLost
  <2>2. ASSUME NEW m \in Runs, MessageSent(m), userOf[m] # u PROVE FALSE
    BY <1>2, <2>2 DEF MessageSent
  <2>3. ASSUME NEW t \in Teams, NEW amount \in QuotaAmounts, SetTeamQuota(t, amount) PROVE FALSE
    BY <1>2, <2>3 DEF SetTeamQuota
  <2>4. ~NextDay /\ ~UNCHANGED costVars
    BY <1>2 DEF NextDay, costVars
  <2> QED BY <2>1, <2>2, <2>3, <2>4 DEF CostNext, RunStep
<1>4. Sending(u)' \subseteq Sending(u) \cup {m}
  BY <1>3 DEF MessageSent, GoTo, Sending, CostInv, CostTypeOK
<1>5. Cardinality(Sending(u)) < Overlap
  BY <1>3 DEF MessageSent, Sending
<1>6. Cardinality(Sending(u)') <= Cardinality(Sending(u)) + 1
  BY <1>1, <1>4, CountGrows
<1>7. Cardinality(Sending(u)') \in Nat
  BY <1>1, <1>4, CountGrows
<1> QED BY <1>5, <1>6, <1>7, <1>1, CountsFinite, CostAssumption DEF CostInv

(* What a set of recorded runs cost is a number, at most L for each, and   *)
(* only a record changes it.                                               *)
LEMMA LedgerSums ==
  ASSUME CostTypeOK, NEW S \in SUBSET Runs
  PROVE  /\ IsFiniteSet(S) /\ Cardinality(S) \in Nat
         /\ SumFunctionOnSet(cost, S) \in Nat
         /\ SumFunctionOnSet(cost, S) <= RunCostLimit * Cardinality(S)
<1>1. IsFiniteSet(S) /\ Cardinality(S) \in Nat
  BY CostAssumption, FS_Subset, FS_CardinalityType
<1>2. \A m \in S : cost[m] \in 0..RunCostLimit
  BY DEF CostTypeOK
<1> QED BY <1>1, <1>2, SumBounds, CostAssumption

RecordedOnly(S) == \A m \in S : recordedOn[m] # Never

LEMMA LedgerSame ==
  ASSUME CostTypeOK, CostTypeOK', NEW S \in SUBSET Runs, RecordedOnly(S),
         \A m \in Runs : recordedOn[m] # Never => cost'[m] = cost[m]
  PROVE  SumFunctionOnSet(cost', S) = SumFunctionOnSet(cost, S)
<1>1. PICK c : c = cost'
  OBVIOUS
<1>2. PICK b : b = cost
  OBVIOUS
<1>3. \A m \in S : b[m] = c[m]
  BY <1>1, <1>2 DEF RecordedOnly
<1>4. \A m \in S : b[m] \in Int
  BY <1>2, CostAssumption DEF CostTypeOK
<1>5. SumFunctionOnSet(b, S) = SumFunctionOnSet(c, S)
  BY <1>3, <1>4, LedgerSums, SumSame
<1> QED BY <1>1, <1>2, <1>5

(* The sums of the ledger when m is recorded.                              *)
LEMMA LedgerGrows ==
  ASSUME CostTypeOK, NEW S \in SUBSET Runs, NEW m \in Runs \ S
  PROVE  SumFunctionOnSet(cost, S \cup {m}) <= SumFunctionOnSet(cost, S) + RunCostLimit
<1>1. \A n \in S \cup {m} : cost[n] \in Int
  BY CostAssumption DEF CostTypeOK
<1>2. SumFunctionOnSet(cost, S \cup {m}) = cost[m] + SumFunctionOnSet(cost, S)
  BY <1>1, LedgerSums, SumAdd
<1> QED BY <1>2, LedgerSums, CostAssumption DEF CostTypeOK

OnDay(u, d) == {m \in Runs : userOf[m] = u /\ recordedOn[m] = d}

LEMMA SpentIsSum ==
  ASSUME NEW u, NEW d
  PROVE  /\ SpentOn(u, d) = SumFunctionOnSet(cost, OnDay(u, d))
         /\ SpentOn(u, d)' = SumFunctionOnSet(cost', OnDay(u, d)')
         /\ OnDay(u, d) \in SUBSET Runs
  BY DEF SpentOn, TotalCost, OnDay

(* The cap is kept when the runs past its check grow no more than those    *)
(* that were not checked.                                                  *)
LEMMA CapKeptUnrecorded ==
  ASSUME CostInv, CostTypeOK', NEW u \in Users, day' = day, recordedOn' = recordedOn,
         \A m \in Runs : recordedOn[m] # Never => cost'[m] = cost[m],
         Cardinality(PastCap(u)') + UncheckedBy({u}) <= Cardinality(PastCap(u)) + UncheckedBy({u})',
         UncheckedBy({u}) <= UncheckedBy({u})'
  PROVE  CapKeptFor(u)'
<1> USE CostAssumption
<1>1. PICK P \in Nat : P = Cardinality(PastCap(u))
  BY CountsFinite DEF CostInv
<1>2. PICK Q \in Nat : Q = Cardinality(PastCap(u)')
  BY CountsFiniteNext
<1>3. PICK U \in Nat : U = UncheckedBy({u})
  BY CountsFinite DEF CostInv
<1>4. PICK V \in Nat : V = UncheckedBy({u})'
  BY CountsFiniteNext
<1>5. P <= Lag + U /\ Lag \in Nat
  BY <1>1, <1>3 DEF CostInv, CapKept, CapKeptFor, Lag
<1>6. Q <= Lag + V
  BY <1>1, <1>2, <1>3, <1>4, <1>5
<1>7. ASSUME NEW d \in 0..LastDay
      PROVE  SpentOn(u, d)' + (IF d = day' THEN RunCostLimit * Q ELSE 0)
               <= (Cap - 1) + RunCostLimit * (Overlap + V)
  <2>1. OnDay(u, d)' = OnDay(u, d) /\ RecordedOnly(OnDay(u, d))
    BY DEF OnDay, RecordedOnly, Never
  <2>2. SumFunctionOnSet(cost', OnDay(u, d)) = SumFunctionOnSet(cost, OnDay(u, d))
    BY <2>1, LedgerSame, SpentIsSum DEF CostInv
  <2>3. PICK S \in Nat : S = SpentOn(u, d) /\ S = SpentOn(u, d)'
    BY <2>1, <2>2, SpentIsSum, LedgerSums DEF CostInv
  <2>4. S + (IF d = day THEN RunCostLimit * P ELSE 0) <= (Cap - 1) + RunCostLimit * (Overlap + U)
    BY <1>1, <1>3, <2>3 DEF CostInv, CapKept, CapKeptFor
  <2>5. CASE d = day
    <3>1. S + RunCostLimit * Q <= (Cap - 1) + RunCostLimit * (Overlap + V)
      BY <1>1, <1>2, <1>3, <1>4, <2>4, <2>5, AllowanceGrows
    <3> QED BY <2>3, <2>5, <3>1
  <2>6. CASE d # day
    <3>1. RunCostLimit * (Overlap + U) <= RunCostLimit * (Overlap + V)
      BY <1>3, <1>4, TimesGrows
    <3>2. RunCostLimit * (Overlap + U) \in Nat /\ RunCostLimit * (Overlap + V) \in Nat
      OBVIOUS
    <3> QED BY <2>3, <2>4, <2>6, <3>1, <3>2
  <2> QED BY <2>5, <2>6
<1> QED BY <1>2, <1>4, <1>6, <1>7 DEF CapKeptFor

LEMMA CapKeptSmaller ==
  ASSUME CostInv, CostTypeOK', NEW u \in Users, day' = day, recordedOn' = recordedOn,
         \A m \in Runs : recordedOn[m] # Never => cost'[m] = cost[m],
         PastCap(u)' \subseteq PastCap(u), unchecked \subseteq unchecked'
  PROVE  CapKeptFor(u)'
<1>1. /\ Cardinality(PastCap(u)') <= Cardinality(PastCap(u))
      /\ Cardinality(PastCap(u)) \in Nat /\ Cardinality(PastCap(u)') \in Nat
  BY CountsFinite, CountSubset DEF CostInv
<1>2. {m \in unchecked : userOf[m] \in {u}} \subseteq {m \in unchecked' : userOf[m] \in {u}}
  OBVIOUS
<1>3. /\ UncheckedBy({u}) <= UncheckedBy({u})'
      /\ UncheckedBy({u}) \in Nat /\ UncheckedBy({u})' \in Nat
  BY <1>2, CountsFiniteNext, CountSubset DEF UncheckedBy
<1> QED BY <1>1, <1>3, CapKeptUnrecorded

(* The runtime's check lets a run through: the ledger is below the cap and *)
(* every run past the check is one the bound on overlap counts.            *)
LEMMA CapKeptByCheck ==
  ASSUME CostInv, CostTypeOK', NEW m \in Runs, CapCheck(m), NEW u \in Users
  PROVE  CapKeptFor(u)'
<1> USE CostAssumption
<1>1. /\ day' = day /\ recordedOn' = recordedOn /\ cost' = cost /\ unchecked' = unchecked
      /\ pc[m] = "cap" /\ \A n \in Runs : pc[n] # "recording"
      /\ pc' = [pc EXCEPT ![m] = IF CapExceeded(userOf[m]) THEN "refused" ELSE "quota"]
  BY DEF CapCheck, Check, GoTo, RecordsDelivered
<1>2. CASE userOf[m] # u \/ CapExceeded(userOf[m])
  <2>1. PastCap(u)' \subseteq PastCap(u)
    BY <1>1, <1>2 DEF PastCap, CostInv, CostTypeOK
  <2> QED BY <1>1, <2>1, CapKeptSmaller
<1>3. CASE userOf[m] = u /\ ~CapExceeded(userOf[m])
  <2>1. PastCap(u)' \subseteq Sending(u)
    BY <1>1, <1>3 DEF PastCap, Sending, UnderWay, Waiting, CostInv, CostTypeOK
  <2>2. PICK Q \in Nat : Q = Cardinality(PastCap(u)') /\ Q <= Overlap
    BY <2>1, CountsFinite, CountSubset DEF CostInv, OverlapKept
  <2>3. PICK U \in Nat : U = UncheckedBy({u}) /\ U = UncheckedBy({u})'
    BY <1>1, CountsFinite DEF CostInv, UncheckedBy
  <2>4. \A d : SpentOn(u, d)' = SpentOn(u, d) /\ SpentOn(u, d) \in Nat
    <3> SUFFICES ASSUME NEW d PROVE SpentOn(u, d)' = SpentOn(u, d) /\ SpentOn(u, d) \in Nat
      OBVIOUS
    <3>1. OnDay(u, d)' = OnDay(u, d)
      BY <1>1 DEF OnDay
    <3>2. SpentOn(u, d)' = SumFunctionOnSet(cost, OnDay(u, d))
      BY <1>1, <3>1, SpentIsSum
    <3>3. SpentOn(u, d) = SumFunctionOnSet(cost, OnDay(u, d)) /\ OnDay(u, d) \in SUBSET Runs
      BY SpentIsSum
    <3> QED BY <3>2, <3>3, LedgerSums DEF CostInv
  <2>5. SpentOn(u, day) < Cap
    BY <1>3, <2>4 DEF CapExceeded, CostInv, CostTypeOK
  <2>6. Lag = Overlap
    BY <2>4, <2>5 DEF Lag
  <2>7. RunCostLimit * Q <= RunCostLimit * (Overlap + U) /\ RunCostLimit * Q \in Nat
        /\ RunCostLimit * (Overlap + U) \in Nat
    BY <2>2, <2>3, TimesGrows
  <2>8. ASSUME NEW d \in 0..LastDay
        PROVE  SpentOn(u, d)' + (IF d = day' THEN RunCostLimit * Q ELSE 0)
                 <= (Cap - 1) + RunCostLimit * (Overlap + U)
    <3>1. CASE d = day
      <4>1. PICK S \in Nat : S = SpentOn(u, d) /\ S = SpentOn(u, d)' /\ S < Cap
        BY <2>4, <2>5, <3>1
      <4> QED BY <1>1, <2>7, <3>1, <4>1
    <3>2. CASE d # day
      <4>1. SpentOn(u, d) + 0 <= (Cap - 1) + RunCostLimit * (Overlap + U)
        BY <2>3, <3>2 DEF CostInv, CapKept, CapKeptFor
      <4> QED BY <1>1, <2>4, <3>2, <4>1
    <3> QED BY <3>1, <3>2
  <2>9. Q <= Lag + U
    BY <2>2, <2>3, <2>6
  <2> QED BY <2>2, <2>3, <2>8, <2>9 DEF CapKeptFor
<1> QED BY <1>2, <1>3

(* A failed check lets a run through: it is one more of either.            *)
LEMMA CapKeptByFailure ==
  ASSUME CostInv, CostTypeOK', NEW m \in Runs, CheckFails(m), NEW u \in Users
  PROVE  CapKeptFor(u)'
<1> USE CostAssumption
<1>1. /\ day' = day /\ recordedOn' = recordedOn /\ cost' = cost /\ unchecked \subseteq unchecked'
      /\ pc[m] = "cap" => unchecked' = unchecked \cup {m} /\ m \notin unchecked
  BY DEF CheckFails, CostInv, StagesKept
<1>2. CASE userOf[m] # u \/ pc[m] # "cap"
  <2>1. PastCap(u)' \subseteq PastCap(u)
    BY <1>2 DEF PastCap, CostInv, CostTypeOK, CheckFails, GoTo, Waiting
  <2> QED BY <1>1, <2>1, CapKeptSmaller
<1>3. CASE userOf[m] = u /\ pc[m] = "cap"
  <2>1. PastCap(u)' \subseteq PastCap(u) \cup {m}
    BY <1>3 DEF PastCap, CostInv, CostTypeOK, CheckFails, GoTo
  <2>2. Cardinality(PastCap(u)') <= Cardinality(PastCap(u)) + 1
    BY <2>1, CountsFinite, CountGrows DEF CostInv
  <2>3. m \in {n \in unchecked' : userOf[n] \in {u}}
    BY <1>1, <1>3
  <2>4. {n \in unchecked : userOf[n] \in {u}} \subseteq {n \in unchecked' : userOf[n] \in {u}} \ {m}
    BY <1>1, <1>3
  <2>5. UncheckedBy({u}) + 1 <= UncheckedBy({u})'
    BY <2>3, <2>4, CountsFiniteNext, CountShrinks DEF UncheckedBy
  <2>6. /\ Cardinality(PastCap(u)) \in Nat /\ Cardinality(PastCap(u)') \in Nat
        /\ UncheckedBy({u}) \in Nat /\ UncheckedBy({u})' \in Nat
    BY CountsFinite, CountsFiniteNext DEF CostInv
  <2> QED BY <1>1, <2>2, <2>5, <2>6, CapKeptUnrecorded
<1> QED BY <1>2, <1>3

(* A record arrives: its run is paid, and costs no more than allowed for.  *)
LEMMA CapKeptByRecord ==
  ASSUME CostInv, CostTypeOK', NEW m \in Runs, RecordArrives(m), NEW u \in Users
  PROVE  CapKeptFor(u)'
<1> USE CostAssumption
<1>1. /\ day' = day /\ cost' = cost /\ unchecked' = unchecked
      /\ pc[m] = "recording" /\ pc' = [pc EXCEPT ![m] = "done"]
      /\ recordedOn' = [recordedOn EXCEPT ![m] = day] /\ recordedOn[m] = Never
  BY DEF RecordArrives, GoTo, CostInv, StagesKept
<1>2. PICK P \in Nat : P = Cardinality(PastCap(u))
  BY CountsFinite DEF CostInv
<1>3. PICK Q \in Nat : Q = Cardinality(PastCap(u)')
  BY CountsFiniteNext
<1>4. PICK U \in Nat : U = UncheckedBy({u}) /\ U = UncheckedBy({u})'
  BY <1>1, CountsFinite DEF CostInv, UncheckedBy
<1>5. IF userOf[m] = u THEN Q + 1 <= P ELSE Q <= P
  <2>1. PastCap(u)' \subseteq PastCap(u) \ {m}
    BY <1>1 DEF PastCap, CostInv, CostTypeOK
  <2>2. userOf[m] = u => m \in PastCap(u)
    BY <1>1 DEF PastCap
  <2>3. CASE userOf[m] = u
    BY <1>2, <1>3, <2>1, <2>2, <2>3, CountsFinite, CountShrinks DEF CostInv
  <2>4. CASE userOf[m] # u
    BY <1>2, <1>3, <2>1, <2>4, CountsFinite, CountSubset DEF CostInv
  <2> QED BY <2>3, <2>4
<1>6. P <= Lag + U /\ Lag \in Nat
  BY <1>2, <1>4 DEF CostInv, CapKept, CapKeptFor, Lag
<1>7. PICK B \in Int : B = (Cap - 1) + RunCostLimit * (Overlap + U)
  OBVIOUS
<1>8. ASSUME NEW d \in 0..LastDay
      PROVE  SpentOn(u, d)' + (IF d = day' THEN RunCostLimit * Q ELSE 0) <= B
  <2>1. PICK S \in Nat : S = SpentOn(u, d)
    BY SpentIsSum, LedgerSums DEF CostInv
  <2>2. S + (IF d = day THEN RunCostLimit * P ELSE 0) <= B
    BY <1>2, <1>4, <1>7, <2>1 DEF CostInv, CapKept, CapKeptFor
  <2>3. CASE d = day /\ userOf[m] = u
    <3>1. OnDay(u, d)' = OnDay(u, d) \cup {m} /\ m \notin OnDay(u, d)
      BY <1>1, <2>3 DEF OnDay, CostInv, CostTypeOK, Never
    <3>2. SpentOn(u, d)' = SumFunctionOnSet(cost, OnDay(u, d) \cup {m})
      BY <1>1, <3>1, SpentIsSum
    <3>3. SpentOn(u, d)' <= S + RunCostLimit
      BY <2>1, <3>1, <3>2, SpentIsSum, LedgerGrows DEF CostInv
    <3>4. OnDay(u, d) \cup {m} \in SUBSET Runs
      BY SpentIsSum
    <3>5. SpentOn(u, d)' \in Nat
      BY <3>2, <3>4, LedgerSums DEF CostInv
    <3> QED BY <1>1, <1>5, <2>2, <2>3, <3>3, <3>5, AllowancePaid
  <2>4. CASE ~(d = day /\ userOf[m] = u)
    <3>1. OnDay(u, d)' = OnDay(u, d)
      BY <1>1, <2>4 DEF OnDay, CostInv, CostTypeOK, Never
    <3>2. SpentOn(u, d)' = S
      BY <1>1, <2>1, <3>1, SpentIsSum
    <3>3. RunCostLimit * Q <= RunCostLimit * P /\ RunCostLimit * Q \in Nat /\ RunCostLimit * P \in Nat
      BY <1>5, TimesGrows
    <3> QED BY <1>1, <2>2, <3>2, <3>3
  <2> QED BY <2>3, <2>4
<1> QED BY <1>3, <1>4, <1>5, <1>6, <1>7, <1>8 DEF CapKeptFor

(* A new day begins with nothing spent, and with the runs of the old one.  *)
LEMMA CapKeptNextDay ==
  ASSUME CostInv, CostTypeOK', NextDay, NEW u \in Users
  PROVE  CapKeptFor(u)'
<1> USE CostAssumption
<1>1. /\ day' = day + 1 /\ UNCHANGED <<pc, cost, recordedOn, unchecked>> /\ day \in Nat
  BY DEF NextDay, CostInv, CostTypeOK
<1>2. PICK P \in Nat : P = Cardinality(PastCap(u)) /\ P = Cardinality(PastCap(u)')
  BY <1>1, CountsFinite DEF CostInv, PastCap
<1>3. PICK U \in Nat : U = UncheckedBy({u}) /\ U = UncheckedBy({u})'
  BY <1>1, CountsFinite DEF CostInv, UncheckedBy
<1>4. P <= Lag + U /\ Lag \in Nat
  BY <1>2, <1>3 DEF CostInv, CapKept, CapKeptFor, Lag
<1>5. RunCostLimit * P <= (Cap - 1) + RunCostLimit * (Overlap + U)
  <2>1. CASE Cap = 0
    <3>1. RunCostLimit * P <= RunCostLimit * U /\ RunCostLimit * P \in Nat /\ RunCostLimit * U \in Nat
      BY <1>4, <2>1, TimesGrows DEF Lag
    <3>2. RunCostLimit * (Overlap + U) = RunCostLimit * Overlap + RunCostLimit * U
      OBVIOUS
    <3>3. RunCostLimit * 1 <= RunCostLimit * Overlap /\ RunCostLimit * Overlap \in Nat
      BY TimesGrows
    <3> QED BY <2>1, <3>1, <3>2, <3>3
  <2>2. CASE Cap # 0
    <3>1. /\ RunCostLimit * P <= RunCostLimit * (Overlap + U) /\ RunCostLimit * P \in Nat
          /\ RunCostLimit * (Overlap + U) \in Nat
      BY <1>4, <2>2, TimesGrows DEF Lag
    <3> QED BY <2>2, <3>1
  <2> QED BY <2>1, <2>2
<1>6. PICK B \in Int : B = (Cap - 1) + RunCostLimit * (Overlap + U)
  OBVIOUS
<1>7. PICK p \in Nat : p = RunCostLimit * P
  OBVIOUS
<1>8. ASSUME NEW d \in 0..LastDay
      PROVE  SpentOn(u, d)' + (IF d = day' THEN p ELSE 0) <= B
  <2>1. OnDay(u, d)' = OnDay(u, d)
    BY <1>1 DEF OnDay
  <2>2. PICK S \in Nat : S = SpentOn(u, d) /\ S = SpentOn(u, d)'
    BY <1>1, <2>1, SpentIsSum, LedgerSums DEF CostInv
  <2>3. CASE d = day + 1
    <3>1. OnDay(u, d) = {}
      BY <1>1, <2>3 DEF OnDay, CostInv, CostTypeOK, StagesKept, Never
    <3>2. S = 0
      BY <2>2, <3>1, SpentIsSum, SumEmpty
    <3> QED BY <1>1, <1>5, <1>6, <1>7, <2>2, <2>3, <3>2
  <2>4. CASE d # day + 1
    <3>1. S + (IF d = day THEN p ELSE 0) <= B
      BY <1>2, <1>3, <1>6, <1>7, <2>2 DEF CostInv, CapKept, CapKeptFor
    <3> QED BY <1>1, <2>2, <2>4, <3>1
  <2> QED BY <2>3, <2>4
<1> QED BY <1>2, <1>3, <1>4, <1>6, <1>7, <1>8 DEF CapKeptFor

LEMMA CapNext ==
  ASSUME CostInv, CostTypeOK', [CostNext]_costVars, NEW u \in Users
  PROVE  CapKeptFor(u)'
<1> USE DEF CostInv, CostTypeOK, PastCap, GoTo
<1>1. ASSUME NEW m \in Runs,
             MessageSent(m) \/ GatewayCheck(m) \/ QuotaCheck(m)
               \/ RunCompletes(m) \/ RunThrows(m) \/ RecordLost(m)
      PROVE  CapKeptFor(u)'
  <2>1. PastCap(u)' \subseteq PastCap(u)
    BY <1>1 DEF MessageSent, GatewayCheck, QuotaCheck, Check, RunCompletes, RunThrows, RecordLost
  <2>2. day' = day /\ recordedOn' = recordedOn /\ cost' = cost /\ unchecked' = unchecked
    BY <1>1 DEF MessageSent, GatewayCheck, QuotaCheck, Check, RunCompletes, RunThrows, RecordLost
  <2> QED BY <2>1, <2>2, CapKeptSmaller
<1>2. ASSUME NEW m \in Runs, LlmTurn(m) PROVE CapKeptFor(u)'
  <2>1. PastCap(u)' \subseteq PastCap(u)
    BY <1>2 DEF LlmTurn
  <2>2. \A n \in Runs : recordedOn[n] # Never => cost'[n] = cost[n]
    BY <1>2 DEF LlmTurn, StagesKept
  <2> QED BY <1>2, <2>1, <2>2, CapKeptSmaller DEF LlmTurn
<1>3. ASSUME NEW t \in Teams, NEW amount \in QuotaAmounts, SetTeamQuota(t, amount)
      PROVE  CapKeptFor(u)'
  <2>1. PastCap(u)' \subseteq PastCap(u)
    BY <1>3 DEF SetTeamQuota
  <2>2. day' = day /\ recordedOn' = recordedOn /\ cost' = cost /\ unchecked' = unchecked
    BY <1>3 DEF SetTeamQuota
  <2> QED BY <2>1, <2>2, CapKeptSmaller
<1>4. CASE UNCHANGED costVars
  BY <1>4, CapKeptSmaller DEF costVars
<1> QED BY <1>1, <1>2, <1>3, <1>4, CapKeptByCheck, CapKeptByFailure, CapKeptByRecord,
           CapKeptNextDay DEF CostNext

(* The largest quota is one of them.                                       *)
LEMMA LargestOf ==
  ASSUME NEW S, IsFiniteSet(S), S # {}, S \subseteq Nat
  PROVE  \E x \in S : \A y \in S : x >= y
<1> DEFINE Largest(s) == \E x \in s : \A y \in s : x >= y
           G == {s \in SUBSET S : s = {} \/ Largest(s)}
<1>1. ASSUME NEW s \in SUBSET S, NEW z \in s, s \ {z} \in G
      PROVE  s \in G
  <2>1. z \in Nat /\ s \subseteq Nat
    OBVIOUS
  <2>2. CASE s = {z}
    BY <2>1, <2>2
  <2>3. CASE s # {z}
    <3> HIDE DEF Largest
    <3>1. Largest(s \ {z})
      BY <1>1, <2>3
    <3> USE DEF Largest
    <3>2. PICK x \in s \ {z} : \A y \in s \ {z} : x >= y
      BY <3>1
    <3>3. CASE x >= z
      BY <3>2, <3>3
    <3>4. CASE z >= x
      BY <2>1, <3>2, <3>4
    <3> QED BY <2>1, <3>2, <3>3, <3>4
  <2> QED BY <2>2, <2>3
<1>2. {} \in G
  OBVIOUS
<1> HIDE DEF G
<1>3. S \in G
  BY <1>1, <1>2, SetInduction
<1> QED BY <1>3 DEF G

LEMMA MaxIsLargest ==
  ASSUME NEW S, IsFiniteSet(S), S # {}, S \subseteq Nat
  PROVE  Max(S) \in S /\ \A x \in S : x <= Max(S)
<1>1. \E x \in S : \A y \in S : x >= y
  BY LargestOf
<1>2. Max(S) \in S /\ \A x \in S : Max(S) >= x
  BY <1>1 DEF Max
<1> QED BY <1>2

LEMMA QuotasPositive ==
  /\ Max(QuotaAmounts) \in Nat \ {0}
  /\ \A x \in QuotaAmounts : x <= Max(QuotaAmounts)
<1>1. QuotaAmounts # {}
  BY CostAssumption
<1>2. Max(QuotaAmounts) \in QuotaAmounts /\ \A x \in QuotaAmounts : x <= Max(QuotaAmounts)
  BY <1>1, MaxIsLargest, CostAssumption
<1>3. PICK x \in QuotaAmounts : x # 0
  BY CostAssumption
<1>4. x \in Nat /\ Max(QuotaAmounts) \in Nat /\ x <= Max(QuotaAmounts)
  BY <1>2, CostAssumption
<1> QED BY <1>2, <1>3, <1>4

(* A team has as much under way at once as its members may.                *)
SendingOf(S) == {m \in Runs : userOf[m] \in S /\ pc[m] \in UnderWay \ {"recording"}}

LEMMA TeamOverlap ==
  ASSUME CostInv, NEW t
  PROVE  Cardinality(SendingOf(Members(t))) <= Overlap * Cardinality(Members(t))
<1> USE CostAssumption
<1> DEFINE M == Members(t)
           Kept(s) == Cardinality(SendingOf(s)) <= Overlap * Cardinality(s)
           B == {s \in SUBSET M : ~Kept(s)}
<1>0. IsFiniteSet(M) /\ M \subseteq Users
  BY CountsFinite DEF CostInv, Members
<1> HIDE DEF M
<1> SUFFICES ASSUME B # {} PROVE FALSE
  <2> B = {} => Kept(M)
    BY Zenon
  <2> QED BY DEF M
<1>1. B \subseteq SUBSET M
  OBVIOUS
<1> HIDE DEF B
<1>2. PICK s \in B : \A y \in B : ~(y \subseteq s /\ y # s)
  BY <1>0, <1>1, SmallestSet
<1> USE DEF B
<1>3. s # {}
  <2>1. SendingOf({}) = {}
    BY DEF SendingOf
  <2>2. Cardinality({}) = 0
    BY FS_EmptySet
  <2>3. Cardinality(SendingOf({})) = 0
    BY <2>1, <2>2
  <2>4. Overlap * 0 = 0
    OBVIOUS
  <2>5. Kept({})
    BY <2>2, <2>3, <2>4
  <2> QED BY <2>5
<1>4. PICK u \in s : TRUE
  BY <1>3
<1>5. IsFiniteSet(s) /\ u \in Users
  BY <1>0, FS_Subset
<1>6. Kept(s \ {u})
  BY <1>2
<1>7. SendingOf(s) = SendingOf(s \ {u}) \cup Sending(u)
  BY DEF SendingOf, Sending
<1>8. /\ IsFiniteSet(SendingOf(s \ {u})) /\ Cardinality(SendingOf(s \ {u})) \in Nat
      /\ IsFiniteSet(Sending(u)) /\ Cardinality(Sending(u)) \in Nat
  BY FS_Subset, FS_CardinalityType, CountsFinite DEF SendingOf, CostInv
<1>9. Cardinality(SendingOf(s)) <= Cardinality(SendingOf(s \ {u})) + Cardinality(Sending(u))
  <2>1. SendingOf(s \ {u}) \cap Sending(u) \subseteq Sending(u)
    OBVIOUS
  <2>2. Cardinality(SendingOf(s \ {u}) \cap Sending(u)) \in Nat
    BY <1>8, <2>1, CountSubset
  <2>3. Cardinality(SendingOf(s)) =
          Cardinality(SendingOf(s \ {u})) + Cardinality(Sending(u))
            - Cardinality(SendingOf(s \ {u}) \cap Sending(u))
    BY <1>7, <1>8, FS_Union
  <2> QED BY <1>8, <2>2, <2>3
<1>10. Cardinality(Sending(u)) <= Overlap
  BY <1>5 DEF CostInv, OverlapKept
<1>11. PICK n \in Nat : n = Cardinality(s \ {u}) /\ Cardinality(s) = n + 1
  <2>1. Cardinality(s) \in Nat /\ Cardinality(s \ {u}) \in Nat
    BY <1>5, FS_CardinalityType, FS_RemoveElement
  <2>2. Cardinality(s \ {u}) = Cardinality(s) - 1
    BY <1>5, FS_RemoveElement
  <2> QED BY <2>1, <2>2
<1>12. Overlap * (n + 1) = Overlap * n + Overlap /\ Overlap * n \in Nat
  OBVIOUS
<1>13. Cardinality(SendingOf(s)) \in Nat
  <2>1. IsFiniteSet(SendingOf(s))
    BY FS_Subset DEF SendingOf
  <2> QED BY <2>1, FS_CardinalityType
<1>14. PICK k \in Nat : k = Overlap * n
  BY <1>12
<1> QED BY <1>6, <1>8, <1>9, <1>10, <1>11, <1>12, <1>13, <1>14

(* What a team spent in a billing period, as a sum.                        *)
InPeriod(t, a) ==
  {m \in Runs : teamOf[userOf[m]] = t /\ recordedOn[m] \in a..((a + PeriodDays) - 1)}

LEMMA PeriodIsSum ==
  ASSUME NEW t, NEW a
  PROVE  /\ TeamSpend(t, a, a + PeriodDays) = SumFunctionOnSet(cost, InPeriod(t, a))
         /\ TeamSpend(t, a, a + PeriodDays)' = SumFunctionOnSet(cost', InPeriod(t, a)')
         /\ InPeriod(t, a) \in SUBSET Runs
<1>1. InPeriod(t, a) \in SUBSET Runs
  BY DEF InPeriod
<1>2. TeamSpend(t, a, a + PeriodDays) = SumFunctionOnSet(cost, InPeriod(t, a))
  BY Zenon DEF TeamSpend, TotalCost, InPeriod
<1>3. TeamSpend(t, a, a + PeriodDays)' = SumFunctionOnSet(cost', InPeriod(t, a)')
  BY Zenon DEF TeamSpend, TotalCost, InPeriod
<1> QED BY <1>1, <1>2, <1>3

LEMMA PeriodRecorded ==
  ASSUME NEW t, NEW a \in 0..LastDay PROVE RecordedOnly(InPeriod(t, a))
  BY CostAssumption DEF RecordedOnly, InPeriod, Never

(* A quota is kept when the runs past its check grow no more than those    *)
(* that were not checked.                                                  *)
LEMMA TeamKeptUnrecorded ==
  ASSUME CostInv, CostTypeOK', NEW t, NEW a \in 0..LastDay, TeamKept(t, a),
         recordedOn' = recordedOn,
         \A m \in Runs : recordedOn[m] # Never => cost'[m] = cost[m],
         Cardinality(PastQuota(t)') + UncheckedBy(Members(t))
           <= Cardinality(PastQuota(t)) + UncheckedBy(Members(t))'
  PROVE  TeamKept(t, a)'
<1> USE CostAssumption
<1>1. PICK P \in Nat : P = Cardinality(PastQuota(t))
  BY CountsFinite DEF CostInv
<1>2. PICK Q \in Nat : Q = Cardinality(PastQuota(t)')
  BY CountsFiniteNext
<1>3. PICK U \in Nat : U = UncheckedBy(Members(t))
  BY CountsFinite DEF CostInv
<1>4. PICK V \in Nat : V = UncheckedBy(Members(t))'
  BY CountsFiniteNext
<1>5. PICK k \in Nat : k = Overlap * Cardinality(Members(t))
  BY CountsFinite DEF CostInv
<1>6. PICK C \in Int : C = Max(QuotaAmounts) - 1
  BY QuotasPositive
<1>7. InPeriod(t, a)' = InPeriod(t, a)
  BY DEF InPeriod
<1>8. SumFunctionOnSet(cost', InPeriod(t, a)) = SumFunctionOnSet(cost, InPeriod(t, a))
  BY LedgerSame, PeriodIsSum, PeriodRecorded DEF CostInv
<1>9. PICK S \in Nat : /\ S = TeamSpend(t, a, a + PeriodDays)
                       /\ S = TeamSpend(t, a, a + PeriodDays)'
  BY <1>7, <1>8, PeriodIsSum, LedgerSums DEF CostInv
<1>10. S + RunCostLimit * P <= C + RunCostLimit * (k + U)
  BY <1>1, <1>3, <1>5, <1>6, <1>9 DEF TeamKept
<1>11. Q + U <= P + V
  BY <1>1, <1>2, <1>3, <1>4
<1>12. S + RunCostLimit * Q <= C + RunCostLimit * (k + V)
  BY <1>10, <1>11, AllowanceGrows
<1>13. Members(t)' = Members(t)
  BY DEF Members
<1> QED BY <1>2, <1>4, <1>5, <1>6, <1>9, <1>12, <1>13 DEF TeamKept

LEMMA TeamKeptSmaller ==
  ASSUME CostInv, CostTypeOK', NEW t, NEW a \in 0..LastDay, TeamKept(t, a),
         recordedOn' = recordedOn,
         \A m \in Runs : recordedOn[m] # Never => cost'[m] = cost[m],
         PastQuota(t)' \subseteq PastQuota(t), unchecked \subseteq unchecked'
  PROVE  TeamKept(t, a)'
<1>1. /\ Cardinality(PastQuota(t)') <= Cardinality(PastQuota(t))
      /\ Cardinality(PastQuota(t)) \in Nat /\ Cardinality(PastQuota(t)') \in Nat
  BY CountsFinite, CountSubset DEF CostInv
<1>2. {m \in unchecked : userOf[m] \in Members(t)} \subseteq {m \in unchecked' : userOf[m] \in Members(t)}
  OBVIOUS
<1>3. /\ UncheckedBy(Members(t)) <= UncheckedBy(Members(t))'
      /\ UncheckedBy(Members(t)) \in Nat /\ UncheckedBy(Members(t))' \in Nat
  BY <1>2, CountsFiniteNext, CountSubset DEF UncheckedBy
<1> QED BY <1>1, <1>3, TeamKeptUnrecorded

(* The quota's check lets a run through: the period's ledger is below the  *)
(* quota, and every run past the check is one the bound on overlap counts. *)
LEMMA TeamKeptByCheck ==
  ASSUME CostInv, CostTypeOK', NEW m \in Runs, QuotaCheck(m),
         NEW t \in Teams, quota[t] # NoQuota, NEW a \in 0..LastDay, a = quota[t].start, TeamKept(t, a)
  PROVE  TeamKept(t, a)'
<1> USE CostAssumption
<1>1. /\ recordedOn' = recordedOn /\ cost' = cost /\ unchecked' = unchecked
      /\ pc[m] = "quota" /\ \A n \in Runs : pc[n] # "recording"
      /\ pc' = [pc EXCEPT ![m] = IF AtCapacity(teamOf[userOf[m]]) THEN "refused" ELSE "running"]
  BY DEF QuotaCheck, Check, GoTo, RecordsDelivered
<1>2. CASE teamOf[userOf[m]] # t \/ AtCapacity(teamOf[userOf[m]])
  <2>1. PastQuota(t)' \subseteq PastQuota(t)
    BY <1>1, <1>2 DEF PastQuota, CostInv, CostTypeOK
  <2> QED BY <1>1, <2>1, TeamKeptSmaller
<1>3. CASE teamOf[userOf[m]] = t /\ ~AtCapacity(teamOf[userOf[m]])
  <2>1. PastQuota(t)' \subseteq SendingOf(Members(t))
    <3>1. \A n \in Runs : teamOf[userOf[n]] = t => userOf[n] \in Members(t)
      BY DEF Members
    <3> QED BY <1>1, <1>3, <3>1 DEF PastQuota, SendingOf, UnderWay, Waiting, CostInv, CostTypeOK
  <2>2. PICK k \in Nat : k = Overlap * Cardinality(Members(t))
    BY CountsFinite DEF CostInv
  <2>3. PICK Q \in Nat : Q = Cardinality(PastQuota(t)') /\ Q <= k
    <3>1. IsFiniteSet(SendingOf(Members(t)))
      BY FS_Subset DEF SendingOf
    <3> QED BY <2>1, <2>2, <3>1, CountSubset, TeamOverlap
  <2>4. PICK U \in Nat : U = UncheckedBy(Members(t))' 
    BY CountsFiniteNext
  <2>5. TeamSpend(t, a, a + PeriodDays) < quota[t].amount
    <3>1. TeamSpend(t, a, a + PeriodDays) \in Nat
      BY PeriodIsSum, LedgerSums DEF CostInv
    <3>2. quota[t].amount \in Nat
      BY DEF CostInv, CostTypeOK
    <3> QED BY <1>3, <3>1, <3>2 DEF AtCapacity
  <2>6. InPeriod(t, a)' = InPeriod(t, a)
    BY <1>1 DEF InPeriod
  <2>7. PICK S \in Nat : S = TeamSpend(t, a, a + PeriodDays) /\ S = TeamSpend(t, a, a + PeriodDays)'
    BY <1>1, <2>6, PeriodIsSum, LedgerSums DEF CostInv
  <2>8. PICK C \in Nat : C = Max(QuotaAmounts) - 1 /\ S <= C
    <3>1. PICK q \in QuotaAmounts : q = quota[t].amount
      BY DEF CostInv, CostTypeOK
    <3>2. PICK M \in Nat \ {0} : M = Max(QuotaAmounts) /\ q <= M
      BY QuotasPositive
    <3>3. S < q /\ q \in Nat
      BY <2>5, <2>7, <3>1
    <3> QED BY <3>2, <3>3
  <2>9. RunCostLimit * Q <= RunCostLimit * (k + U) /\ RunCostLimit * Q \in Nat
        /\ RunCostLimit * (k + U) \in Nat
    BY <2>3, TimesGrows
  <2>10. S + RunCostLimit * Q <= C + RunCostLimit * (k + U)
    BY <2>8, <2>9
  <2>11. Members(t)' = Members(t)
    BY DEF Members
  <2> QED BY <2>2, <2>3, <2>4, <2>7, <2>8, <2>10, <2>11 DEF TeamKept
<1> QED BY <1>2, <1>3

LEMMA TeamKeptByFailure ==
  ASSUME CostInv, CostTypeOK', NEW m \in Runs, CheckFails(m),
         NEW t \in Teams, NEW a \in 0..LastDay, TeamKept(t, a)
  PROVE  TeamKept(t, a)'
<1> USE CostAssumption
<1>1. /\ recordedOn' = recordedOn /\ cost' = cost /\ unchecked \subseteq unchecked'
      /\ pc[m] # "gateway" => unchecked' = unchecked \cup {m}
  BY DEF CheckFails
<1>2. PastQuota(t)' \subseteq PastQuota(t) \cup {m}
  BY DEF PastQuota, CostInv, CostTypeOK, CheckFails, GoTo
<1>3. CASE PastQuota(t)' \subseteq PastQuota(t)
  BY <1>1, <1>3, TeamKeptSmaller
<1>4. CASE ~(PastQuota(t)' \subseteq PastQuota(t))
  <2>1. m \in PastQuota(t)' /\ m \notin PastQuota(t)
    BY <1>2, <1>4
  <2>2. teamOf[userOf[m]] = t /\ pc[m] \in {"cap", "quota"} /\ m \notin unchecked
    <3>1. teamOf[userOf[m]] = t /\ pc[m] # "gateway"
      BY <2>1 DEF PastQuota, CheckFails, GoTo, CostInv, CostTypeOK
    <3> QED BY <2>1, <3>1 DEF PastQuota, CheckFails, Waiting, CostInv, StagesKept
  <2>3. userOf[m] \in Members(t)
    BY <2>2 DEF Members
  <2>4. m \in {n \in unchecked' : userOf[n] \in Members(t)}
    BY <1>1, <2>2, <2>3
  <2>5. {n \in unchecked : userOf[n] \in Members(t)} \subseteq
          {n \in unchecked' : userOf[n] \in Members(t)} \ {m}
    BY <1>1, <2>2
  <2>6. UncheckedBy(Members(t)) + 1 <= UncheckedBy(Members(t))'
    BY <2>4, <2>5, CountsFiniteNext, CountShrinks DEF UncheckedBy
  <2>7. Cardinality(PastQuota(t)') <= Cardinality(PastQuota(t)) + 1
    BY <1>2, CountsFinite, CountGrows DEF CostInv
  <2>8. /\ Cardinality(PastQuota(t)) \in Nat /\ Cardinality(PastQuota(t)') \in Nat
        /\ UncheckedBy(Members(t)) \in Nat /\ UncheckedBy(Members(t))' \in Nat
    BY CountsFinite, CountsFiniteNext DEF CostInv
  <2> QED BY <1>1, <2>6, <2>7, <2>8, TeamKeptUnrecorded
<1> QED BY <1>3, <1>4

LEMMA TeamKeptByRecord ==
  ASSUME CostInv, CostTypeOK', NEW m \in Runs, RecordArrives(m),
         NEW t \in Teams, NEW a \in 0..LastDay, TeamKept(t, a)
  PROVE  TeamKept(t, a)'
<1> USE CostAssumption
<1>1. /\ day' = day /\ cost' = cost /\ unchecked' = unchecked
      /\ pc[m] = "recording" /\ pc' = [pc EXCEPT ![m] = "done"]
      /\ recordedOn' = [recordedOn EXCEPT ![m] = day] /\ recordedOn[m] = Never
  BY DEF RecordArrives, GoTo, CostInv, StagesKept
<1>2. PICK P \in Nat : P = Cardinality(PastQuota(t))
  BY CountsFinite DEF CostInv
<1>3. PICK Q \in Nat : Q = Cardinality(PastQuota(t)')
  BY CountsFiniteNext
<1>4. PICK U \in Nat : U = UncheckedBy(Members(t)) /\ U = UncheckedBy(Members(t))'
  BY <1>1, CountsFinite DEF CostInv, UncheckedBy, Members
<1>5. PICK k \in Nat : k = Overlap * Cardinality(Members(t))
  BY CountsFinite DEF CostInv
<1>6. PICK B \in Int : B = (Max(QuotaAmounts) - 1) + RunCostLimit * (k + U)
  BY QuotasPositive
<1>7. PICK S \in Nat : S = TeamSpend(t, a, a + PeriodDays)
  BY PeriodIsSum, LedgerSums DEF CostInv
<1>8. S + RunCostLimit * P <= B
  BY <1>2, <1>4, <1>5, <1>6, <1>7 DEF TeamKept
<1>9. PastQuota(t)' \subseteq PastQuota(t) \ {m}
  BY <1>1 DEF PastQuota, CostInv, CostTypeOK
<1>10. m \notin InPeriod(t, a)
  BY <1>1 DEF InPeriod, Never
<1>11. CASE teamOf[userOf[m]] = t /\ day \in a..((a + PeriodDays) - 1)
  <2>1. InPeriod(t, a)' = InPeriod(t, a) \cup {m}
    BY <1>1, <1>11 DEF InPeriod, CostInv, CostTypeOK
  <2>2. m \in PastQuota(t)
    BY <1>1, <1>11 DEF PastQuota
  <2>3. Q + 1 <= P
    BY <1>2, <1>3, <1>9, <2>2, CountsFinite, CountShrinks DEF CostInv
  <2>4. InPeriod(t, a) \cup {m} \in SUBSET Runs
    BY PeriodIsSum
  <2>5. PICK T \in Nat : T = TeamSpend(t, a, a + PeriodDays)' /\ T <= S + RunCostLimit
    BY <1>1, <1>7, <1>10, <2>1, <2>4, PeriodIsSum, LedgerSums, LedgerGrows DEF CostInv
  <2>6. T + RunCostLimit * Q <= B
    BY <1>8, <2>3, <2>5, AllowancePaid
  <2> QED BY <1>3, <1>4, <1>5, <1>6, <2>5, <2>6 DEF TeamKept, Members
<1>12. CASE ~(teamOf[userOf[m]] = t /\ day \in a..((a + PeriodDays) - 1))
  <2>1. InPeriod(t, a)' = InPeriod(t, a)
    BY <1>1, <1>12, <1>10 DEF InPeriod, CostInv, CostTypeOK
  <2>2. TeamSpend(t, a, a + PeriodDays)' = S
    BY <1>1, <1>7, <2>1, PeriodIsSum
  <2>3. Q <= P
    BY <1>2, <1>3, <1>9, CountsFinite, CountSubset DEF CostInv
  <2>4. RunCostLimit * Q <= RunCostLimit * P /\ RunCostLimit * Q \in Nat /\ RunCostLimit * P \in Nat
    BY <2>3, TimesGrows
  <2>5. S + RunCostLimit * Q <= B
    BY <1>8, <2>4
  <2> QED BY <1>3, <1>4, <1>5, <1>6, <2>2, <2>5 DEF TeamKept, Members
<1> QED BY <1>11, <1>12

(* A team's first quota: what is past the check or paid already was let    *)
(* through by failed checks.                                               *)
LEMMA TeamKeptFromFirst ==
  ASSUME CostInv, CostTypeOK', NEW t \in Teams, quota[t] = NoQuota,
         UNCHANGED <<day, pc, cost, recordedOn, unchecked>>
  PROVE  TeamKept(t, day)'
<1> USE CostAssumption
<1>1. day \in 0..LastDay
  BY DEF CostInv, CostTypeOK
<1>2. PICK a : a = day
  OBVIOUS
<1> DEFINE Free == {m \in unchecked : userOf[m] \in Members(t)}
<1>3. IsFiniteSet(Free) /\ Cardinality(Free) = UncheckedBy(Members(t))
  BY CountsFinite DEF CostInv, UncheckedBy
<1>4. InPeriod(t, a) \cup PastQuota(t) \subseteq Free /\ InPeriod(t, a) \cap PastQuota(t) = {}
  <2>1. \A m \in Runs : teamOf[userOf[m]] = t => userOf[m] \in Members(t)
    BY DEF Members
  <2>2. \A m \in InPeriod(t, a) : m \in Runs /\ teamOf[userOf[m]] = t /\ recordedOn[m] # Never
    BY <1>1, <1>2, PeriodRecorded DEF RecordedOnly, InPeriod
  <2>3. \A m \in PastQuota(t) : m \in Runs /\ teamOf[userOf[m]] = t /\ pc[m] # "done"
    BY DEF PastQuota
  <2>4. InPeriod(t, a) \subseteq Free
    BY <2>1, <2>2 DEF CostInv, UnsetRefuses
  <2>5. PastQuota(t) \subseteq Free
    BY <2>1, <2>3 DEF CostInv, UnsetRefuses, PastQuota
  <2> QED BY <2>2, <2>3, <2>4, <2>5 DEF CostInv, StagesKept
<1> HIDE DEF Free
<1>5. PICK I \in Nat : I = Cardinality(InPeriod(t, a)) /\ IsFiniteSet(InPeriod(t, a))
  BY PeriodIsSum, LedgerSums DEF CostInv
<1>6. PICK P \in Nat : P = Cardinality(PastQuota(t)) /\ IsFiniteSet(PastQuota(t))
  BY CountsFinite DEF CostInv
<1>7. PICK U \in Nat : U = UncheckedBy(Members(t)) /\ I + P <= U
  <2>1. Cardinality(InPeriod(t, a) \cup PastQuota(t)) = I + P
    <3>1. Cardinality(InPeriod(t, a) \cap PastQuota(t)) = 0
      BY <1>4, FS_EmptySet
    <3>2. Cardinality(InPeriod(t, a) \cup PastQuota(t)) =
            Cardinality(InPeriod(t, a)) + Cardinality(PastQuota(t))
              - Cardinality(InPeriod(t, a) \cap PastQuota(t))
      BY <1>5, <1>6, FS_Union
    <3> QED BY <1>5, <1>6, <3>1, <3>2
  <2>2. UncheckedBy(Members(t)) \in Nat
    BY CountsFinite DEF CostInv
  <2> QED BY <1>3, <1>4, <2>1, <2>2, CountSubset
<1>8. PICK S \in Nat : /\ S = TeamSpend(t, a, a + PeriodDays)
                       /\ S = SumFunctionOnSet(cost, InPeriod(t, a))
                       /\ S <= RunCostLimit * I
  BY <1>5, PeriodIsSum, LedgerSums DEF CostInv
<1>9. PICK k \in Nat : k = Overlap * Cardinality(Members(t))
  BY CountsFinite DEF CostInv
<1>10. PICK C \in Nat : C = Max(QuotaAmounts) - 1
  BY QuotasPositive
<1>11. RunCostLimit * (I + P) <= RunCostLimit * (k + U) /\ RunCostLimit * (k + U) \in Nat
  BY <1>7, TimesGrows
<1>12. RunCostLimit * (I + P) = RunCostLimit * I + RunCostLimit * P
       /\ RunCostLimit * I \in Nat /\ RunCostLimit * P \in Nat
  OBVIOUS
<1>13. S + RunCostLimit * P <= C + RunCostLimit * (k + U)
  BY <1>8, <1>11, <1>12
<1>14. TeamKept(t, a)
  BY <1>6, <1>7, <1>8, <1>9, <1>10, <1>13 DEF TeamKept
<1>15. TeamKept(t, day)
  BY <1>2, <1>14
<1> QED BY <1>15 DEF TeamKept, TeamSpend, TotalCost, PastQuota, UncheckedBy, Members

LEMMA QuotaNext ==
  ASSUME CostInv, CostTypeOK', [CostNext]_costVars PROVE QuotaKept'
<1> USE CostAssumption
<1>1. SUFFICES ASSUME NEW t \in Teams, quota'[t] # NoQuota
               PROVE  TeamKept(t, quota[t].start)'
  BY DEF QuotaKept
<1>2. PICK a \in 0..LastDay : a = quota'[t].start
  BY <1>1 DEF CostTypeOK
<1>3. SUFFICES TeamKept(t, a)'
  BY <1>2 DEF TeamKept, TeamSpend, TotalCost
<1>4. ASSUME quota'[t] = quota[t] PROVE quota[t] # NoQuota /\ a = quota[t].start /\ TeamKept(t, a)
  <2>1. quota[t] # NoQuota /\ a = quota[t].start
    BY <1>1, <1>2, <1>4
  <2> QED BY <2>1 DEF CostInv, QuotaKept
<1>5. ASSUME NEW m \in Runs, RunStep(m) PROVE TeamKept(t, a)'
  <2>1. quota'[t] = quota[t]
    BY <1>5, RunEffect
  <2>2. ASSUME MessageSent(m) \/ GatewayCheck(m) \/ CapCheck(m) \/ RunCompletes(m)
                 \/ RunThrows(m) \/ RecordLost(m)
        PROVE  TeamKept(t, a)'
    <3>1. PastQuota(t)' \subseteq PastQuota(t)
      BY <2>2 DEF MessageSent, GatewayCheck, CapCheck, Check, RunCompletes, RunThrows,
                  RecordLost, PastQuota, CostInv, CostTypeOK, StagesKept, GoTo
    <3>2. recordedOn' = recordedOn /\ cost' = cost /\ unchecked' = unchecked
      BY <2>2 DEF MessageSent, GatewayCheck, CapCheck, Check, RunCompletes, RunThrows, RecordLost
    <3> QED BY <1>4, <2>1, <3>1, <3>2, TeamKeptSmaller
  <2>3. CASE LlmTurn(m)
    <3>1. PastQuota(t)' \subseteq PastQuota(t)
      BY <2>3 DEF LlmTurn, PastQuota
    <3>2. \A n \in Runs : recordedOn[n] # Never => cost'[n] = cost[n]
      BY <2>3 DEF LlmTurn, CostInv, CostTypeOK, StagesKept
    <3> QED BY <1>4, <2>1, <2>3, <3>1, <3>2, TeamKeptSmaller DEF LlmTurn
  <2> QED BY <1>4, <1>5, <2>1, <2>2, <2>3, TeamKeptByCheck, TeamKeptByFailure, TeamKeptByRecord
          DEF RunStep
<1>6. ASSUME NEW x \in Teams, NEW amount \in QuotaAmounts, SetTeamQuota(x, amount)
      PROVE  TeamKept(t, a)'
  <2>1. UNCHANGED <<day, pc, cost, recordedOn, unchecked>>
    BY <1>6 DEF SetTeamQuota
  <2>2. PastQuota(t)' = PastQuota(t)
    BY <2>1 DEF PastQuota
  <2>3. quota[t] # NoQuota => a = quota[t].start
    BY <1>2, <1>6 DEF SetTeamQuota, CostInv, CostTypeOK
  <2>4. CASE quota[t] # NoQuota
    <3>1. TeamKept(t, a)
      BY <2>3, <2>4 DEF CostInv, QuotaKept
    <3> QED BY <2>1, <2>2, <3>1, TeamKeptSmaller
  <2>5. CASE quota[t] = NoQuota
    <3>1. x = t
      BY <1>1, <1>6, <2>5 DEF SetTeamQuota, CostInv, CostTypeOK
    <3>2. a = day
      BY <1>2, <1>6, <2>5, <3>1 DEF SetTeamQuota, CostInv, CostTypeOK
    <3>3. TeamKept(t, day)'
      BY <2>1, <2>5, TeamKeptFromFirst
    <3>4. a = day'
      BY <2>1, <3>2
    <3> QED BY <3>3, <3>4
  <2> QED BY <2>4, <2>5
<1>7. CASE NextDay \/ UNCHANGED costVars
  <2>1. UNCHANGED <<pc, cost, recordedOn, quota, unchecked>>
    BY <1>7 DEF NextDay, costVars
  <2>2. PastQuota(t)' \subseteq PastQuota(t)
    BY <2>1 DEF PastQuota
  <2> QED BY <1>4, <2>1, <2>2, TeamKeptSmaller
<1> QED BY <1>5, <1>6, <1>7 DEF CostNext, RunStep

LEMMA CostInvNext == CostInv /\ [CostNext]_costVars => CostInv'
<1> SUFFICES ASSUME CostInv, [CostNext]_costVars PROVE CostInv'
  OBVIOUS
<1>1. CostTypeOK' /\ StagesKept' /\ UnsetRefuses'
  BY CostTypeNext
<1>2. OverlapKept'
  BY <1>1, OverlapNext
<1>3. CapKept'
  BY <1>1, CapNext DEF CapKept
<1>4. QuotaKept'
  BY <1>1, QuotaNext
<1> QED BY <1>1, <1>2, <1>3, <1>4 DEF CostInv

(* CostInv holds of every run of the ledger: the types, what a stage says  *)
(* of a run, the bound on overlap, and both allowances.                    *)
THEOREM CostInvariant == CostSpec => []CostInv
  BY CostInvInit, CostInvNext, PTL DEF CostSpec

(* What runs may still cost is nothing or more: the ledger alone is within *)
(* the bound.                                                              *)
LEMMA CostInvBounds == CostInv => OverrunBounded
<1> SUFFICES ASSUME CostInv PROVE OverrunBounded
  OBVIOUS
<1> USE CostAssumption
<1>1. DailyOverrunBounded
  <2> SUFFICES ASSUME NEW u \in Users, NEW d \in 0..LastDay
               PROVE  SpentOn(u, d) <= (Cap - 1) + RunCostLimit * (Overlap + UncheckedBy({u}))
    BY DEF DailyOverrunBounded
  <2>1. PICK P \in Nat : P = Cardinality(PastCap(u))
    BY CountsFinite DEF CostInv
  <2>2. PICK U \in Nat : U = UncheckedBy({u})
    BY CountsFinite DEF CostInv
  <2>3. PICK S \in Nat : S = SpentOn(u, d)
    BY SpentIsSum, LedgerSums DEF CostInv
  <2>4. S + (IF d = day THEN RunCostLimit * P ELSE 0) <= (Cap - 1) + RunCostLimit * (Overlap + U)
    BY <2>1, <2>2, <2>3 DEF CostInv, CapKept, CapKeptFor
  <2>5. RunCostLimit * P \in Nat /\ RunCostLimit * (Overlap + U) \in Nat
    OBVIOUS
  <2> QED BY <2>2, <2>3, <2>4, <2>5
<1>2. QuotaOverrunBounded
  <2> SUFFICES ASSUME NEW t \in Teams, quota[t] # NoQuota
               PROVE  TeamSpend(t, quota[t].start, quota[t].start + PeriodDays) <=
                        Max(QuotaAmounts) - 1
                          + RunCostLimit * (Overlap * Cardinality(Members(t)) + UncheckedBy(Members(t)))
    BY DEF QuotaOverrunBounded
  <2>1. PICK a \in 0..LastDay : a = quota[t].start
    BY DEF CostInv, CostTypeOK
  <2>2. PICK P \in Nat : P = Cardinality(PastQuota(t))
    BY CountsFinite DEF CostInv
  <2>3. PICK U \in Nat : U = UncheckedBy(Members(t))
    BY CountsFinite DEF CostInv
  <2>4. PICK k \in Nat : k = Overlap * Cardinality(Members(t))
    BY CountsFinite DEF CostInv
  <2>5. PICK S \in Nat : S = TeamSpend(t, a, a + PeriodDays)
    BY PeriodIsSum, LedgerSums DEF CostInv
  <2>6. PICK M \in Nat : M = Max(QuotaAmounts)
    BY QuotasPositive
  <2>7. S + RunCostLimit * P <= (M - 1) + RunCostLimit * (k + U)
    BY <2>1, <2>2, <2>3, <2>4, <2>5, <2>6 DEF CostInv, QuotaKept, TeamKept
  <2>8. RunCostLimit * P \in Nat /\ RunCostLimit * (k + U) \in Nat
    OBVIOUS
  <2>9. S <= M - 1 + RunCostLimit * (k + U)
    BY <2>7, <2>8
  <2> QED BY <2>1, <2>3, <2>4, <2>5, <2>6, <2>9
<1> QED BY <1>1, <1>2 DEF OverrunBounded

(* However many runs overlap and checks fail, what the ledger holds for a  *)
(* user's day and a team's period exceeds the cap and the quota only by    *)
(* the runs in flight together and those that failed checks let through    *)
(* (audit.service.ts, agent-loop.ts, chat.route.ts).                       *)
THEOREM OverrunAlwaysBounded == CostSpec => []OverrunBounded
  BY CostInvariant, CostInvBounds, PTL

-----------------------------------------------------------------------------
(* The scores of injection.                                                *)

(* A sum over what an injective map yields.                                *)
LEMMA SumImage ==
  ASSUME NEW S, IsFiniteSet(S), NEW h, NEW f, NEW g,
         \A x \in S : f[x] = g[h[x]] /\ f[x] \in Int,
         \A x, y \in S : h[x] = h[y] => x = y
  PROVE  /\ IsFiniteSet({h[x] : x \in S})
         /\ SumFunctionOnSet(g, {h[x] : x \in S}) = SumFunctionOnSet(f, S)
<1> DEFINE Image(s) == {h[x] : x \in s}
           Same(s) == /\ IsFiniteSet(Image(s))
                      /\ SumFunctionOnSet(g, Image(s)) = SumFunctionOnSet(f, s)
           G == {s \in SUBSET S : Same(s)}
<1>1. {} \in G
  <2>1. Image({}) = {}
    OBVIOUS
  <2>2. Same({})
    BY <2>1, SumEmpty, FS_EmptySet
  <2> QED BY <2>2
<1>2. ASSUME NEW s \in SUBSET S, NEW x \in s, s \ {x} \in G
      PROVE  s \in G
  <2>1. IsFiniteSet(s) /\ IsFiniteSet(s \ {x})
    BY FS_Subset
  <2>2. Image(s) = Image(s \ {x}) \cup {h[x]} /\ h[x] \notin Image(s \ {x})
    OBVIOUS
  <2> HIDE DEF Same
  <2>3. Same(s \ {x})
    BY <1>2
  <2> USE DEF Same
  <2>4. IsFiniteSet(Image(s \ {x}))
    BY <2>3
  <2>5. SumFunctionOnSet(g, Image(s \ {x})) = SumFunctionOnSet(f, s \ {x})
    BY <2>3
  <2>6. \A y \in Image(s \ {x}) \cup {h[x]} : g[y] \in Int
    OBVIOUS
  <2> HIDE DEF Image
  <2>7. SumFunctionOnSet(g, Image(s)) = g[h[x]] + SumFunctionOnSet(g, Image(s \ {x}))
    BY <2>2, <2>4, <2>6, SumAdd
  <2>8. SumFunctionOnSet(f, s) = f[x] + SumFunctionOnSet(f, s \ {x})
    BY <2>1, SumSplit
  <2>9. IsFiniteSet(Image(s))
    <3>1. IsFiniteSet(Image(s \ {x}) \cup {h[x]})
      BY <2>4, FS_AddElement
    <3> QED BY <2>2, <3>1
  <2>10. Same(s)
    BY <2>5, <2>7, <2>8, <2>9
  <2> QED BY <2>10
<1> HIDE DEF G
<1>3. S \in G
  BY <1>1, <1>2, SetInduction
<1>4. Same(S)
  BY <1>3 DEF G
<1> QED BY <1>4

PatternWeight == [p \in Patterns |-> Weight[SeverityOf[p]]]

LEMMA WeightsNat ==
  /\ \A severity \in {"low", "medium", "high", "critical"} : Weight[severity] \in Nat
  /\ \A p \in Patterns : PatternWeight[p] \in Nat /\ PatternWeight[p] = Weight[SeverityOf[p]]
<1>1. \A severity \in {"low", "medium", "high", "critical"} : Weight[severity] \in Nat
  BY DEF Weight
<1> QED BY <1>1, ScreeningAssumption DEF PatternWeight

(* The matches of patterns weigh what the patterns do.                     *)
LEMMA FoundWeight ==
  ASSUME NEW S \in SUBSET Patterns, NEW g, \A m \in Found(S) : g[m] = Weight[m.severity]
  PROVE  /\ IsFiniteSet(Found(S)) /\ \A m \in Found(S) : g[m] \in Nat
         /\ SumFunctionOnSet(g, Found(S)) = SumFunctionOnSet(PatternWeight, S)
         /\ SumFunctionOnSet(PatternWeight, S) \in Nat
<1> DEFINE h == [p \in S |-> [pattern |-> p, severity |-> SeverityOf[p]]]
<1>1. IsFiniteSet(S)
  BY ScreeningAssumption, FS_Subset
<1>2. Found(S) = {h[p] : p \in S}
  BY DEF Found
<1>3. \A p \in S : /\ h[p].pattern = p /\ h[p].severity = SeverityOf[p]
                   /\ PatternWeight[p] \in Nat
  BY WeightsNat
<1>4. \A p \in S : h[p] \in Found(S)
  BY <1>2
<1> HIDE DEF h
<1>5. \A p \in S : PatternWeight[p] = g[h[p]] /\ PatternWeight[p] \in Int
  BY <1>3, <1>4, WeightsNat
<1>6. \A x, y \in S : h[x] = h[y] => x = y
  BY <1>3
<1>7. /\ IsFiniteSet({h[x] : x \in S})
      /\ SumFunctionOnSet(g, {h[x] : x \in S}) = SumFunctionOnSet(PatternWeight, S)
  BY <1>1, <1>5, <1>6, SumImage
<1>9. \A m \in Found(S) : g[m] \in Nat
  BY <1>2, <1>3, <1>5
<1>10. SumFunctionOnSet(PatternWeight, S) \in Nat
  BY <1>1, <1>3, SumNat
<1> QED BY <1>2, <1>7, <1>9, <1>10

(* The delimiters weigh what their severity does, whatever else matched.   *)
LEMMA MatchesWeigh ==
  ASSUME NEW S \in SUBSET Patterns, NEW D, NEW w \in Nat,
         \/ D = {} /\ w = 0
         \/ \E severity \in {"high", "critical"} :
              D = {[Tag EXCEPT !.severity = severity]} /\ w = Weight[severity]
  PROVE  /\ Points(Found(S) \cup D) = SumFunctionOnSet(PatternWeight, S) + w
         /\ SumFunctionOnSet(PatternWeight, S) \in Nat
<1> DEFINE M == Found(S) \cup D
           g == [m \in M |-> Weight[m.severity]]
<1>1. Points(M) = SumFunctionOnSet(g, M)
  BY DEF Points, SumFunction
<1>2. \A m \in M : g[m] = Weight[m.severity]
  OBVIOUS
<1>3. \A m \in Found(S) : g[m] = Weight[m.severity]
  BY <1>2
<1> HIDE DEF g
<1>4. /\ IsFiniteSet(Found(S)) /\ \A m \in Found(S) : g[m] \in Nat
      /\ SumFunctionOnSet(g, Found(S)) = SumFunctionOnSet(PatternWeight, S)
      /\ SumFunctionOnSet(PatternWeight, S) \in Nat
  BY <1>3, FoundWeight
<1>5. CASE D = {} /\ w = 0
  <2>1. M = Found(S)
    BY <1>5
  <2>2. SumFunctionOnSet(g, M) = SumFunctionOnSet(PatternWeight, S)
    BY <1>4, <2>1
  <2> QED BY <1>1, <1>4, <1>5, <2>2
<1>6. ASSUME NEW severity \in {"high", "critical"},
             D = {[Tag EXCEPT !.severity = severity]}, w = Weight[severity]
      PROVE  Points(M) = SumFunctionOnSet(PatternWeight, S) + w
  <2>1. PICK d : d = [Tag EXCEPT !.severity = severity]
    OBVIOUS
  <2>2. d.pattern = Tag.pattern /\ d.severity = severity
    BY <2>1 DEF Tag
  <2>3. d \notin Found(S)
    BY <2>2, ScreeningAssumption DEF Found
  <2>4. M = Found(S) \cup {d}
    BY <1>6, <2>1
  <2>5. g[d] = w
    BY <1>2, <1>6, <2>2, <2>4
  <2>6. IsFiniteSet(Found(S))
    BY <1>4
  <2>7. \A m \in Found(S) \cup {d} : g[m] \in Int
    BY <1>4, <2>5
  <2> HIDE DEF M
  <2>8. SumFunctionOnSet(g, Found(S) \cup {d}) = g[d] + SumFunctionOnSet(g, Found(S))
    BY <2>3, <2>6, <2>7, SumAdd
  <2> QED BY <1>1, <1>4, <2>4, <2>5, <2>8
<1> QED BY <1>4, <1>5, <1>6

LEMMA TaggedWeigh ==
  ASSUME NEW S \in SUBSET Patterns, NEW severity \in {"high", "critical"}
  PROVE  Points(Found(S) \cup {[Tag EXCEPT !.severity = severity]}) =
           SumFunctionOnSet(PatternWeight, S) + Weight[severity]
<1>1. PICK w \in Nat : w = Weight[severity]
  BY WeightsNat
<1>2. PICK D : D = {[Tag EXCEPT !.severity = severity]}
  OBVIOUS
<1>3. Points(Found(S) \cup D) = SumFunctionOnSet(PatternWeight, S) + w
  BY <1>1, <1>2, MatchesWeigh
<1> QED BY <1>1, <1>2, <1>3

LEMMA UntaggedWeigh ==
  ASSUME NEW S \in SUBSET Patterns
  PROVE  /\ Points(Found(S) \cup {}) = SumFunctionOnSet(PatternWeight, S) + 0
         /\ SumFunctionOnSet(PatternWeight, S) \in Nat
<1>1. PICK D : D = {}
  OBVIOUS
<1>2. PICK w \in Nat : w = 0
  OBVIOUS
<1>3. /\ Points(Found(S) \cup D) = SumFunctionOnSet(PatternWeight, S) + w
      /\ SumFunctionOnSet(PatternWeight, S) \in Nat
  BY <1>1, <1>2, MatchesWeigh
<1> QED BY <1>1, <1>2, <1>3

(* What a text weighs, by the setting it is screened under.                *)
DecodedAt(level, text) == CASE level = "low" -> {}
                            [] level = "medium" -> text.encoded
                            [] OTHER -> text.encoded \cup text.accented

WeightAt(level, e) ==
  SumFunctionOnSet(PatternWeight,
    IF e.source = "user" THEN e.text.plain ELSE e.text.plain \cup DecodedAt(level, e.text))
  + TagWeight(e)

Weights == [i \in DOMAIN screened |-> WeightAt(sensitivity, screened[i])]

Shown == [session : ScreenedSessions, source : {"user", "tool"}, text : Contents,
          exceeded : BOOLEAN, suspicious : BOOLEAN]

LEMMA WeightsUnfold ==
  /\ [i \in DOMAIN screened |-> EntryWeight(screened[i])] = Weights
  /\ [i \in DOMAIN screened |-> EntryWeight(screened[i])]' = Weights'
  BY Zenon DEF Weights, EntryWeight, WeightAt, PatternsOf, Decoded, DecodedAt, TagWeight,
               PatternWeight

(* addMatches adds what the property counts.                               *)
LEMMA PointsCounted ==
  ASSUME NEW e \in Shown
  PROVE  /\ Points(Matches(e.text, e.source)) = WeightAt(sensitivity, e)
         /\ WeightAt(sensitivity, e) \in Nat
<1>1. /\ e.text.plain \subseteq Patterns /\ e.text.encoded \subseteq Patterns
      /\ e.text.accented \subseteq Patterns /\ e.text.tag \in BOOLEAN
  BY ScreeningAssumption DEF Shown
<1>2. Decoded(e.text) = DecodedAt(sensitivity, e.text) /\ Decoded(e.text) \subseteq Patterns
  <2>1. Decoded(e.text) = DecodedAt(sensitivity, e.text)
    BY Zenon DEF Decoded, DecodedAt
  <2>2. Decoded(e.text) \subseteq Patterns
    BY <1>1 DEF Decoded
  <2> QED BY <2>1, <2>2
<1>3. Weight["high"] = 5 /\ Weight["critical"] = 10
  BY DEF Weight
<1>4. CASE e.source = "user"
  <2>1. /\ Points(Found(e.text.plain) \cup Delimiters(e.text, "high"))
             = SumFunctionOnSet(PatternWeight, e.text.plain) + TagWeight(e)
        /\ SumFunctionOnSet(PatternWeight, e.text.plain) \in Nat /\ TagWeight(e) \in Nat
    <3>1. CASE e.text.tag
      <4>1. TagWeight(e) = 5 /\ Delimiters(e.text, "high") = {[Tag EXCEPT !.severity = "high"]}
        BY <1>4, <3>1 DEF TagWeight, Delimiters
      <4>2. Points(Found(e.text.plain) \cup {[Tag EXCEPT !.severity = "high"]}) =
              SumFunctionOnSet(PatternWeight, e.text.plain) + Weight["high"]
        BY <1>1, TaggedWeigh
      <4>3. SumFunctionOnSet(PatternWeight, e.text.plain) \in Nat
        BY <1>1, UntaggedWeigh
      <4>4. Points(Found(e.text.plain) \cup Delimiters(e.text, "high")) =
              SumFunctionOnSet(PatternWeight, e.text.plain) + TagWeight(e)
        BY <1>3, <4>1, <4>2, Zenon
      <4> QED BY <4>1, <4>3, <4>4
    <3>2. CASE ~e.text.tag
      <4>1. TagWeight(e) = 0 /\ Delimiters(e.text, "high") = {}
        BY <3>2 DEF TagWeight, Delimiters
      <4> QED BY <1>1, <4>1, UntaggedWeigh
    <3> QED BY <3>1, <3>2
  <2> QED BY <1>4, <2>1 DEF WeightAt, Matches
<1>5. CASE e.source # "user"
  <2> DEFINE S == e.text.plain \cup Decoded(e.text)
  <2>0. S \in SUBSET Patterns
    BY <1>1, <1>2
  <2> HIDE DEF S
  <2>1. /\ Points(Found(S) \cup Delimiters(e.text, "critical"))
             = SumFunctionOnSet(PatternWeight, S) + TagWeight(e)
        /\ SumFunctionOnSet(PatternWeight, S) \in Nat /\ TagWeight(e) \in Nat
    <3>1. CASE e.text.tag
      <4>1. /\ TagWeight(e) = 10
            /\ Delimiters(e.text, "critical") = {[Tag EXCEPT !.severity = "critical"]}
        BY <1>5, <3>1 DEF TagWeight, Delimiters
      <4>2. Points(Found(S) \cup {[Tag EXCEPT !.severity = "critical"]}) =
              SumFunctionOnSet(PatternWeight, S) + Weight["critical"]
        BY <2>0, TaggedWeigh
      <4>3. SumFunctionOnSet(PatternWeight, S) \in Nat
        BY <2>0, UntaggedWeigh
      <4> QED BY <1>3, <4>1, <4>2, <4>3
    <3>2. CASE ~e.text.tag
      <4>1. TagWeight(e) = 0 /\ Delimiters(e.text, "critical") = {}
        BY <3>2 DEF TagWeight, Delimiters
      <4> QED BY <2>0, <4>1, UntaggedWeigh
    <3> QED BY <3>1, <3>2
  <2>2. WeightAt(sensitivity, e) = SumFunctionOnSet(PatternWeight, S) + TagWeight(e)
    BY <1>2, <1>5 DEF WeightAt, S
  <2>3. Points(Matches(e.text, e.source)) = Points(Found(S) \cup Delimiters(e.text, "critical"))
    BY <1>5 DEF Matches, S
  <2> QED BY <2>1, <2>2, <2>3
<1> QED BY <1>4, <1>5

-----------------------------------------------------------------------------
(* What the scores rest on: a session that is not begun was shown nothing, *)
(* and a live one that was over the threshold still is.                    *)
ScoreTypes ==
  /\ sensitivity \in {"low", "medium", "high"}
  /\ session \in [ScreenedSessions -> {"new", "live", "ended"}]
  /\ DOMAIN scores \subseteq ScreenedSessions /\ \A s \in DOMAIN scores : scores[s] \in Nat
  /\ caller \in [ScreenedCalls -> ScreenedSessions]
  /\ screened \in Seq(Shown)

NewUnseen == \A i \in DOMAIN screened : session[screened[i].session] # "new"

FlagKept ==
  \A i \in DOMAIN screened :
    screened[i].exceeded /\ session[screened[i].session] = "live" =>
      Exceeds(Score(screened[i].session))

ScoreInv == /\ ScoreTypes /\ NewUnseen /\ FlagKept
            /\ TrackedAreLive /\ EachPatternOnce /\ FlagStays

Counted(s) == Score(s) = SumFunctionOnSet(Weights, ShownTo(s))

LEMMA EachCounted ==
  /\ EachPatternOnce <=> \A s \in ScreenedSessions : session[s] = "live" => Counted(s)
  /\ EachPatternOnce' <=> \A s \in ScreenedSessions : session'[s] = "live" => Counted(s)'
  BY WeightsUnfold DEF EachPatternOnce, Counted

LEMMA WeightsAreNat ==
  ASSUME ScoreTypes
  PROVE  /\ \A i \in DOMAIN screened : Weights[i] \in Nat /\ Weights[i] = WeightAt(sensitivity, screened[i])
         /\ \A s : IsFiniteSet(ShownTo(s)) /\ ShownTo(s) \subseteq DOMAIN screened
<1>1. \A i \in DOMAIN screened : screened[i] \in Shown
  BY DEF ScoreTypes
<1>2. \A i \in DOMAIN screened : Weights[i] = WeightAt(sensitivity, screened[i])
  BY DEF Weights
<1>3. IsFiniteSet(DOMAIN screened)
  <2>1. DOMAIN screened = 1..Len(screened) /\ Len(screened) \in Int
    BY DEF ScoreTypes
  <2> QED BY <2>1, FS_Interval
<1>4. \A s : ShownTo(s) \subseteq DOMAIN screened
  BY DEF ShownTo
<1> QED BY <1>1, <1>2, <1>3, <1>4, PointsCounted, FS_Subset

LEMMA ScoreIsNat == ASSUME ScoreTypes, NEW s PROVE Score(s) \in Nat
  BY DEF ScoreTypes, Score

(* A step that screens nothing.                                            *)
LEMMA ScoreKept ==
  ASSUME ScoreInv, UNCHANGED <<sensitivity, session, scores, caller, screened>>
  PROVE  ScoreInv'
<1>1. ScoreTypes' /\ NewUnseen' /\ TrackedAreLive'
  BY DEF ScoreInv, ScoreTypes, NewUnseen, TrackedAreLive
<1>2. FlagKept' /\ FlagStays'
  BY DEF ScoreInv, FlagKept, FlagStays, Exceeds, Score
<1>3. Weights' = Weights /\ \A s : ShownTo(s)' = ShownTo(s) /\ Score(s)' = Score(s)
  BY DEF Weights, ShownTo, Score
<1>4. \A s \in ScreenedSessions : session'[s] = "live" => Counted(s)'
  BY <1>3, EachCounted DEF ScoreInv, Counted
<1> QED BY <1>1, <1>2, <1>4, EachCounted DEF ScoreInv

(* A text is screened for a live session.                                  *)
LEMMA ScreenKeeps ==
  ASSUME ScoreInv, NEW s \in ScreenedSessions, session[s] = "live",
         NEW text \in Contents, NEW source \in {"user", "tool"}, Screen(s, text, source),
         UNCHANGED <<sensitivity, session, caller>>
  PROVE  ScoreInv'
<1>1. PICK e \in Shown : /\ screened' = Append(screened, e)
                         /\ e.session = s /\ e.source = source /\ e.text = text
                         /\ e.exceeded <=> Exceeds(Current(s, text, source))
                         /\ e.suspicious <=> (source # "user" /\ Suspicious(s, text, source))
  <2> DEFINE e == [session |-> s, source |-> source, text |-> text,
                   exceeded |-> Exceeds(Current(s, text, source)),
                   suspicious |-> source # "user" /\ Suspicious(s, text, source)]
  <2>1. Exceeds(Current(s, text, source)) \in BOOLEAN
    BY DEF Exceeds
  <2>2. (source # "user" /\ Suspicious(s, text, source)) \in BOOLEAN
    OBVIOUS
  <2>3. e \in Shown
    BY <2>1, <2>2 DEF Shown
  <2>4. screened' = Append(screened, e)
    BY DEF Screen
  <2> QED BY <2>3, <2>4
<1>2. PICK n \in Nat : n = Score(s)
  BY ScoreIsNat DEF ScoreInv
<1>3. PICK w \in Nat : w = WeightAt(sensitivity, e) /\ w = Points(Matches(text, source))
  BY <1>1, PointsCounted
<1>4. scores' = WithScore(s, n + w) /\ Current(s, text, source) = n + w
  BY <1>2, <1>3 DEF Screen, Current
<1>5. Score(s)' = n + w /\ \A t \in ScreenedSessions \ {s} : Score(t)' = Score(t)
  BY <1>4 DEF Score, WithScore
<1>6. PICK l \in Nat : l = Len(screened) /\ DOMAIN screened = 1..l
  BY DEF ScoreInv, ScoreTypes
<1>7. /\ DOMAIN screened' = 1..(l + 1) /\ screened'[l + 1] = e
      /\ \A i \in 1..l : screened'[i] = screened[i]
  BY <1>1, <1>6 DEF ScoreInv, ScoreTypes
<1>8. ScoreTypes'
  BY <1>1, <1>4 DEF ScoreInv, ScoreTypes, WithScore
<1>9. TrackedAreLive'
  BY <1>4 DEF ScoreInv, TrackedAreLive, WithScore
<1>10. NewUnseen'
  BY <1>1, <1>6, <1>7 DEF ScoreInv, NewUnseen
<1>11. Threshold[sensitivity] \in Nat
  BY DEF ScoreInv, ScoreTypes, Threshold
<1>12. /\ Exceeds(n) => Exceeds(n + w)
       /\ e.exceeded <=> Exceeds(n + w)
  <2>1. Exceeds(n) => Exceeds(n + w)
    BY <1>11 DEF Exceeds
  <2>2. e.exceeded <=> Exceeds(n + w)
    BY <1>1, <1>4, Zenon
  <2> QED BY <2>1, <2>2
<1>13. \A m : Exceeds(m)' <=> Exceeds(m)
  BY Zenon DEF Exceeds
<1>14. FlagKept'
  <2> SUFFICES ASSUME NEW i \in DOMAIN screened', screened'[i].exceeded,
                      session'[screened'[i].session] = "live"
               PROVE  Exceeds(Score(screened[i].session))'
    BY DEF FlagKept
  <2>1. PICK t \in ScreenedSessions : t = screened'[i].session
    <3>1. screened'[i] \in Shown
      BY <1>8 DEF ScoreTypes
    <3> QED BY <3>1 DEF Shown
  <2>2. SUFFICES Exceeds(Score(t)')
    <3>1. Score(t)' = Score(screened[i].session)'
      BY <2>1 DEF Score
    <3> QED BY <2>2, <3>1 DEF Exceeds
  <2>3. CASE i = l + 1
    <3>1. screened'[i] = e /\ t = s
      BY <1>1, <1>7, <2>1, <2>3
    <3>2. e.exceeded
      BY <3>1
    <3>3. Exceeds(n + w)
      BY <1>12, <3>2
    <3>4. Score(t)' = n + w
      BY <1>5, <3>1
    <3> QED BY <3>3, <3>4
  <2>4. CASE i # l + 1
    <3>1. i \in 1..l /\ screened'[i] = screened[i]
      BY <1>7, <2>4
    <3>2. Exceeds(Score(t))
      BY <1>6, <2>1, <3>1 DEF ScoreInv, FlagKept
    <3>3. CASE t = s
      BY <1>2, <1>5, <1>12, <3>2, <3>3
    <3>4. CASE t # s
      <4>1. Score(t)' = Score(t)
        BY <1>5, <3>4
      <4> QED BY <3>2, <4>1
    <3> QED BY <3>3, <3>4
  <2> QED BY <2>3, <2>4
<1>15. FlagStays'
  <2> SUFFICES ASSUME NEW i \in DOMAIN screened', NEW j \in DOMAIN screened', i < j,
                      screened'[i].session = screened'[j].session, screened'[i].exceeded
               PROVE  /\ screened'[j].exceeded
                      /\ screened'[j].source = "tool" => screened'[j].suspicious
    BY DEF FlagStays
  <2>1. i \in 1..l /\ screened'[i] = screened[i]
    BY <1>7
  <2>2. CASE j = l + 1
    <3>1. screened[i].session = s /\ screened'[j] = e
      BY <1>1, <1>7, <2>1, <2>2
    <3>2. Exceeds(n)
      BY <1>2, <1>6, <2>1, <3>1 DEF ScoreInv, FlagKept
    <3>3. Exceeds(Current(s, text, source))
      BY <1>4, <1>12, <3>2
    <3>4. source = "tool" => e.suspicious
      BY <1>1, <3>3 DEF Suspicious
    <3>5. e.exceeded
      BY <1>12, <3>2
    <3> QED BY <1>1, <3>1, <3>4, <3>5
  <2>3. CASE j # l + 1
    <3>1. j \in 1..l /\ screened'[j] = screened[j]
      BY <1>7, <2>3
    <3> QED BY <1>6, <2>1, <3>1 DEF ScoreInv, FlagStays
  <2> QED BY <2>2, <2>3
<1>16. EachPatternOnce'
  <2>1. PICK W : W = Weights'
    OBVIOUS
  <2>2. PICK V : V = Weights
    OBVIOUS
  <2>3. \A i \in 1..l : V[i] \in Nat /\ W[i] = V[i]
    BY <1>6, <1>7, <2>1, <2>2, WeightsAreNat DEF Weights, ScoreInv
  <2>4. W[l + 1] = w
    <3>1. l + 1 \in DOMAIN screened'
      BY <1>7
    <3>2. W[l + 1] = WeightAt(sensitivity', screened'[l + 1])
      BY <2>1, <3>1 DEF Weights
    <3> QED BY <1>3, <1>7, <3>2
  <2>5. \A t : IsFiniteSet(ShownTo(t)) /\ ShownTo(t) \subseteq 1..l
    BY <1>6, WeightsAreNat DEF ScoreInv
  <2>6. ShownTo(s)' = ShownTo(s) \cup {l + 1} /\ l + 1 \notin ShownTo(s)
    BY <1>1, <1>6, <1>7, <2>5 DEF ShownTo
  <2>7. \A t : t # s => ShownTo(t)' = ShownTo(t)
    BY <1>1, <1>6, <1>7 DEF ShownTo
  <2>8. \A t : SumFunctionOnSet(V, ShownTo(t)) = SumFunctionOnSet(W, ShownTo(t))
    <3> SUFFICES ASSUME NEW t PROVE SumFunctionOnSet(V, ShownTo(t)) = SumFunctionOnSet(W, ShownTo(t))
      OBVIOUS
    <3>1. \A i \in ShownTo(t) : V[i] = W[i] /\ V[i] \in Int
      BY <2>3, <2>5
    <3> QED BY <2>5, <3>1, SumSame
  <2>9. SumFunctionOnSet(W, ShownTo(s) \cup {l + 1}) = w + SumFunctionOnSet(W, ShownTo(s))
    <3>1. \A i \in ShownTo(s) \cup {l + 1} : W[i] \in Int
      BY <2>3, <2>4, <2>5
    <3> QED BY <2>4, <2>5, <2>6, <3>1, SumAdd
  <2>10. ASSUME NEW t \in ScreenedSessions, session[t] = "live" PROVE Counted(t)'
    <3>1. Score(t) = SumFunctionOnSet(V, ShownTo(t))
      BY <2>2, <2>10, EachCounted DEF ScoreInv, Counted
    <3>2. CASE t = s
      <4>1. SumFunctionOnSet(W, ShownTo(s) \cup {l + 1}) = n + w
        BY <1>2, <2>8, <2>9, <3>1, <3>2
      <4>2. Score(s)' = SumFunctionOnSet(W, ShownTo(s)')
        BY <1>5, <2>6, <4>1
      <4> QED BY <2>1, <3>2, <4>2 DEF Counted
    <3>3. CASE t # s
      BY <1>5, <2>1, <2>7, <2>8, <3>1, <3>3 DEF Counted
    <3> QED BY <3>2, <3>3
  <2> QED BY <2>10, EachCounted
<1> QED BY <1>8, <1>9, <1>10, <1>14, <1>15, <1>16 DEF ScoreInv

LEMMA ScoreInvInit == ScreeningInit => ScoreInv
<1> SUFFICES ASSUME ScreeningInit PROVE ScoreInv
  OBVIOUS
<1>1. ScoreTypes /\ NewUnseen /\ FlagKept /\ TrackedAreLive /\ FlagStays
  BY DEF ScreeningInit, ScoreTypes, NewUnseen, FlagKept, TrackedAreLive, FlagStays
<1>2. EachPatternOnce
  BY DEF ScreeningInit, EachPatternOnce
<1> QED BY <1>1, <1>2 DEF ScoreInv

LEMMA ScoreInvNext == ScoreInv /\ [ScreeningNext]_screeningVars => ScoreInv'
<1> SUFFICES ASSUME ScoreInv, [ScreeningNext]_screeningVars PROVE ScoreInv'
  OBVIOUS
<1>1. ASSUME NEW s \in ScreenedSessions, CreateSession(s) PROVE ScoreInv'
  <2>1. /\ session' = [session EXCEPT ![s] = "live"] /\ session[s] = "new"
        /\ UNCHANGED <<sensitivity, scores, caller, screened>>
    BY <1>1 DEF CreateSession
  <2>2. \A i \in DOMAIN screened : screened[i].session # s
    BY <2>1 DEF ScoreInv, NewUnseen
  <2>3. s \notin DOMAIN scores
    BY <2>1 DEF ScoreInv, TrackedAreLive
  <2>4. ScoreTypes' /\ NewUnseen' /\ TrackedAreLive' /\ FlagStays'
    BY <2>1 DEF ScoreInv, ScoreTypes, NewUnseen, TrackedAreLive, FlagStays
  <2>5. FlagKept'
    BY <2>1, <2>2 DEF ScoreInv, ScoreTypes, FlagKept, Exceeds, Score
  <2>6. Weights' = Weights /\ \A t : ShownTo(t)' = ShownTo(t) /\ Score(t)' = Score(t)
    BY <2>1 DEF Weights, ShownTo, Score
  <2>7. Counted(s)
    <3>1. ShownTo(s) = {} /\ Score(s) = 0
      BY <2>2, <2>3 DEF ShownTo, Score
    <3> QED BY <3>1, SumEmpty DEF Counted
  <2>8. \A t \in ScreenedSessions : session'[t] = "live" => t = s \/ session[t] = "live"
    BY <2>1 DEF ScoreInv, ScoreTypes
  <2>9. \A t \in ScreenedSessions : session'[t] = "live" => Counted(t)'
    BY <2>6, <2>7, <2>8, EachCounted DEF ScoreInv, Counted
  <2> QED BY <2>4, <2>5, <2>9, EachCounted DEF ScoreInv
<1>2. ASSUME NEW s \in ScreenedSessions, TerminateSession(s) PROVE ScoreInv'
  <2>1. /\ session' = [session EXCEPT ![s] = "ended"]
        /\ scores' = [t \in DOMAIN scores \ {s} |-> scores[t]]
        /\ UNCHANGED <<sensitivity, caller, screened>>
    BY <1>2 DEF TerminateSession
  <2>2. ScoreTypes' /\ NewUnseen' /\ TrackedAreLive' /\ FlagStays'
    BY <2>1 DEF ScoreInv, ScoreTypes, NewUnseen, TrackedAreLive, FlagStays
  <2>3. \A t \in ScreenedSessions : session'[t] = "live" => /\ t # s /\ session[t] = "live"
                                                            /\ Score(t)' = Score(t)
    BY <2>1 DEF ScoreInv, ScoreTypes, Score
  <2>4. FlagKept'
    <3>1. \A i \in DOMAIN screened : screened[i].session \in ScreenedSessions
      <4>1. \A i \in DOMAIN screened : screened[i] \in Shown
        BY DEF ScoreInv, ScoreTypes
      <4> QED BY <4>1 DEF Shown
    <3> QED BY <2>1, <2>3, <3>1 DEF ScoreInv, FlagKept, Exceeds, Score
  <2>5. Weights' = Weights /\ \A t : ShownTo(t)' = ShownTo(t)
    BY <2>1 DEF Weights, ShownTo
  <2>6. \A t \in ScreenedSessions : session'[t] = "live" => Counted(t)'
    BY <2>3, <2>5, EachCounted DEF ScoreInv, Counted
  <2> QED BY <2>2, <2>4, <2>6, EachCounted DEF ScoreInv
<1>3. ASSUME NEW s \in ScreenedSessions, NEW text \in Contents, UserMessage(s, text)
      PROVE  ScoreInv'
  BY <1>3, ScreenKeeps DEF UserMessage
<1>4. ASSUME NEW c \in ScreenedCalls, NEW text \in Contents, ToolEnds(c, text) PROVE ScoreInv'
  <2>1. caller[c] \in ScreenedSessions
    BY DEF ScoreInv, ScoreTypes
  <2>2. CASE session[caller[c]] = "live"
    BY <1>4, <2>1, <2>2, ScreenKeeps DEF ToolEnds
  <2>3. CASE session[caller[c]] # "live"
    BY <1>4, <2>3, ScoreKept DEF ToolEnds
  <2> QED BY <2>2, <2>3
<1>5. ASSUME NEW c \in ScreenedCalls,
             \/ ToolStarts(c) \/ UrlNamed(c) \/ UrlRefused(c) \/ DnsFails(c) \/ DnsTimesOut(c)
             \/ \E public \in BOOLEAN : DnsAnswers(c, public)
      PROVE  ScoreInv'
  BY <1>5, ScoreKept DEF ToolStarts, UrlNamed, UrlRefused, DnsFails, DnsTimesOut, DnsAnswers
<1>6. ASSUME NEW i, WebhookAnswers(i) \/ PostFails(i) \/ PostTimesOut(i) PROVE ScoreInv'
  BY <1>6, ScoreKept DEF WebhookAnswers, PostFails, PostTimesOut, Reported
<1>7. CASE UNCHANGED screeningVars
  BY <1>7, ScoreKept DEF screeningVars
<1> QED BY <1>1, <1>2, <1>3, <1>4, <1>5, <1>6, <1>7 DEF ScreeningNext

THEOREM ScoreInvariant == ScreeningSpec => []ScoreInv
  BY ScoreInvInit, ScoreInvNext, PTL DEF ScreeningSpec

(* Whatever ends or is screened in whatever order, only live sessions have *)
(* a score, it counts each pattern once a text, and a session over the     *)
(* threshold stays over it (turn-score-tracker.ts, sanitizer.ts).          *)
THEOREM ScoresAlwaysHold == ScreeningSpec => []ScoresHold
<1>1. ScoreInv => ScoresHold
  BY DEF ScoreInv, ScoresHold
<1> QED BY <1>1, ScoreInvariant, PTL
-----------------------------------------------------------------------------
(* What the analysis finds.                                                *)
LEMMA ImageCount ==
  ASSUME NEW S, IsFiniteSet(S), NEW h
  PROVE  /\ IsFiniteSet({h[x] : x \in S})
         /\ Cardinality({h[x] : x \in S}) <= Cardinality(S)
<1> DEFINE T == {h[x] : x \in S}
           f == [x \in S |-> h[x]]
<1>1. f \in Surjection(S, T)
  BY DEF Surjection
<1> HIDE DEF f
<1> QED BY <1>1, FS_Surjection

(* The counts of sets that have nothing in common add up to no more than   *)
(* there is, and to no less than the least of them times their number.     *)
LEMMA CountsAdd ==
  ASSUME NEW U, IsFiniteSet(U), NEW S, IsFiniteSet(S), NEW at, NEW L \in Nat,
         \A x \in S : at[x] \subseteq U /\ Cardinality(at[x]) >= L,
         \A x, y \in S : x # y => at[x] \cap at[y] = {}
  PROVE  LET n == SumFunctionOnSet([x \in S |-> Cardinality(at[x])], S)
         IN  n \in Nat /\ n <= Cardinality(U) /\ L * Cardinality(S) <= n
<1> DEFINE c == [x \in S |-> Cardinality(at[x])]
           All(s) == UNION {at[x] : x \in s}
           Sum(s) == SumFunctionOnSet(c, s)
           Added(s) == /\ Sum(s) \in Nat /\ Sum(s) = Cardinality(All(s))
                       /\ L * Cardinality(s) <= Sum(s)
           G == {s \in SUBSET S : Added(s)}
<1>1. \A x \in S : IsFiniteSet(at[x]) /\ c[x] = Cardinality(at[x]) /\ c[x] \in Nat /\ c[x] >= L
  BY FS_Subset, FS_CardinalityType
<1>2. {} \in G
  <2>1. All({}) = {} /\ Cardinality({}) = 0
    BY FS_EmptySet
  <2>2. Sum({}) = 0
    BY SumEmpty
  <2>3. L * 0 = 0
    OBVIOUS
  <2> HIDE DEF Sum, All
  <2> QED BY <2>1, <2>2, <2>3
<1>3. ASSUME NEW s \in SUBSET S, NEW z \in s, s \ {z} \in G
      PROVE  s \in G
  <2> DEFINE r == s \ {z}
  <2>1. IsFiniteSet(s) /\ IsFiniteSet(r) /\ Cardinality(r) \in Nat /\ Cardinality(s) = Cardinality(r) + 1
    <3>1. IsFiniteSet(s)
      BY FS_Subset
    <3>2. IsFiniteSet(r) /\ Cardinality(r) = Cardinality(s) - 1
      BY <3>1, FS_RemoveElement
    <3> QED BY <3>1, <3>2, FS_CardinalityType
  <2>2. Sum(s) = c[z] + Sum(r)
    <3>1. \A y \in s : c[y] \in Int
      BY <1>1
    <3> HIDE DEF c
    <3> QED BY <2>1, <3>1, SumSplit
  <2>3. All(s) = at[z] \cup All(r)
    OBVIOUS
  <2>4. at[z] \cap All(r) = {}
    <3>1. \A x \in r : at[z] \cap at[x] = {}
      OBVIOUS
    <3> QED BY <3>1
  <2>5. IsFiniteSet(All(r)) /\ IsFiniteSet(at[z])
    <3>1. All(r) \subseteq U
      OBVIOUS
    <3> HIDE DEF All
    <3> QED BY <3>1, <1>1, FS_Subset
  <2>6. Added(r)
    BY <1>3
  <2>7. Cardinality(All(s)) = Cardinality(at[z]) + Cardinality(All(r))
    <3>1. PICK A, B : A = at[z] /\ B = All(r)
      OBVIOUS
    <3> HIDE DEF All
    <3>2. IsFiniteSet(A) /\ IsFiniteSet(B) /\ A \cap B = {}
      BY <2>4, <2>5, <3>1
    <3>3. Cardinality(A \cup B) = Cardinality(A) + Cardinality(B) - Cardinality(A \cap B)
      BY <3>2, FS_Union
    <3>4. Cardinality(A \cap B) = 0 /\ Cardinality(A) \in Nat /\ Cardinality(B) \in Nat
      BY <3>2, FS_EmptySet, FS_CardinalityType
    <3> QED BY <2>3, <3>1, <3>3, <3>4
  <2>8. c[z] \in Nat /\ c[z] >= L /\ c[z] = Cardinality(at[z])
    BY <1>1
  <2> HIDE DEF c, All, Sum
  <2>9. L * (Cardinality(r) + 1) = L * Cardinality(r) + L /\ L * Cardinality(r) \in Nat
    BY <2>1
  <2>10. Added(s)
    BY <2>1, <2>2, <2>6, <2>7, <2>8, <2>9
  <2> QED BY <2>10
<1> HIDE DEF Added
<1>4. S \in G
  <2> HIDE DEF G
  <2> QED BY <1>2, <1>3, SetInduction
<1>5. Cardinality(All(S)) <= Cardinality(U) /\ Cardinality(All(S)) \in Nat /\ Cardinality(U) \in Nat
  <2>1. All(S) \subseteq U
    OBVIOUS
  <2> HIDE DEF All
  <2> QED BY <2>1, CountSubset
<1> USE DEF Added
<1> HIDE DEF c, All
<1>6. Added(S)
  BY <1>4
<1>7. Sum(S) \in Nat /\ Sum(S) <= Cardinality(U) /\ L * Cardinality(S) <= Sum(S)
  BY <1>5, <1>6
<1> QED BY <1>7 DEF c

(* Groups by a key have something and nothing in common.                   *)
LEMMA GroupsApart ==
  ASSUME NEW key
  PROVE  /\ \A g \in GroupsBy(key) : g # {} /\ g \subseteq DOMAIN key
         /\ \A g, h \in GroupsBy(key) : g # h => g \cap h = {}
  BY DEF GroupsBy, Range

(* So have runs: two that meet are one.                                    *)
LEMMA RunsApart ==
  ASSUME NEW calls, calls \subseteq Nat
  PROVE  /\ \A i \in calls : i \in RunOf(i, calls) /\ RunOf(i, calls) \subseteq calls
         /\ \A i, j \in calls : RunOf(i, calls) \cap RunOf(j, calls) # {} =>
                                  RunOf(i, calls) = RunOf(j, calls)
<1> DEFINE Near(i, j) == \A k \in calls : (i <= k /\ k <= j) \/ (j <= k /\ k <= i) =>
                                            ToolName(log[k]) = ToolName(log[i])
<1>0. \A i, j \in calls : j \in RunOf(i, calls) <=> Near(i, j)
  BY DEF RunOf
<1>1. \A i \in calls : Near(i, i)
  <2> SUFFICES ASSUME NEW i \in calls, NEW k \in calls, i <= k /\ k <= i
               PROVE  ToolName(log[k]) = ToolName(log[i])
    BY Zenon
  <2>1. k = i
    OBVIOUS
  <2> QED BY <2>1
<1>2. ASSUME NEW i \in calls, NEW j \in calls, Near(i, j) PROVE Near(j, i)
  <2>1. ToolName(log[j]) = ToolName(log[i])
    BY <1>2
  <2> QED BY <1>2, <2>1
<1>3. ASSUME NEW i \in calls, NEW j \in calls, NEW m \in calls, Near(i, j), Near(j, m)
      PROVE  Near(i, m)
  <2>1. ToolName(log[j]) = ToolName(log[i])
    BY <1>3
  <2> SUFFICES ASSUME NEW k \in calls, (i <= k /\ k <= m) \/ (m <= k /\ k <= i)
               PROVE  ToolName(log[k]) = ToolName(log[i])
    OBVIOUS
  <2>2. \/ (i <= k /\ k <= j) \/ (j <= k /\ k <= i)
        \/ (j <= k /\ k <= m) \/ (m <= k /\ k <= j)
    OBVIOUS
  <2> QED BY <1>3, <2>1, <2>2
<1> HIDE DEF Near
<1>4. ASSUME NEW i \in calls, NEW j \in calls, NEW m \in RunOf(i, calls), m \in RunOf(j, calls)
      PROVE  RunOf(i, calls) = RunOf(j, calls)
  <2>1. m \in calls
    BY DEF RunOf
  <2>2. Near(i, m) /\ Near(m, i) /\ Near(j, m) /\ Near(m, j)
    BY <1>0, <1>2, <1>4, <2>1
  <2>3. Near(i, j) /\ Near(j, i)
    BY <1>3, <2>1, <2>2
  <2>4. \A k \in calls : Near(i, k) <=> Near(j, k)
    BY <1>3, <2>3
  <2>5. RunOf(i, calls) \subseteq calls /\ RunOf(j, calls) \subseteq calls
    BY DEF RunOf
  <2> QED BY <1>0, <2>4, <2>5
<1> QED BY <1>0, <1>1, <1>4 DEF RunOf

-----------------------------------------------------------------------------
(* A pattern of a session: events of it that count for its type, and three *)
(* at least in a loop.                                                     *)
PatternOf(s, p) ==
  /\ p = [type |-> p.type, session |-> s, at |-> p.at]
  /\ p.type \in PatternTypes
  /\ p.at # {}
  /\ p.at \subseteq {i \in Candidates(p.type, DOMAIN log) : log[i].session = s}
  /\ p.type = "loop_detected" => Cardinality(p.at) >= 3

(* No event is in two patterns of a type.                                  *)
PatternsHold(s, found) ==
  /\ \A p \in found : PatternOf(s, p)
  /\ \A p, q \in found : p.type = q.type /\ p # q => p.at \cap q.at = {}

LogOK == log \in Seq(OfSessions \cup {Generated})

LEMMA LogFacts ==
  ASSUME LogOK
  PROVE  /\ Len(log) \in Nat /\ DOMAIN log = 1..Len(log) /\ DOMAIN log \subseteq Nat
         /\ IsFiniteSet(DOMAIN log) /\ Cardinality(DOMAIN log) = Len(log)
         /\ \A i \in DOMAIN log : log[i] \in OfSessions \cup {Generated}
<1>1. Len(log) \in Nat /\ DOMAIN log = 1..Len(log)
  BY DEF LogOK
<1>2. \A i \in DOMAIN log : log[i] \in OfSessions \cup {Generated}
  BY <1>1 DEF LogOK
<1>3. IsFiniteSet(1..Len(log)) /\ Cardinality(1..Len(log)) = Len(log)
  <2>1. PICK n \in Nat : n = Len(log)
    BY <1>1
  <2>2. IsFiniteSet(1..n) /\ Cardinality(1..n) = n
    BY FS_Interval
  <2> QED BY <2>1, <2>2
<1>4. 1..Len(log) \subseteq Nat
  BY <1>1
<1> QED BY <1>1, <1>2, <1>3, <1>4

LEMMA EventFacts ==
  ASSUME NEW e \in OfSessions \cup {Generated}
  PROVE  /\ e.session \in Sessions \cup {NoSession}
         /\ e.type = "tool_call" => ToolName(e) = "unknown"
<1>1. CASE e = Generated
  BY <1>1 DEF Generated, Event
<1>2. ASSUME NEW s \in Sessions, NEW t, e = Called(s, t)
      PROVE  e.session \in Sessions /\ ToolName(e) = "unknown"
  <2>1. e.session = s /\ e.payload = [tool_id |-> t]
    BY <1>2 DEF Called, Event
  <2>2. "tool_name" \notin DOMAIN e.payload
    BY <2>1
  <2> QED BY <2>1, <2>2 DEF ToolName
<1>3. ASSUME NEW s \in Sessions, e \in {FailedCall(s), Asked(s), Injected(s)}
      PROVE  e.session \in Sessions /\ e.type # "tool_call"
  BY <1>3 DEF FailedCall, Asked, Injected, Event
<1> QED BY <1>1, <1>2, <1>3 DEF OfSessions

FromGroups(s, t, groups, found) ==
  /\ t \in PatternTypes
  /\ \A g \in groups : /\ g # {}
                       /\ \A i \in g : i \in Candidates(t, DOMAIN log) /\ log[i].session = s
                       /\ t = "loop_detected" => Cardinality(g) >= 3
  /\ \A g, h \in groups : g # h => g \cap h = {}
  /\ \A p \in found : \E g \in groups : p = Pattern(t, g)

LEMMA PatternsOfGroups ==
  ASSUME LogOK, NEW s, NEW t, NEW groups, NEW found, FromGroups(s, t, groups, found)
  PROVE  PatternsHold(s, found) /\ \A p \in found : p.type = t
<1> USE DEF FromGroups
<1>1. ASSUME NEW g \in groups
      PROVE  Pattern(t, g) = [type |-> t, session |-> s, at |-> g]
  <2>1. IsFiniteSet(g) /\ g \subseteq Nat /\ g # {}
    BY LogFacts, FS_Subset DEF Candidates
  <2>2. Max(g) \in g
    BY <2>1, MaxIsLargest
  <2>3. log[Max(g)].session = s
    BY <2>2
  <2> QED BY <2>3 DEF Pattern
<1>2. ASSUME NEW g \in groups PROVE PatternOf(s, Pattern(t, g))
  BY <1>1 DEF PatternOf
<1>3. ASSUME NEW g \in groups, NEW h \in groups, Pattern(t, g) # Pattern(t, h)
      PROVE  Pattern(t, g).at \cap Pattern(t, h).at = {}
  <2>1. g # h
    BY <1>3
  <2> QED BY <1>1, <2>1
<1> QED BY <1>1, <1>2, <1>3 DEF PatternsHold

(* The detectors find such patterns in the events of one session.          *)
LEMMA DetectedHolds ==
  ASSUME LogOK, NEW s, NEW events \in SUBSET {i \in DOMAIN log : log[i].session = s}
  PROVE  PatternsHold(s, Detected(events))
<1>0. \A t : \A i \in Candidates(t, events) :
        i \in events /\ i \in Candidates(t, DOMAIN log) /\ log[i].session = s
  BY DEF Candidates
<1>1. /\ PatternsHold(s, detectToolFailures(events))
      /\ \A p \in detectToolFailures(events) : p.type = "tool_failure"
  <2>1. PICK failures : failures = {i \in Candidates("tool_failure", events) : Failed(log[i])}
    OBVIOUS
  <2>2. PICK groups : groups = GroupsBy([i \in failures |-> ToolName(log[i])])
    OBVIOUS
  <2>3. \A g \in groups : g # {} /\ g \subseteq failures
    BY <2>2, GroupsApart
  <2>4. \A g, h \in groups : g # h => g \cap h = {}
    BY <2>2, GroupsApart
  <2>5. "tool_failure" \in PatternTypes /\ "tool_failure" # "loop_detected"
    BY DEF PatternTypes, EventTypes
  <2>6. \A g \in groups : \A i \in g :
          i \in Candidates("tool_failure", DOMAIN log) /\ log[i].session = s
    BY <1>0, <2>1, <2>3
  <2>7. PICK found : found = detectToolFailures(events)
    OBVIOUS
  <2>8. \A p \in found : \E g \in groups : p = Pattern("tool_failure", g)
    BY <2>1, <2>2, <2>7 DEF detectToolFailures
  <2>9. FromGroups(s, "tool_failure", groups, found)
    BY <2>3, <2>4, <2>5, <2>6, <2>8 DEF FromGroups
  <2> QED BY <2>7, <2>9, PatternsOfGroups
<1>2. /\ PatternsHold(s, detectLoops(events))
      /\ \A p \in detectLoops(events) : p.type = "loop_detected"
  <2>1. PICK calls : calls = toolEvents(events)
    OBVIOUS
  <2>2. /\ calls \subseteq Nat
        /\ \A i \in calls : i \in Candidates("loop_detected", DOMAIN log) /\ log[i].session = s
    BY <1>0, <2>1, LogFacts DEF toolEvents, Candidates
  <2>3. "loop_detected" \in PatternTypes
    BY DEF PatternTypes, EventTypes
  <2>4. PICK groups : groups = Loops(events)
    OBVIOUS
  <2>5. \A g \in groups : Cardinality(g) >= 3 /\ \E i \in calls : g = RunOf(i, calls)
    BY <2>1, <2>4 DEF Loops
  <2>6. /\ \A i \in calls : i \in RunOf(i, calls) /\ RunOf(i, calls) \subseteq calls
        /\ \A i, j \in calls : RunOf(i, calls) \cap RunOf(j, calls) # {} =>
                                RunOf(i, calls) = RunOf(j, calls)
    BY <2>2, RunsApart
  <2>7. ASSUME NEW g \in groups
        PROVE  /\ g # {}
               /\ \A i \in g : i \in Candidates("loop_detected", DOMAIN log) /\ log[i].session = s
    <3>1. PICK i \in calls : g = RunOf(i, calls)
      BY <2>5
    <3>2. i \in g /\ g \subseteq calls
      BY <2>6, <3>1
    <3> QED BY <2>2, <3>2
  <2>8. \A g, h \in groups : g # h => g \cap h = {}
    BY <2>5, <2>6
  <2>9. PICK found : found = detectLoops(events)
    OBVIOUS
  <2>10. \A p \in found : \E g \in groups : p = Pattern("loop_detected", g)
    BY <2>4, <2>9 DEF detectLoops
  <2>11. FromGroups(s, "loop_detected", groups, found)
    BY <2>3, <2>5, <2>7, <2>8, <2>10 DEF FromGroups
  <2> QED BY <2>9, <2>11, PatternsOfGroups
<1>3. ASSUME NEW t \in {"injection_detected", "approval_bottleneck"}
      PROVE  /\ PatternsHold(s, GroupedBySession(t, events))
             /\ \A p \in GroupedBySession(t, events) : p.type = t
  <2>1. PICK groups : groups = GroupsBy([i \in Candidates(t, events) |-> log[i].session])
    OBVIOUS
  <2>2. \A g \in groups : g # {} /\ g \subseteq Candidates(t, events)
    BY <2>1, GroupsApart
  <2>3. \A g, h \in groups : g # h => g \cap h = {}
    BY <2>1, GroupsApart
  <2>4. t \in PatternTypes /\ t # "loop_detected"
    BY DEF PatternTypes, EventTypes
  <2>5. \A g \in groups : \A i \in g : i \in Candidates(t, DOMAIN log) /\ log[i].session = s
    BY <1>0, <2>2
  <2>6. PICK found : found = GroupedBySession(t, events)
    OBVIOUS
  <2>7. \A p \in found : \E g \in groups : p = Pattern(t, g)
    BY <2>1, <2>6 DEF GroupedBySession
  <2>8. FromGroups(s, t, groups, found)
    BY <2>2, <2>3, <2>4, <2>5, <2>7 DEF FromGroups
  <2> QED BY <2>6, <2>8, PatternsOfGroups
<1>4. /\ PatternsHold(s, detectInjectionPatterns(events))
      /\ \A p \in detectInjectionPatterns(events) : p.type = "injection_detected"
  BY <1>3 DEF detectInjectionPatterns
<1>5. /\ PatternsHold(s, detectApprovalBottlenecks(events))
      /\ \A p \in detectApprovalBottlenecks(events) : p.type = "approval_bottleneck"
  BY <1>3 DEF detectApprovalBottlenecks
<1>6. \A p \in Detected(events) : PatternOf(s, p)
  BY <1>1, <1>2, <1>4, <1>5 DEF Detected, PatternsHold
<1>7. ASSUME NEW p \in Detected(events), NEW q \in Detected(events), p.type = q.type, p # q
      PROVE  p.at \cap q.at = {}
  <2>1. \/ p \in detectToolFailures(events) /\ q \in detectToolFailures(events)
        \/ p \in detectLoops(events) /\ q \in detectLoops(events)
        \/ p \in detectInjectionPatterns(events) /\ q \in detectInjectionPatterns(events)
        \/ p \in detectApprovalBottlenecks(events) /\ q \in detectApprovalBottlenecks(events)
    BY <1>1, <1>2, <1>4, <1>5, <1>7 DEF Detected
  <2> QED BY <1>1, <1>2, <1>4, <1>5, <1>7, <2>1 DEF PatternsHold
<1> QED BY <1>6, <1>7 DEF PatternsHold

(* What is generated of them claims no more than the log holds.            *)
Patches == [type : PatternTypes, total : Nat, affected : Nat]

LEMMA PatchClaims ==
  ASSUME LogOK, NEW of, IsFiniteSet(DOMAIN of), \A s \in DOMAIN of : PatternsHold(s, of[s]),
         NEW t \in PatternTypes, Affected(t, of) > 0
  PROVE  Identified(t, of) \in Patches /\ ClaimOfTheLog(Identified(t, of))
<1> DEFINE F == Gathered(t, of)
           U == Candidates(t, DOMAIN log)
           at == [f \in F |-> f[2].at]
           L == IF t = "loop_detected" THEN 3 ELSE 1
           sessions == {f[2].session : f \in F}
           holders == {log[i].session : i \in U}
<1>1. \A f \in F : /\ f = <<f[1], f[2]>> /\ f[1] \in DOMAIN of
                   /\ f[2] \in of[f[1]] /\ f[2].type = t
  BY DEF Gathered
<1>2. \A f \in F : /\ PatternOf(f[1], f[2])
                   /\ f[2].session = f[1]
  BY <1>1 DEF PatternsHold, PatternOf
<1>3. IsFiniteSet(U) /\ IsFiniteSet(DOMAIN log)
  BY LogFacts, FS_Subset DEF Candidates
<1>4. IsFiniteSet(F)
  <2> DEFINE D == (DOMAIN of) \X (SUBSET DOMAIN log)
             h == [x \in D |-> <<x[1], [type |-> t, session |-> x[1], at |-> x[2]]>>]
  <2>1. IsFiniteSet(D)
    BY <1>3, FS_SUBSET, FS_Product
  <2>2. ASSUME NEW f \in F PROVE f \in {h[x] : x \in D}
    <3>1. f = <<f[1], [type |-> t, session |-> f[1], at |-> f[2].at]>>
      BY <1>1, <1>2 DEF PatternOf
    <3>2. f[2].at \in SUBSET DOMAIN log /\ f[1] \in DOMAIN of
      BY <1>1, <1>2 DEF PatternOf, Candidates
    <3>3. <<f[1], f[2].at>> \in D
      BY <3>2
    <3>4. h[<<f[1], f[2].at>>] = <<f[1], [type |-> t, session |-> f[1], at |-> f[2].at]>>
      BY <3>3
    <3> QED BY <3>1, <3>3, <3>4
  <2> HIDE DEF D, h, F
  <2>3. IsFiniteSet({h[x] : x \in D})
    BY <2>1, ImageCount
  <2> QED BY <2>2, <2>3, FS_Subset
<1>5. \A f \in F : at[f] \subseteq U /\ Cardinality(at[f]) >= L
  <2> SUFFICES ASSUME NEW f \in F PROVE at[f] \subseteq U /\ Cardinality(at[f]) >= L
    OBVIOUS
  <2>1. at[f] = f[2].at /\ at[f] # {} /\ at[f] \subseteq U
    BY <1>1, <1>2 DEF PatternOf
  <2>2. t = "loop_detected" => Cardinality(at[f]) >= 3
    BY <1>1, <1>2, <2>1 DEF PatternOf
  <2>3. Cardinality(at[f]) >= 1
    <3>1. IsFiniteSet(at[f]) /\ Cardinality(at[f]) \in Nat
      BY <1>3, <2>1, CountSubset
    <3>2. Cardinality(at[f]) # 0
      BY <2>1, <3>1, FS_EmptySet
    <3> QED BY <3>1, <3>2
  <2> QED BY <2>1, <2>2, <2>3
<1>6. ASSUME NEW f \in F, NEW g \in F, f # g PROVE at[f] \cap at[g] = {}
  <2>1. CASE f[1] = g[1]
    <3>1. f[2] # g[2]
      BY <1>1, <1>6, <2>1
    <3> QED BY <1>1, <2>1, <3>1 DEF PatternsHold
  <2>2. CASE f[1] # g[1]
    BY <1>2, <2>2 DEF PatternOf
  <2> QED BY <2>1, <2>2
<1>7. sessions \subseteq holders
  <2> SUFFICES ASSUME NEW f \in F PROVE f[2].session \in holders
    OBVIOUS
  <2>1. PICK i \in f[2].at : TRUE
    BY <1>2 DEF PatternOf
  <2>2. i \in U /\ log[i].session = f[2].session
    BY <1>1, <1>2, <2>1 DEF PatternOf
  <2> QED BY <2>2
<1> HIDE DEF F, U
<1>8. PICK n \in Nat : /\ n = SumFunctionOnSet([f \in F |-> Cardinality(at[f])], F)
                       /\ n <= Cardinality(U) /\ L * Cardinality(F) <= n
  <2>1. L \in Nat
    OBVIOUS
  <2> HIDE DEF at, L
  <2>2. LET m == SumFunctionOnSet([f \in F |-> Cardinality(at[f])], F)
        IN  m \in Nat /\ m <= Cardinality(U) /\ L * Cardinality(F) <= m
    BY <1>3, <1>4, <1>5, <1>6, <2>1, CountsAdd
  <2> QED BY <2>2
<1>9. Total(t, of) = n
  <2>1. [f \in F |-> Cardinality(f[2].at)] = [f \in F |-> Cardinality(at[f])]
    OBVIOUS
  <2>2. Total(t, of) = SumFunctionOnSet([f \in F |-> Cardinality(f[2].at)], F)
    BY DEF Total, SumFunction, F
  <2> HIDE DEF at
  <2> QED BY <1>8, <2>1, <2>2
<1>10. IsFiniteSet(sessions) /\ Cardinality(sessions) <= Cardinality(F)
  <2> DEFINE h == [f \in F |-> f[2].session]
  <2>1. sessions = {h[f] : f \in F}
    OBVIOUS
  <2> HIDE DEF h, sessions
  <2> QED BY <1>4, <2>1, ImageCount
<1>11. Cardinality(sessions) <= Cardinality(holders)
  <2> DEFINE h == [i \in U |-> log[i].session]
  <2>1. holders = {h[i] : i \in U}
    OBVIOUS
  <2> HIDE DEF h, holders, sessions
  <2>2. IsFiniteSet(holders)
    BY <1>3, <2>1, ImageCount
  <2> QED BY <1>7, <2>2, CountSubset
<1>12. Affected(t, of) = Cardinality(sessions)
  BY DEF Affected, F
<1>13. Cardinality(sessions) \in Nat /\ Cardinality(F) \in Nat
  BY <1>4, <1>10, FS_CardinalityType
<1>14. PICK p : p = Identified(t, of)
  OBVIOUS
<1>15. p.type = t /\ p.total = n /\ p.affected = Cardinality(sessions) /\ p \in Patches
  BY <1>9, <1>12, <1>13, <1>14 DEF Identified, Patches
<1> HIDE DEF sessions, holders
<1>16. Cardinality(sessions) <= n /\ (t = "loop_detected" => 3 * Cardinality(sessions) <= n)
  BY <1>8, <1>10, <1>13
<1>17. /\ Candidates(p.type, DOMAIN log) = U
       /\ {log[i].session : i \in Candidates(p.type, DOMAIN log)} = holders
  BY <1>15 DEF U, holders
<1>18. ClaimOfTheLog(p)
  BY <1>8, <1>11, <1>12, <1>15, <1>16, <1>17 DEF ClaimOfTheLog
<1> QED BY <1>14, <1>15, <1>18

LEMMA LoopsFound == ASSUME LogOK PROVE LoopsAreFound
<1> SUFFICES ASSUME NEW s \in Sessions, NEW events, events = QueryEvents(s, SessionEvents),
                    NEW i \in toolEvents(events), NEW j \in toolEvents(events),
                    NEW row, row = {k \in toolEvents(events) : i <= k /\ k <= j},
                    Cardinality(row) >= 3,
                    \A k \in row : log[k].payload.tool_id = log[i].payload.tool_id
             PROVE  \E p \in detectLoops(events) : row \subseteq p.at
  BY DEF LoopsAreFound
<1> DEFINE calls == toolEvents(events)
           run == RunOf(i, calls)
<1>1. events \subseteq DOMAIN log
  BY DEF QueryEvents, Newest
<1>2. \A k \in calls : k \in DOMAIN log /\ k \in Nat /\ log[k].type = "tool_call"
  BY <1>1, LogFacts DEF toolEvents, Candidates, EventTypes
<1>3. \A k \in calls : ToolName(log[k]) = "unknown"
  BY <1>2, LogFacts, EventFacts
<1>4. row \subseteq run
  BY <1>3 DEF RunOf
<1>5. Cardinality(run) >= 3
  <2>1. run \subseteq DOMAIN log
    BY <1>2 DEF RunOf
  <2>2. IsFiniteSet(run)
    BY <2>1, LogFacts, FS_Subset
  <2> HIDE DEF run
  <2>3. /\ Cardinality(run) \in Nat /\ Cardinality(row) \in Nat
        /\ Cardinality(row) <= Cardinality(run)
    BY <1>4, <2>2, CountSubset
  <2> QED BY <2>3
<1>6. run \in Loops(events)
  BY <1>5 DEF Loops
<1>7. Pattern("loop_detected", run) \in detectLoops(events)
  BY <1>6 DEF detectLoops
<1>8. Pattern("loop_detected", run).at = run
  BY DEF Pattern
<1> QED BY <1>4, <1>7, <1>8

-----------------------------------------------------------------------------
(* The log only grows, and what was said of it stays true.                 *)
Grown == /\ LogOK /\ LogOK' /\ DOMAIN log \subseteq DOMAIN log'
         /\ \A i \in DOMAIN log : log'[i] = log[i]

LEMMA NextFacts ==
  ASSUME LogOK'
  PROVE  /\ Len(log)' \in Nat /\ DOMAIN log' = 1..Len(log') /\ DOMAIN log' \subseteq Nat
         /\ IsFiniteSet(DOMAIN log') /\ Cardinality(DOMAIN log') = Len(log')
         /\ \A i \in DOMAIN log' : log'[i] \in OfSessions \cup {Generated}
<1>1. Len(log)' \in Nat /\ DOMAIN log' = 1..Len(log')
  BY DEF LogOK
<1>2. \A i \in DOMAIN log' : log'[i] \in OfSessions \cup {Generated}
  BY <1>1 DEF LogOK
<1>3. IsFiniteSet(1..Len(log')) /\ Cardinality(1..Len(log')) = Len(log')
  <2>1. PICK n \in Nat : n = Len(log')
    BY <1>1
  <2>2. IsFiniteSet(1..n) /\ Cardinality(1..n) = n
    BY FS_Interval
  <2> QED BY <2>1, <2>2
<1>4. 1..Len(log') \subseteq Nat
  BY <1>1
<1> QED BY <1>1, <1>2, <1>3, <1>4

LEMMA CandidatesGrow ==
  ASSUME Grown, NEW t
  PROVE  Candidates(t, DOMAIN log) \subseteq Candidates(t, DOMAIN log)'
  BY DEF Grown, Candidates

LEMMA PatternsGrow ==
  ASSUME Grown, NEW s, NEW found, PatternsHold(s, found)
  PROVE  PatternsHold(s, found)'
<1>1. ASSUME NEW p \in found PROVE PatternOf(s, p)'
  <2>1. PatternOf(s, p)
    BY DEF PatternsHold
  <2>2. Candidates(p.type, DOMAIN log) \subseteq Candidates(p.type, DOMAIN log)'
    BY CandidatesGrow
  <2>3. \A i \in Candidates(p.type, DOMAIN log) : log'[i] = log[i]
    BY DEF Candidates, Grown
  <2> QED BY <2>1, <2>2, <2>3 DEF PatternOf
<1> QED BY <1>1 DEF PatternsHold

LEMMA ClaimsGrow ==
  ASSUME Grown, NEW p \in Patches, ClaimOfTheLog(p)
  PROVE  ClaimOfTheLog(p)'
<1> DEFINE old == Candidates(p.type, DOMAIN log)
           new == Candidates(p.type, DOMAIN log)'
           had == {log[i].session : i \in old}
           have == {log'[i].session : i \in new}
<1>1. old \subseteq new /\ \A i \in old : log'[i] = log[i]
  BY CandidatesGrow DEF Candidates, Grown
<1>2. had \subseteq have
  BY <1>1
<1>3. IsFiniteSet(new)
  <2>1. IsFiniteSet(DOMAIN log') /\ new \subseteq DOMAIN log'
    BY NextFacts DEF Grown, Candidates
  <2> QED BY <2>1, FS_Subset
<1>4. IsFiniteSet(have)
  <2> DEFINE h == [i \in new |-> log'[i].session]
  <2>1. have = {h[i] : i \in new}
    OBVIOUS
  <2> HIDE DEF h, have, new
  <2> QED BY <1>3, <2>1, ImageCount
<1> HIDE DEF old, new, had, have
<1>5. /\ Cardinality(old) \in Nat /\ Cardinality(new) \in Nat
      /\ Cardinality(old) <= Cardinality(new)
  BY <1>1, <1>3, CountSubset
<1>6. /\ Cardinality(had) \in Nat /\ Cardinality(have) \in Nat
      /\ Cardinality(had) <= Cardinality(have)
  BY <1>2, <1>4, CountSubset
<1>7. /\ p.total \in Nat /\ p.affected \in Nat
      /\ p.affected > 0 /\ p.affected <= p.total /\ p.total <= Cardinality(old)
      /\ p.affected <= Cardinality(had)
      /\ p.type = "loop_detected" => 3 * p.affected <= p.total
  BY DEF ClaimOfTheLog, Patches, old, had
<1>8. p.total <= Cardinality(new) /\ p.affected <= Cardinality(have)
  BY <1>5, <1>6, <1>7
<1> QED BY <1>7, <1>8 DEF ClaimOfTheLog, new, have

(* What a job over the whole log makes of it.                              *)
Told(s) == Detected(QueryEvents(s, SessionEvents))
Whole == [s \in DOMAIN RecentSessions |-> Told(s)]

LEMMA NewestAll ==
  ASSUME NEW S, IsFiniteSet(S), NEW n \in Nat, Cardinality(S) <= n, S \subseteq Nat
  PROVE  Newest(S, n) = S
<1> SUFFICES ASSUME NEW i \in S PROVE Cardinality({j \in S : j > i}) < n
  BY DEF Newest
<1>1. {j \in S : j > i} \subseteq S \ {i}
  OBVIOUS
<1>2. PICK later : later = {j \in S : j > i}
  OBVIOUS
<1>3. /\ Cardinality(S) \in Nat /\ Cardinality(later) \in Nat
      /\ Cardinality(later) + 1 <= Cardinality(S)
  BY <1>1, <1>2, CountShrinks
<1> QED BY <1>2, <1>3

LEMMA RecentFacts ==
  ASSUME LogOK
  PROVE  \A s \in DOMAIN RecentSessions : s \in Sessions /\ RecentSessions[s] \in DOMAIN log
<1> DEFINE recent == QueryEvents(NoSession, RecentEvents)
           seen == {log[i].session : i \in recent} \ {NoSession}
           places(s) == {i \in recent : log[i].session = s}
           last == [s \in seen |-> Max(places(s))]
           kept == {s \in seen : last[s] \in Newest(Range(last), MaxSessions)}
<1>1. RecentSessions = Restrict(last, kept)
  BY DEF RecentSessions
<1>2. recent \subseteq DOMAIN log
  BY DEF QueryEvents, Newest
<1> HIDE DEF recent
<1>3. ASSUME NEW s \in seen PROVE s \in Sessions /\ last[s] \in DOMAIN log
  <2>1. PICK i \in recent : s = log[i].session
    OBVIOUS
  <2>2. s \in Sessions
    BY <1>2, <2>1, LogFacts, EventFacts
  <2>3. places(s) # {} /\ IsFiniteSet(places(s)) /\ places(s) \subseteq Nat
    BY <1>2, <2>1, LogFacts, FS_Subset
  <2> HIDE DEF places
  <2>4. Max(places(s)) \in places(s)
    BY <2>3, MaxIsLargest
  <2> QED BY <1>2, <2>2, <2>4 DEF places
<1> HIDE DEF last, seen
<1>4. DOMAIN RecentSessions = kept /\ \A s \in kept : RecentSessions[s] = last[s]
  BY <1>1 DEF Restrict
<1> QED BY <1>3, <1>4

LEMMA DetectedSame ==
  ASSUME Grown, NEW E, E \subseteq DOMAIN log
  PROVE  Detected(E)' = Detected(E)
<1>1. ASSUME NEW t PROVE Candidates(t, E)' = Candidates(t, E)
  BY DEF Candidates, Grown
<1>2. ASSUME NEW t, NEW g, g # {}, g \subseteq E PROVE Pattern(t, g)' = Pattern(t, g)
  <2>1. IsFiniteSet(g) /\ g \subseteq Nat /\ g \subseteq DOMAIN log
    BY <1>2, LogFacts, FS_Subset DEF Grown
  <2>2. Max(g) \in g
    BY <1>2, <2>1, MaxIsLargest
  <2>3. log'[Max(g)] = log[Max(g)]
    BY <2>1, <2>2 DEF Grown
  <2> QED BY <2>3 DEF Pattern
<1>3. \A i \in E : ToolName(log'[i]) = ToolName(log[i]) /\ Failed(log'[i]) = Failed(log[i])
  BY DEF Grown
<1>4. \A t : Candidates(t, E) \subseteq E
  BY DEF Candidates
<1>5. detectToolFailures(E)' = detectToolFailures(E)
  <2>1. PICK failures : failures = {i \in Candidates("tool_failure", E) : Failed(log[i])}
    OBVIOUS
  <2>2. failures \subseteq E
    BY <1>4, <2>1
  <2>3. {i \in Candidates("tool_failure", E)' : Failed(log'[i])} = failures
    BY <1>1, <1>3, <1>4, <2>1
  <2>4. PICK key : key = [i \in failures |-> ToolName(log[i])]
    OBVIOUS
  <2>5. GroupsBy([i \in {j \in Candidates("tool_failure", E) : Failed(log[j])} |->
                     ToolName(log[i])])' = GroupsBy(key)
    <3>1. [i \in failures |-> ToolName(log'[i])] = key
      BY <1>3, <2>2, <2>4
    <3>2. [i \in {j \in Candidates("tool_failure", E)' : Failed(log'[j])} |->
            ToolName(log'[i])] = key
      BY <2>3, <3>1
    <3> QED BY <3>2 DEF GroupsBy
  <2>6. \A g \in GroupsBy(key) : g # {} /\ g \subseteq E
    BY GroupsApart, <2>2, <2>4
  <2>7. \A g \in GroupsBy(key) : Pattern("tool_failure", g)' = Pattern("tool_failure", g)
    BY <1>2, <2>6
  <2>8. detectToolFailures(E) = {Pattern("tool_failure", g) : g \in GroupsBy(key)}
    BY <2>1, <2>4 DEF detectToolFailures
  <2>9. detectToolFailures(E)' = {Pattern("tool_failure", g)' : g \in GroupsBy(key)}
    BY <2>5 DEF detectToolFailures
  <2> QED BY <2>7, <2>8, <2>9
<1>6. detectLoops(E)' = detectLoops(E)
  <2>1. PICK calls : calls = toolEvents(E)
    OBVIOUS
  <2>2. calls \subseteq E /\ toolEvents(E)' = calls
    BY <1>1, <1>4, <2>1 DEF toolEvents
  <2>3. ASSUME NEW i \in calls PROVE RunOf(i, calls)' = RunOf(i, calls)
    <3>1. \A k \in calls : ToolName(log'[k]) = ToolName(log[k])
      BY <1>3, <2>2
    <3> QED BY <3>1 DEF RunOf
  <2>4. PICK loops : loops = Loops(E)
    OBVIOUS
  <2>5. loops = {r \in {RunOf(i, calls) : i \in calls} : Cardinality(r) >= 3}
    BY <2>1, <2>4 DEF Loops
  <2>6. Loops(E)' = {r \in {RunOf(i, calls)' : i \in calls} : Cardinality(r) >= 3}
    BY <2>2 DEF Loops, RunOf
  <2>7. Loops(E)' = loops
    BY <2>3, <2>5, <2>6
  <2>8. \A g \in loops : g # {} /\ g \subseteq E
    <3>1. calls \subseteq Nat
      BY <2>2, LogFacts DEF Grown
    <3>2. \A i \in calls : i \in RunOf(i, calls) /\ RunOf(i, calls) \subseteq calls
      BY <3>1, RunsApart
    <3> QED BY <2>2, <2>5, <3>2
  <2>9. \A g \in loops : Pattern("loop_detected", g)' = Pattern("loop_detected", g)
    BY <1>2, <2>8
  <2>10. detectLoops(E) = {Pattern("loop_detected", g) : g \in loops}
    BY <2>4 DEF detectLoops
  <2>11. detectLoops(E)' = {Pattern("loop_detected", g)' : g \in loops}
    BY <2>7 DEF detectLoops
  <2> QED BY <2>9, <2>10, <2>11
<1>7. ASSUME NEW t PROVE GroupedBySession(t, E)' = GroupedBySession(t, E)
  <2>1. PICK events : events = Candidates(t, E)
    OBVIOUS
  <2>2. events \subseteq E /\ Candidates(t, E)' = events
    BY <1>1, <1>4, <2>1
  <2>3. PICK key : key = [i \in events |-> log[i].session]
    OBVIOUS
  <2>4. GroupsBy([i \in Candidates(t, E) |-> log[i].session])' = GroupsBy(key)
    <3>1. [i \in events |-> log'[i].session] = key
      BY <2>2, <2>3 DEF Grown
    <3>2. [i \in Candidates(t, E)' |-> log'[i].session] = key
      BY <2>2, <3>1
    <3> QED BY <3>2 DEF GroupsBy
  <2>5. \A g \in GroupsBy(key) : g # {} /\ g \subseteq E
    BY GroupsApart, <2>2, <2>3
  <2>6. \A g \in GroupsBy(key) : Pattern(t, g)' = Pattern(t, g)
    BY <1>2, <2>5
  <2>7. GroupedBySession(t, E) = {Pattern(t, g) : g \in GroupsBy(key)}
    BY <2>1, <2>3 DEF GroupedBySession
  <2>8. GroupedBySession(t, E)' = {Pattern(t, g)' : g \in GroupsBy(key)}
    BY <2>4 DEF GroupedBySession
  <2> QED BY <2>6, <2>7, <2>8
<1>8. /\ detectInjectionPatterns(E)' = detectInjectionPatterns(E)
      /\ detectApprovalBottlenecks(E)' = detectApprovalBottlenecks(E)
  BY <1>7 DEF detectInjectionPatterns, detectApprovalBottlenecks
<1> QED BY <1>5, <1>6, <1>8 DEF Detected

(* Patches logged add nothing to the sessions, and while all of the log is *)
(* in the adapter's window they push none of them out.                     *)
LEMMA WholeKept ==
  ASSUME Grown, \A i \in DOMAIN log' \ DOMAIN log : log'[i].session = NoSession,
         Len(log') <= RecentEvents
  PROVE  Whole' = Whole
<1> USE AnalysisAssumption
<1>0. /\ DOMAIN log \subseteq DOMAIN log' /\ \A i \in DOMAIN log : log'[i] = log[i]
      /\ IsFiniteSet(DOMAIN log) /\ IsFiniteSet(DOMAIN log')
      /\ DOMAIN log \subseteq Nat /\ DOMAIN log' \subseteq Nat
  BY LogFacts, NextFacts DEF Grown
<1>1. ASSUME NEW s, s # NoSession
      PROVE  {i \in DOMAIN log' : log'[i].session = s} = {i \in DOMAIN log : log[i].session = s}
  BY <1>0, <1>1
<1>2. ASSUME NEW s \in Sessions PROVE Told(s)' = Told(s)
  <2>1. s # NoSession
    OBVIOUS
  <2>2. PICK E : E = QueryEvents(s, SessionEvents)
    OBVIOUS
  <2>3. QueryEvents(s, SessionEvents)' = E
    BY <1>1, <2>1, <2>2 DEF QueryEvents, Newest
  <2>4. E \subseteq DOMAIN log
    BY <2>2 DEF QueryEvents, Newest
  <2>5. Detected(E)' = Detected(E)
    BY <2>4, DetectedSame
  <2>6. Told(s)' = Detected(E)'
    BY <2>3 DEF Told, Detected, detectToolFailures, detectLoops, detectInjectionPatterns,
                detectApprovalBottlenecks, GroupedBySession, toolEvents, Loops, Candidates
  <2> QED BY <2>2, <2>5, <2>6 DEF Told
<1>3. RecentSessions' = RecentSessions
  <2>1. /\ Newest(DOMAIN log, RecentEvents) = DOMAIN log
        /\ Newest(DOMAIN log', RecentEvents) = DOMAIN log'
    <3>1. /\ Len(log) \in Nat /\ Len(log') \in Nat
          /\ DOMAIN log = 1..Len(log) /\ DOMAIN log' = 1..Len(log')
          /\ Cardinality(DOMAIN log) = Len(log) /\ Cardinality(DOMAIN log') = Len(log')
      BY LogFacts, NextFacts DEF Grown
    <3>2. Len(log) <= Len(log')
      BY <1>0, <3>1
    <3> QED BY <1>0, <3>1, <3>2, NewestAll
  <2>2. /\ QueryEvents(NoSession, RecentEvents) = DOMAIN log
        /\ QueryEvents(NoSession, RecentEvents)' = DOMAIN log'
    <3>1. {i \in DOMAIN log : NoSession = NoSession \/ log[i].session = NoSession} = DOMAIN log
      OBVIOUS
    <3>2. {i \in DOMAIN log' : NoSession = NoSession \/ log'[i].session = NoSession} = DOMAIN log'
      OBVIOUS
    <3>3. QueryEvents(NoSession, RecentEvents) = DOMAIN log
      BY <2>1, <3>1 DEF QueryEvents
    <3>4. QueryEvents(NoSession, RecentEvents)' = DOMAIN log'
      BY <2>1, <3>2 DEF QueryEvents, Newest
    <3> QED BY <3>3, <3>4
  <2>3. PICK seen : seen = {log[i].session : i \in DOMAIN log} \ {NoSession}
    OBVIOUS
  <2>4. {log'[i].session : i \in DOMAIN log'} \ {NoSession} = seen
    BY <1>0, <2>3
  <2>5. PICK last : last = [s \in seen |-> Max({i \in DOMAIN log : log[i].session = s})]
    OBVIOUS
  <2>6. [s \in seen |-> Max({i \in DOMAIN log' : log'[i].session = s})] = last
    <3>1. \A s \in seen : Max({i \in DOMAIN log' : log'[i].session = s}) =
                          Max({i \in DOMAIN log : log[i].session = s})
      BY <1>1, <2>3
    <3> QED BY <2>5, <3>1
  <2>7. PICK kept : kept = {s \in seen : last[s] \in Newest(Range(last), MaxSessions)}
    OBVIOUS
  <2>8. RecentSessions = Restrict(last, kept)
    BY <2>2, <2>3, <2>5, <2>7 DEF RecentSessions
  <2>9. RecentSessions' = Restrict(last, kept)
    BY <2>2, <2>4, <2>6, <2>7 DEF RecentSessions
  <2> QED BY <2>8, <2>9
<1>4. \A s \in DOMAIN RecentSessions : s \in Sessions
  BY RecentFacts DEF Grown
<1> QED BY <1>2, <1>3, <1>4 DEF Whole

-----------------------------------------------------------------------------
(* While nothing was added to the log and no fetch failed, what is fetched *)
(* is what a job over the whole log makes of it; and once such a job is    *)
(* through, all its patches are known.                                     *)
WholeUnderWay ==
  settled # "no" /\ ~Idle =>
    /\ DOMAIN analyses \cup DOMAIN queue = DOMAIN RecentSessions
    /\ \A s \in DOMAIN analyses : analyses[s] = Told(s)

WholeKnown ==
  settled = "whole" /\ Len(log) <= RecentEvents =>
    \A whole : whole = Whole => generatePatches(whole) \subseteq known

AnalysesHold ==
  /\ IsFiniteSet(DOMAIN analyses)
  /\ \A s \in DOMAIN analyses : \A found : found = analyses[s] => PatternsHold(s, found)

AnalysisInv == /\ AnalysisTypeOK
               /\ AnalysesHold
               /\ CountsAreOfTheLog
               /\ WholeUnderWay
               /\ WholeKnown

LEMMA TypedLog == ASSUME AnalysisTypeOK PROVE LogOK /\ known \subseteq Patches
  BY DEF AnalysisTypeOK, LogOK, Patches

LEMMA AnalysisInvInit == AnalysisInit => AnalysisInv
<1> SUFFICES ASSUME AnalysisInit PROVE AnalysisInv
  OBVIOUS
<1> USE DEF AnalysisInit, NoneYet
<1>1. AnalysisTypeOK
  <2>1. <<>> \in Seq(OfSessions \cup {Generated})
    BY EmptySeq
  <2>2. jobs \in 0..MaxJobs
    BY AnalysisAssumption
  <2> QED BY <2>1, <2>2 DEF AnalysisTypeOK, Idle
<1>2. AnalysesHold
  BY FS_EmptySet DEF AnalysesHold
<1> QED BY <1>1, <1>2 DEF AnalysisInv, CountsAreOfTheLog, WholeUnderWay, WholeKnown

(* A log nobody wrote to says the same.                                    *)
LEMMA SameLog ==
  ASSUME LogOK, log' = log
  PROVE  /\ Grown /\ RecentSessions' = RecentSessions /\ Whole' = Whole
         /\ \A s : Told(s)' = Told(s)
<1>1. Grown
  BY DEF Grown, LogOK
<1>2. ASSUME NEW s PROVE Told(s)' = Told(s)
  <2>1. PICK E : E = QueryEvents(s, SessionEvents)
    OBVIOUS
  <2>2. QueryEvents(s, SessionEvents)' = E
    BY <2>1 DEF QueryEvents, Newest
  <2>3. E \subseteq DOMAIN log
    BY <2>1 DEF QueryEvents, Newest
  <2>4. Detected(E)' = Detected(E)
    BY <1>1, <2>3, DetectedSame
  <2>5. Told(s)' = Detected(E)'
    BY <2>2 DEF Told, Detected, detectToolFailures, detectLoops, detectInjectionPatterns,
                detectApprovalBottlenecks, GroupedBySession, toolEvents, Loops, Candidates
  <2> QED BY <2>1, <2>4, <2>5 DEF Told
<1>3. RecentSessions' = RecentSessions
  <2>1. PICK recent : recent = QueryEvents(NoSession, RecentEvents)
    OBVIOUS
  <2>2. QueryEvents(NoSession, RecentEvents)' = recent
    BY <2>1 DEF QueryEvents, Newest
  <2>3. PICK seen : seen = {log[i].session : i \in recent} \ {NoSession}
    OBVIOUS
  <2>4. PICK last : last = [s \in seen |-> Max({i \in recent : log[i].session = s})]
    OBVIOUS
  <2>5. PICK kept : kept = {s \in seen : last[s] \in Newest(Range(last), MaxSessions)}
    OBVIOUS
  <2>6. RecentSessions = Restrict(last, kept)
    BY <2>1, <2>3, <2>4, <2>5 DEF RecentSessions
  <2>7. RecentSessions' = Restrict(last, kept)
    BY <2>2, <2>3, <2>4, <2>5 DEF RecentSessions
  <2> QED BY <2>6, <2>7
<1> QED BY <1>1, <1>2, <1>3 DEF Whole

(* What holds of a job under way and of what is known goes on to hold.     *)
LEMMA GrownKept ==
  ASSUME AnalysisInv, Grown
  PROVE  /\ \A p \in known : ClaimOfTheLog(p)'
         /\ analyses' = analyses => AnalysesHold'
<1>1. ASSUME NEW p \in known PROVE ClaimOfTheLog(p)'
  <2>1. p \in Patches /\ ClaimOfTheLog(p)
    BY TypedLog DEF AnalysisInv, CountsAreOfTheLog
  <2> QED BY <2>1, ClaimsGrow
<1>2. ASSUME analyses' = analyses PROVE AnalysesHold'
  <2>1. ASSUME NEW s \in DOMAIN analyses, NEW found, found = analyses[s]
        PROVE  PatternsHold(s, found)'
    <3>1. PatternsHold(s, found)
      BY <2>1 DEF AnalysisInv, AnalysesHold
    <3> QED BY <3>1, PatternsGrow
  <2> QED BY <1>2, <2>1 DEF AnalysisInv, AnalysesHold
<1> QED BY <1>1, <1>2

LEMMA LogEventKept ==
  ASSUME AnalysisInv, NEW e \in OfSessions, LogEvent(e)
  PROVE  AnalysisInv'
<1> USE DEF LogEvent
<1>1. LogOK /\ log' = Append(log, e)
  BY TypedLog DEF AnalysisInv
<1>2. /\ log' \in Seq(OfSessions \cup {Generated})
      /\ Len(log') = Len(log) + 1
      /\ \A i \in 1..Len(log) : log'[i] = log[i]
  BY <1>1, AppendProperties DEF LogOK
<1>3. LogOK' /\ DOMAIN log' = 1..Len(log')
  BY <1>2 DEF LogOK
<1>4. Grown
  BY <1>1, <1>2, <1>3, LogFacts DEF Grown
<1>5. AnalysisTypeOK'
  BY <1>2, <1>4 DEF AnalysisInv, AnalysisTypeOK, Idle, Grown
<1>6. CountsAreOfTheLog'
  BY <1>4, GrownKept DEF CountsAreOfTheLog
<1>7. AnalysesHold'
  BY <1>4, GrownKept
<1> QED BY <1>5, <1>6, <1>7 DEF AnalysisInv, WholeUnderWay, WholeKnown

(* No session, no patch.                                                   *)
LEMMA NothingToTell == ASSUME NEW of, DOMAIN of = {} PROVE generatePatches(of) = {}
<1>1. \A t : {f[2].session : f \in Gathered(t, of)} = {}
  BY DEF Gathered
<1>2. \A t : Affected(t, of) = 0
  BY <1>1, FS_EmptySet DEF Affected
<1> QED BY <1>2 DEF generatePatches

LEMMA EvolveKept ==
  ASSUME AnalysisInv, EvolveBegins \/ RecentFails
  PROVE  AnalysisInv'
<1>1. /\ log' = log /\ known' = known /\ analyses' = analyses /\ DOMAIN analyses = {}
      /\ jobs \in 0..MaxJobs /\ jobs < MaxJobs /\ jobs' = jobs + 1
      /\ \/ settled' = "no" /\ queue' = queue
         \/ /\ queue' = RecentSessions
            /\ settled' = IF settled = "whole" \/ DOMAIN RecentSessions = {}
                          THEN "whole" ELSE "begun"
  BY DEF AnalysisInv, AnalysisTypeOK, EvolveBegins, RecentFails
<1>2. LogOK
  BY TypedLog DEF AnalysisInv
<1>3. Grown /\ RecentSessions' = RecentSessions /\ Whole' = Whole
  BY <1>1, <1>2, SameLog
<1>4. AnalysisTypeOK'
  <2>1. jobs' \in 0..MaxJobs
    BY <1>1, AnalysisAssumption
  <2>2. \A s \in DOMAIN queue' : s \in Sessions /\ queue'[s] \in DOMAIN log'
    <3>1. CASE queue' = queue
      BY <1>1, <3>1 DEF AnalysisInv, AnalysisTypeOK
    <3>2. CASE queue' = RecentSessions
      BY <1>1, <1>2, <3>2, RecentFacts
    <3> QED BY <1>1, <3>1, <3>2
  <2>3. settled' \in {"no", "begun", "whole"}
    BY <1>1
  <2> QED BY <1>1, <2>1, <2>2, <2>3 DEF AnalysisInv, AnalysisTypeOK
<1>5. AnalysesHold' /\ CountsAreOfTheLog'
  BY <1>1, <1>3, GrownKept DEF CountsAreOfTheLog
<1>6. WholeUnderWay'
  BY <1>1, <1>3 DEF WholeUnderWay
<1>7. WholeKnown'
  <2> SUFFICES ASSUME settled' = "whole", Len(log) <= RecentEvents, NEW whole, whole = Whole
               PROVE  generatePatches(whole) \subseteq known
    BY <1>1, <1>3 DEF WholeKnown
  <2>1. CASE settled = "whole"
    BY <2>1 DEF AnalysisInv, WholeKnown
  <2>2. CASE settled # "whole"
    <3>1. DOMAIN whole = {}
      BY <1>1, <2>2 DEF Whole
    <3> QED BY <3>1, NothingToTell
  <2> QED BY <2>1, <2>2
<1> QED BY <1>4, <1>5, <1>6, <1>7 DEF AnalysisInv

LEMMA PatchesFinite ==
  ASSUME NEW of
  PROVE  IsFiniteSet(generatePatches(of))
<1> DEFINE T == {t \in PatternTypes : Affected(t, of) > 0}
           h == [t \in T |-> Identified(t, of)]
<1>1. IsFiniteSet(PatternTypes)
  <2>1. PatternTypes = {} \cup {"tool_failure"} \cup {"loop_detected"}
                         \cup {"injection_detected"} \cup {"approval_bottleneck"}
    BY DEF PatternTypes, EventTypes
  <2> QED BY <2>1, FS_EmptySet, FS_AddElement
<1>2. IsFiniteSet(T)
  BY <1>1, FS_Subset
<1>3. generatePatches(of) = {h[t] : t \in T}
  BY DEF generatePatches
<1> HIDE DEF T, h
<1> QED BY <1>2, <1>3, ImageCount

(* The log the patches are logged to has grown, and by no session's event. *)
LEMMA LoggedGrows ==
  ASSUME LogOK, NEW n \in Nat, log' = log \o [i \in 1..n |-> Generated]
  PROVE  /\ Grown /\ \A i \in DOMAIN log' \ DOMAIN log : log'[i].session = NoSession
<1> DEFINE more == [i \in 1..n |-> Generated]
<1>1. more \in Seq(OfSessions \cup {Generated}) /\ Len(more) = n /\ \A i \in 1..n : more[i] = Generated
  BY SMT
<1> HIDE DEF more
<1>2. log' = log \o more /\ Len(log) \in Nat
  BY LogFacts DEF more
<1>3. /\ log' \in Seq(OfSessions \cup {Generated})
      /\ Len(log') = Len(log) + n
      /\ \A i \in 1..Len(log') : log'[i] = IF i <= Len(log) THEN log[i] ELSE more[i - Len(log)]
  BY <1>1, <1>2, ConcatProperties DEF LogOK
<1>4. LogOK' /\ DOMAIN log' = 1..Len(log')
  BY <1>3 DEF LogOK
<1>5. DOMAIN log = 1..Len(log)
  BY LogFacts
<1>6. Grown
  BY <1>2, <1>3, <1>4, <1>5 DEF Grown
<1>7. ASSUME NEW i \in DOMAIN log' \ DOMAIN log PROVE log'[i].session = NoSession
  <2>1. i \in 1..Len(log') /\ i > Len(log) /\ i - Len(log) \in 1..n
    BY <1>2, <1>3, <1>4, <1>5
  <2>2. log'[i] = Generated
    BY <1>1, <1>2, <1>3, <2>1
  <2> QED BY <2>2 DEF Generated, Event
<1> QED BY <1>6, <1>7

(* A session's events fetched are analysed; after the last of them the     *)
(* patches are generated and the new ones logged.                          *)
LEMMA FetchKept ==
  ASSUME AnalysisInv, NEW s \in DOMAIN queue, NEW whole \in BOOLEAN,
         NEW events \in SUBSET {i \in DOMAIN log : log[i].session = s},
         whole => events = QueryEvents(s, SessionEvents),
         Fetched(s, events, whole)
  PROVE  /\ AnalysisInv'
         /\ settled = "whole" /\ settled' = "whole" /\ Len(log) <= RecentEvents => known' = known
<1>1. PICK told : told = Analysed(s, events)
  OBVIOUS
<1>2. LogOK /\ known \subseteq Patches /\ s \in Sessions
  BY TypedLog DEF AnalysisInv, AnalysisTypeOK
<1>3. PatternsHold(s, Detected(events))
  BY <1>2, DetectedHolds
<1>4. /\ DOMAIN told = DOMAIN analyses \cup {s} /\ IsFiniteSet(DOMAIN told)
      /\ told[s] = Detected(events)
      /\ \A t \in DOMAIN analyses : t # s => told[t] = analyses[t]
  <2>1. IsFiniteSet(DOMAIN analyses \cup {s})
    BY FS_AddElement DEF AnalysisInv, AnalysesHold
  <2> QED BY <1>1, <2>1 DEF Analysed
<1>5. \A t \in DOMAIN told : PatternsHold(t, told[t])
  BY <1>3, <1>4 DEF AnalysisInv, AnalysesHold
<1>6. settled # "no" /\ whole => \A t \in DOMAIN told : told[t] = Told(t)
  BY <1>4 DEF AnalysisInv, WholeUnderWay, Idle, Told
<1>7. ASSUME DOMAIN queue # {s}
      PROVE  /\ AnalysisInv'
             /\ known' = known
  <2>1. /\ queue' = Restrict(queue, DOMAIN queue \ {s})
        /\ analyses' = told /\ settled' = IF whole THEN settled ELSE "no"
        /\ log' = log /\ known' = known /\ jobs' = jobs
    BY <1>1, <1>7 DEF Fetched
  <2>2. /\ DOMAIN queue' = DOMAIN queue \ {s} /\ DOMAIN queue' # {}
        /\ \A t \in DOMAIN queue' : queue'[t] = queue[t]
    BY <1>7, <2>1 DEF Restrict
  <2>3. /\ Grown /\ RecentSessions' = RecentSessions /\ Whole' = Whole
        /\ \A t : Told(t)' = Told(t)
    BY <1>2, <2>1, SameLog
  <2>4. AnalysisTypeOK'
    BY <1>2, <1>4, <2>1, <2>2 DEF AnalysisInv, AnalysisTypeOK, Idle
  <2>5. AnalysesHold'
    <3>1. ASSUME NEW t \in DOMAIN told, NEW found, found = told[t]
          PROVE  PatternsHold(t, found)'
      <4>1. PatternsHold(t, found)
        BY <1>5, <3>1
      <4> QED BY <2>3, <4>1, PatternsGrow
    <3> QED BY <1>4, <2>1, <3>1 DEF AnalysesHold
  <2>6. CountsAreOfTheLog'
    BY <2>1, <2>3, GrownKept DEF CountsAreOfTheLog
  <2>7. WholeUnderWay'
    <3> SUFFICES ASSUME settled' # "no"
                 PROVE  /\ DOMAIN analyses' \cup DOMAIN queue' = DOMAIN RecentSessions'
                        /\ \A t \in DOMAIN analyses' : analyses'[t] = Told(t)'
      BY DEF WholeUnderWay
    <3>1. whole /\ settled # "no" /\ ~Idle
      BY <2>1 DEF Idle
    <3>2. DOMAIN analyses \cup DOMAIN queue = DOMAIN RecentSessions
      BY <3>1 DEF AnalysisInv, WholeUnderWay
    <3> QED BY <1>4, <1>6, <2>1, <2>2, <2>3, <3>1, <3>2
  <2>8. WholeKnown'
    BY <2>1, <2>3 DEF AnalysisInv, WholeKnown
  <2> QED BY <2>1, <2>4, <2>5, <2>6, <2>7, <2>8 DEF AnalysisInv
<1>8. ASSUME DOMAIN queue = {s}
      PROVE  /\ AnalysisInv'
             /\ settled = "whole" /\ settled' = "whole" /\ Len(log) <= RecentEvents => known' = known
  <2>1. PICK new : new = generatePatches(told) \ known
    OBVIOUS
  <2>2. PICK n : n = Cardinality(new)
    OBVIOUS
  <2>3. /\ queue' = Restrict(queue, DOMAIN queue \ {s})
        /\ analyses' = NoneYet /\ jobs' = jobs
        /\ settled' = IF whole /\ settled # "no" THEN "whole" ELSE "no"
        /\ known' = known \cup new /\ log' = log \o [i \in 1..n |-> Generated]
    BY <1>1, <1>8, <2>1, <2>2 DEF Fetched, Persist
  <2>4. n \in Nat
    BY <2>1, <2>2, PatchesFinite, FS_Subset, FS_CardinalityType
  <2>5. Grown /\ \A i \in DOMAIN log' \ DOMAIN log : log'[i].session = NoSession
    BY <1>2, <2>3, <2>4, LoggedGrows
  <2>6. ASSUME NEW p \in new PROVE p \in Patches /\ ClaimOfTheLog(p)
    <3>1. PICK t \in PatternTypes : p = Identified(t, told) /\ Affected(t, told) > 0
      BY <2>1 DEF generatePatches
    <3> QED BY <1>2, <1>4, <1>5, <3>1, PatchClaims
  <2>7. DOMAIN queue' = {} /\ DOMAIN analyses' = {}
    BY <1>8, <2>3 DEF Restrict, NoneYet
  <2>8. AnalysisTypeOK'
    <3>1. log' \in Seq(OfSessions \cup {Generated})
      BY <2>5 DEF Grown, LogOK
    <3>2. known' \subseteq [type : PatternTypes, total : Nat, affected : Nat]
      BY <1>2, <2>3, <2>6 DEF Patches
    <3>3. settled' \in {"no", "begun", "whole"} /\ jobs' \in 0..MaxJobs
      BY <2>3 DEF AnalysisInv, AnalysisTypeOK
    <3> QED BY <2>7, <3>1, <3>2, <3>3 DEF AnalysisTypeOK, Idle
  <2>9. AnalysesHold'
    BY <2>7, FS_EmptySet DEF AnalysesHold
  <2>10. CountsAreOfTheLog'
    <3>1. \A p \in known : ClaimOfTheLog(p)'
      BY <2>5, GrownKept
    <3>2. \A p \in new : ClaimOfTheLog(p)'
      BY <2>5, <2>6, ClaimsGrow
    <3> QED BY <2>3, <3>1, <3>2 DEF CountsAreOfTheLog
  <2>11. WholeUnderWay'
    BY <2>7 DEF WholeUnderWay, Idle
  <2>12. whole /\ settled # "no" => told = Whole
    <3> SUFFICES ASSUME whole, settled # "no" PROVE told = Whole
      OBVIOUS
    <3>1. DOMAIN told = DOMAIN RecentSessions
      BY <1>4, <1>8 DEF AnalysisInv, WholeUnderWay, Idle
    <3>2. told = [t \in DOMAIN told |-> told[t]]
      BY <1>1 DEF Analysed
    <3> QED BY <1>6, <3>1, <3>2 DEF Whole
  <2>13. WholeKnown'
    <3> SUFFICES ASSUME settled' = "whole", Len(log') <= RecentEvents, NEW w, w = Whole'
                 PROVE  generatePatches(w) \subseteq known'
      BY DEF WholeKnown
    <3>1. told = Whole
      BY <2>3, <2>12
    <3>2. w = told
      BY <2>5, <3>1, WholeKept
    <3> QED BY <2>1, <2>3, <3>2
  <2>14. ASSUME settled = "whole", settled' = "whole", Len(log) <= RecentEvents
         PROVE  known' = known
    <3>1. told = Whole
      BY <2>3, <2>12, <2>14
    <3>2. generatePatches(told) \subseteq known
      BY <2>14, <3>1 DEF AnalysisInv, WholeKnown
    <3> QED BY <2>1, <2>3, <3>2
  <2> QED BY <2>8, <2>9, <2>10, <2>11, <2>13, <2>14 DEF AnalysisInv
<1> QED BY <1>7, <1>8

LEMMA AnalysisInvNext ==
  ASSUME AnalysisInv, [AnalysisNext]_analysisVars
  PROVE  /\ AnalysisInv'
         /\ settled = "whole" /\ settled' = "whole" /\ Len(log) <= RecentEvents => known' = known
<1>0. LogOK
  BY TypedLog DEF AnalysisInv
<1>1. CASE \E e \in OfSessions : LogEvent(e)
  BY <1>1, LogEventKept DEF LogEvent
<1>2. CASE EvolveBegins \/ RecentFails
  BY <1>2, EvolveKept DEF EvolveBegins, RecentFails
<1>3. CASE FetchAnswered
  <2>1. PICK s \in DOMAIN queue : Fetched(s, QueryEvents(s, SessionEvents), TRUE)
    BY <1>3 DEF FetchAnswered
  <2>2. PICK events : events = QueryEvents(s, SessionEvents)
    OBVIOUS
  <2>3. s \in Sessions /\ s # NoSession
    BY AnalysisAssumption DEF AnalysisInv, AnalysisTypeOK
  <2>4. events \in SUBSET {i \in DOMAIN log : log[i].session = s}
    BY <2>2, <2>3 DEF QueryEvents, Newest
  <2>5. Fetched(s, events, TRUE)
    BY <2>1, <2>2
  <2> QED BY <2>2, <2>4, <2>5, FetchKept
<1>4. CASE FetchFails
  <2>1. PICK s \in DOMAIN queue : Fetched(s, {}, FALSE)
    BY <1>4 DEF FetchFails
  <2>2. {} \in SUBSET {i \in DOMAIN log : log[i].session = s}
    OBVIOUS
  <2> QED BY <2>1, <2>2, FetchKept
<1>5. CASE UNCHANGED analysisVars
  <2>1. /\ log' = log /\ queue' = queue /\ analyses' = analyses /\ known' = known
        /\ jobs' = jobs /\ settled' = settled
    BY <1>5 DEF analysisVars
  <2>2. /\ Grown /\ RecentSessions' = RecentSessions /\ Whole' = Whole
        /\ \A t : Told(t)' = Told(t)
    BY <1>0, <2>1, SameLog
  <2>3. AnalysisTypeOK'
    BY <2>1 DEF AnalysisInv, AnalysisTypeOK, Idle
  <2>4. AnalysesHold' /\ CountsAreOfTheLog'
    BY <2>1, <2>2, GrownKept DEF CountsAreOfTheLog
  <2>5. WholeUnderWay' /\ WholeKnown'
    BY <2>1, <2>2 DEF AnalysisInv, WholeUnderWay, WholeKnown, Idle
  <2> QED BY <2>1, <2>3, <2>4, <2>5 DEF AnalysisInv
<1> QED BY <1>1, <1>2, <1>3, <1>4, <1>5 DEF AnalysisNext

(* The analyser's invariant: what evolve() gathered is of the log, apart   *)
(* from each other and, while nobody wrote, all a whole job would gather.  *)
THEOREM AnalysisInvariant == AnalysisSpec => []AnalysisInv
<1>1. AnalysisInv /\ [AnalysisNext]_analysisVars => AnalysisInv'
  BY AnalysisInvNext
<1> QED BY AnalysisInvInit, <1>1, PTL DEF AnalysisSpec

(* However many jobs interleave with however many runs, every loop of a    *)
(* session's events is found, and no patch claims more than the log holds. *)
THEOREM FindingsAlwaysMatch == AnalysisSpec => []FindingsMatchLog
<1>1. AnalysisInv => FindingsMatchLog
  BY TypedLog, LoopsFound DEF AnalysisInv, FindingsMatchLog
<1> QED BY AnalysisInvariant, <1>1, PTL

(* A job that sees the log the one before it saw, and all of it, adds no   *)
(* patch: "re-running it over the same sessions is idempotent".            *)
THEOREM RerunAddsNothing == AnalysisSpec => Idempotent
<1>1. AnalysisInv /\ [AnalysisNext]_analysisVars =>
        [settled = "whole" /\ settled' = "whole" /\ Len(log) <= RecentEvents
           => known' = known]_analysisVars
  BY AnalysisInvNext
<1> QED BY AnalysisInvariant, <1>1, PTL DEF AnalysisSpec, Idempotent
=============================================================================
