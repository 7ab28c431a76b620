----------------------- MODULE SettlementMoneyProofs ------------------------
(***************************************************************************)
(* The sums of the ledger, for every set of charges and vehicles, every    *)
(* price, rate, calendar and bound: what a receipt gives, what an invoice  *)
(* reads as paid, what the paid flags mean, what is charged for a day of   *)
(* rent, and when a vehicle may rest in the archive.                       *)
(*                                                                         *)
(* Sums are folds of the library. They are characterised by the function   *)
(* that gives the sum of every part of a set (IsSum); what holds of sums   *)
(* is proved by taking a smallest part for which it fails (SmallestSet).   *)
(*                                                                         *)
(* The ledger (LedgerInv) needs the flags (FlagInv): that a receipt of a   *)
(* slider is spent on what it was booked for is what keeps the Guthaben    *)
(* from drawing on it, and what lets its Storno clear the flags it raised. *)
(* The walk of the Guthaben over invoices is a matter of two running       *)
(* totals: what one step of the first overlaps with a step of the second   *)
(* adds up to no more than the second (Overlap).                           *)
(***************************************************************************)
EXTENDS SettlementProofs, FiniteSetTheorems, WellFoundedInduction

USE DEF chargeVars, vehicleVars, payVars, invVars, clockVars, followVars

\* The sum of a function over a finite set of its domain, as the library folds it.
Pick(s) == CHOOSE x \in s : TRUE
IsSum(g, F, S) == g = [s \in SUBSET S |-> IF s = {} THEN 0 ELSE F[Pick(s)] + g[s \ {Pick(s)}]]
SumOf(F, S) == (CHOOSE g : IsSum(g, F, S))[S]

\* What CHOOSE picks from a set that is not empty is a member.
LEMMA Picked == \A s : s # {} => Pick(s) \in s
BY DEF Pick

\* A collection of subsets of a finite set has a member without a smaller one.
LEMMA SmallestSet ==
  ASSUME NEW S, IsFiniteSet(S), NEW B \in SUBSET (SUBSET S), B # {}
  PROVE  \E T \in B : \A U \in B : ~(U \subseteq T /\ U # T)
<1>1. \A T \in SUBSET S : IsFiniteSet(T)
  BY FS_Subset
<1>2. B \subseteq FiniteSubsetsOf(S)
  BY <1>1 DEF FiniteSubsetsOf
<1>3. PICK T \in B : \A U \in B : ~(<<U, T>> \in StrictSubsetOrdering(S))
  BY <1>2, FS_StrictSubsetOrderingWellFounded, WFMin
<1>4. ASSUME NEW U \in B, U \subseteq T, U # T PROVE FALSE
  <2>1. <<U, T>> \in StrictSubsetOrdering(S)
    BY <1>4 DEF StrictSubsetOrdering
  <2>. QED BY <2>1, <1>3
<1>. QED BY <1>4

\* What sums of F over S says of a subset.
LEMMA SumEquation ==
  ASSUME NEW S, NEW F, NEW g, IsSum(g, F, S), NEW s \in SUBSET S
  PROVE  g[s] = IF s = {} THEN 0 ELSE F[Pick(s)] + g[s \ {Pick(s)}]
BY DEF IsSum

\* Two functions that sum F over the parts of S and of T agree where both are defined.
LEMMA SumsAgree ==
  ASSUME NEW S, IsFiniteSet(S), NEW T, NEW F, NEW g, NEW h, IsSum(g, F, S), IsSum(h, F, T), NEW s \in SUBSET S, s \subseteq T
  PROVE  g[s] = h[s]
<1>. SUFFICES ASSUME g[s] # h[s] PROVE FALSE
  OBVIOUS
<1>. DEFINE B == { u \in SUBSET S : u \subseteq T /\ g[u] # h[u] }
<1>1. PICK u \in B : \A w \in B : ~(w \subseteq u /\ w # u)
  <2>1. s \in B
    OBVIOUS
  <2>2. B \in SUBSET (SUBSET S) /\ B # {}
    BY <2>1
  <2>. HIDE DEF B
  <2>. QED BY <2>2, SmallestSet
<1>2. u \in SUBSET S /\ u \in SUBSET T /\ g[u] # h[u]
  BY <1>1
<1>3. /\ g[u] = IF u = {} THEN 0 ELSE F[Pick(u)] + g[u \ {Pick(u)}]
      /\ h[u] = IF u = {} THEN 0 ELSE F[Pick(u)] + h[u \ {Pick(u)}]
  BY <1>2, SumEquation
<1>4. u # {}
  BY <1>2, <1>3
<1>5. PICK w : w = u \ {Pick(u)}
  OBVIOUS
<1>6. w \subseteq u /\ w # u
  BY <1>4, <1>5, Picked
<1>7. g[w] = h[w]
  BY <1>1, <1>2, <1>6
<1>. QED BY <1>2, <1>3, <1>4, <1>5, <1>7

\* There is such a function for every finite set.
LEMMA SumExists ==
  ASSUME NEW S, IsFiniteSet(S), NEW F
  PROVE  \E g : IsSum(g, F, S)
<1>. SUFFICES ASSUME ~\E g : IsSum(g, F, S) PROVE FALSE
  OBVIOUS
<1>. DEFINE B == { T \in SUBSET S : ~\E g : IsSum(g, F, T) }
<1>1. PICK T \in B : \A U \in B : ~(U \subseteq T /\ U # T)
  <2>1. S \in B
    OBVIOUS
  <2>2. B \in SUBSET (SUBSET S) /\ B # {}
    BY <2>1
  <2>. HIDE DEF B
  <2>. QED BY <2>2, SmallestSet
<1>2. T \in SUBSET S /\ ~\E g : IsSum(g, F, T) /\ IsFiniteSet(T)
  BY <1>1, FS_Subset
<1>. DEFINE H(U) == CHOOSE h : IsSum(h, F, U)
           g == [s \in SUBSET T |-> IF s = {} THEN 0 ELSE F[Pick(s)] + H(s \ {Pick(s)})[s \ {Pick(s)}]]
<1>3. ASSUME NEW U \in SUBSET T, U # T PROVE IsSum(H(U), F, U)
  <2>1. \E h : IsSum(h, F, U)
    BY <1>1, <1>2, <1>3
  <2>. QED BY <2>1
<1>. HIDE DEF H
<1>4. ASSUME NEW s \in SUBSET T, s # {} PROVE g[s \ {Pick(s)}] = H(s \ {Pick(s)})[s \ {Pick(s)}]
  <2>1. PICK u : u = s \ {Pick(s)}
    OBVIOUS
  <2>2. u \in SUBSET T /\ u # T /\ IsFiniteSet(u)
    BY <1>2, <1>4, <2>1, Picked, FS_Subset
  <2>3. H(u)[u] = IF u = {} THEN 0 ELSE F[Pick(u)] + H(u)[u \ {Pick(u)}]
    BY <2>2, <1>3, SumEquation
  <2>4. g[u] = IF u = {} THEN 0 ELSE F[Pick(u)] + H(u \ {Pick(u)})[u \ {Pick(u)}]
    BY <2>2
  <2>5. ASSUME u # {} PROVE H(u)[u \ {Pick(u)}] = H(u \ {Pick(u)})[u \ {Pick(u)}]
    <3>1. PICK w : w = u \ {Pick(u)}
      OBVIOUS
    <3>2. w \in SUBSET T /\ w # T /\ w \in SUBSET u
      BY <2>2, <2>5, <3>1, Picked
    <3>3. IsSum(H(u), F, u) /\ IsSum(H(w), F, w)
      BY <2>2, <3>2, <1>3
    <3>4. H(u)[w] = H(w)[w]
      BY <2>2, <3>2, <3>3, SumsAgree
    <3>. QED BY <3>1, <3>4
  <2>. QED BY <2>1, <2>3, <2>4, <2>5
<1>5. IsSum(g, F, T)
  <2>1. g = [s \in SUBSET T |-> IF s = {} THEN 0 ELSE F[Pick(s)] + g[s \ {Pick(s)}]]
    <3>. DEFINE k == [s \in SUBSET T |-> IF s = {} THEN 0 ELSE F[Pick(s)] + g[s \ {Pick(s)}]]
    <3>1. ASSUME NEW s \in SUBSET T PROVE g[s] = k[s]
      <4>1. CASE s = {}
        BY <4>1
      <4>2. CASE s # {}
        <5>1. g[s] = F[Pick(s)] + H(s \ {Pick(s)})[s \ {Pick(s)}]
          BY <4>2
        <5>2. k[s] = F[Pick(s)] + g[s \ {Pick(s)}]
          BY <4>2
        <5>. HIDE DEF g, k
        <5>. QED BY <5>1, <5>2, <4>2, <1>4
      <4>. QED BY <4>1, <4>2
    <3>2. DOMAIN g = SUBSET T /\ DOMAIN k = SUBSET T /\ g = [s \in DOMAIN g |-> g[s]] /\ k = [s \in DOMAIN k |-> k[s]]
      OBVIOUS
    <3>. HIDE DEF g, k
    <3>3. g = k
      BY <3>1, <3>2
    <3>. QED BY <3>3 DEF k
  <2>. HIDE DEF g
  <2>. QED BY <2>1 DEF IsSum
<1>. QED BY <1>2, <1>5

\* Any function that satisfies the equation tells the sum.
LEMMA SumIs ==
  ASSUME NEW S, IsFiniteSet(S), NEW F, NEW g, IsSum(g, F, S), NEW s \in SUBSET S
  PROVE  g[s] = SumOf(F, s)
<1>1. IsFiniteSet(s)
  BY FS_Subset
<1>2. IsSum(CHOOSE h : IsSum(h, F, s), F, s)
  BY <1>1, SumExists
<1>. QED BY <1>2, SumsAgree DEF SumOf

\* The equation of the fold.
LEMMA SumPick ==
  ASSUME NEW S, IsFiniteSet(S), NEW F
  PROVE  SumOf(F, S) = IF S = {} THEN 0 ELSE F[Pick(S)] + SumOf(F, S \ {Pick(S)})
<1>1. PICK g : IsSum(g, F, S)
  BY SumExists
<1>2. g[S] = IF S = {} THEN 0 ELSE F[Pick(S)] + g[S \ {Pick(S)}]
  BY <1>1, SumEquation
<1>3. g[S] = SumOf(F, S) /\ g[S \ {Pick(S)}] = SumOf(F, S \ {Pick(S)})
  BY <1>1, SumIs
<1>. QED BY <1>2, <1>3

\* The empty sum.
LEMMA SumEmpty == ASSUME NEW F PROVE SumOf(F, {}) = 0
BY SumPick, FS_EmptySet

\* A sum of naturals is natural, a sum of integers an integer.
LEMMA SumType ==
  ASSUME NEW S, IsFiniteSet(S), NEW F, NEW T \in {Nat, Int}, \A x \in S : F[x] \in T
  PROVE  SumOf(F, S) \in T
<1>. SUFFICES ASSUME SumOf(F, S) \notin T PROVE FALSE
  OBVIOUS
<1>. DEFINE B == { U \in SUBSET S : SumOf(F, U) \notin T }
<1>1. PICK U \in B : \A W \in B : ~(W \subseteq U /\ W # U)
  <2>1. B \in SUBSET (SUBSET S) /\ B # {}
    OBVIOUS
  <2>. HIDE DEF B
  <2>. QED BY <2>1, SmallestSet
<1>2. U \in SUBSET S /\ SumOf(F, U) \notin T /\ IsFiniteSet(U)
  BY <1>1, FS_Subset
<1>3. SumOf(F, U) = IF U = {} THEN 0 ELSE F[Pick(U)] + SumOf(F, U \ {Pick(U)})
  BY <1>2, SumPick
<1>4. 0 \in T /\ \A a, b \in T : a + b \in T
  OBVIOUS
<1>5. U # {}
  BY <1>2, <1>3, <1>4
<1>6. PICK W : W = U \ {Pick(U)}
  OBVIOUS
<1>7. W \subseteq U /\ W # U /\ Pick(U) \in S
  BY <1>2, <1>5, <1>6, Picked
<1>8. SumOf(F, W) \in T
  BY <1>1, <1>2, <1>7
<1>9. F[Pick(U)] + SumOf(F, W) \in T
  BY <1>4, <1>7, <1>8
<1>. QED BY <1>2, <1>3, <1>5, <1>6, <1>9

\* Any element may be added last.
LEMMA SumStep ==
  ASSUME NEW S, IsFiniteSet(S), NEW F, \A x \in S : F[x] \in Int, NEW x \in S
  PROVE  SumOf(F, S) = F[x] + SumOf(F, S \ {x})
<1>. SUFFICES ASSUME SumOf(F, S) # F[x] + SumOf(F, S \ {x}) PROVE FALSE
  OBVIOUS
<1>. DEFINE B == { U \in SUBSET S : \E y \in U : SumOf(F, U) # F[y] + SumOf(F, U \ {y}) }
<1>1. PICK U \in B : \A W \in B : ~(W \subseteq U /\ W # U)
  <2>1. B \in SUBSET (SUBSET S) /\ B # {}
    OBVIOUS
  <2>. HIDE DEF B
  <2>. QED BY <2>1, SmallestSet
<1>2. U \in SUBSET S /\ IsFiniteSet(U)
  BY <1>1, FS_Subset
<1>3. PICK y \in U : SumOf(F, U) # F[y] + SumOf(F, U \ {y})
  BY <1>1
<1>4. PICK p : p = Pick(U) /\ p \in U
  BY <1>3, Picked
<1>5. SumOf(F, U) = F[p] + SumOf(F, U \ {p})
  BY <1>2, <1>3, <1>4, SumPick
<1>6. y # p
  BY <1>3, <1>5
<1>7. PICK V : V = U \ {p}
  OBVIOUS
<1>8. PICK W : W = U \ {y}
  OBVIOUS
<1>9. /\ V \subseteq U /\ V # U /\ V \in SUBSET S /\ y \in V
      /\ W \subseteq U /\ W # U /\ W \in SUBSET S /\ p \in W
  BY <1>2, <1>3, <1>4, <1>6, <1>7, <1>8
<1>10. SumOf(F, V) = F[y] + SumOf(F, V \ {y}) /\ SumOf(F, W) = F[p] + SumOf(F, W \ {p})
  BY <1>1, <1>9
<1>11. PICK Z : Z = V \ {y} /\ Z = W \ {p}
  BY <1>7, <1>8
<1>12. SumOf(F, Z) \in Int /\ F[y] \in Int /\ F[p] \in Int
  <2>1. Z \in SUBSET S
    BY <1>9, <1>11
  <2>2. IsFiniteSet(Z) /\ \A z \in Z : F[z] \in Int
    BY <2>1, FS_Subset
  <2>. QED BY <2>2, <1>2, <1>3, <1>4, SumType
<1>13. SumOf(F, U) = F[p] + (F[y] + SumOf(F, Z)) /\ SumOf(F, U \ {y}) = F[p] + SumOf(F, Z)
  BY <1>5, <1>7, <1>8, <1>10, <1>11
<1>14. \A a, b, c \in Int : a + (b + c) = b + (a + c)
  OBVIOUS
<1>. QED BY <1>3, <1>12, <1>13, <1>14

\* Sums of functions that agree.
LEMMA SumSame ==
  ASSUME NEW S, IsFiniteSet(S), NEW F, NEW G, \A x \in S : F[x] = G[x]
  PROVE  SumOf(F, S) = SumOf(G, S)
<1>1. PICK g : IsSum(g, F, S)
  BY SumExists
<1>2. \A s \in SUBSET S : s # {} => F[Pick(s)] = G[Pick(s)]
  BY Picked
<1>3. IsSum(g, G, S)
  BY <1>1, <1>2 DEF IsSum
<1>4. S \in SUBSET S
  OBVIOUS
<1>. QED BY <1>1, <1>3, <1>4, SumIs

\* The smallest part of S for which a relation between two sums fails.
LEMMA SumAdds ==
  ASSUME NEW S, IsFiniteSet(S), NEW F, NEW G, NEW H,
         \A x \in S : F[x] \in Int /\ G[x] \in Int /\ H[x] = F[x] + G[x]
  PROVE  SumOf(H, S) = SumOf(F, S) + SumOf(G, S)
<1>. SUFFICES ASSUME SumOf(H, S) # SumOf(F, S) + SumOf(G, S) PROVE FALSE
  OBVIOUS
<1>. DEFINE B == { U \in SUBSET S : SumOf(H, U) # SumOf(F, U) + SumOf(G, U) }
<1>1. PICK U \in B : \A W \in B : ~(W \subseteq U /\ W # U)
  <2>1. B \in SUBSET (SUBSET S) /\ B # {}
    OBVIOUS
  <2>. HIDE DEF B
  <2>. QED BY <2>1, SmallestSet
<1>2. U \in SUBSET S /\ SumOf(H, U) # SumOf(F, U) + SumOf(G, U) /\ IsFiniteSet(U)
  BY <1>1, FS_Subset
<1>3. U # {}
  <2>1. SumOf(H, {}) = 0 /\ SumOf(F, {}) = 0 /\ SumOf(G, {}) = 0
    BY SumEmpty
  <2>2. SumOf(H, {}) = SumOf(F, {}) + SumOf(G, {})
    BY <2>1
  <2>. HIDE DEF B
  <2>. QED BY <1>2, <2>2
<1>4. PICK x \in U : TRUE
  BY <1>3
<1>5. PICK W : W = U \ {x}
  OBVIOUS
<1>6. W \subseteq U /\ W # U /\ W \in SUBSET S /\ IsFiniteSet(W)
  BY <1>2, <1>4, <1>5, FS_Subset
<1>7. \A y \in U : F[y] \in Int /\ G[y] \in Int /\ H[y] = F[y] + G[y] /\ H[y] \in Int
  BY <1>2
<1>8. SumOf(H, W) = SumOf(F, W) + SumOf(G, W)
  BY <1>1, <1>6
<1>9. SumOf(F, U) = F[x] + SumOf(F, W)
  BY <1>2, <1>5, <1>7, SumStep
<1>10. SumOf(G, U) = G[x] + SumOf(G, W)
  BY <1>2, <1>5, <1>7, SumStep
<1>11. SumOf(H, U) = H[x] + SumOf(H, W)
  BY <1>2, <1>5, <1>7, SumStep
<1>12. SumOf(F, W) \in Int
  BY <1>6, <1>7, SumType
<1>13. SumOf(G, W) \in Int
  BY <1>6, <1>7, SumType
<1>. QED BY <1>2, <1>7, <1>8, <1>9, <1>10, <1>11, <1>12, <1>13

\* Sums are monotone.
LEMMA SumLess ==
  ASSUME NEW S, IsFiniteSet(S), NEW F, NEW G,
         \A x \in S : F[x] \in Int /\ G[x] \in Int /\ F[x] <= G[x]
  PROVE  SumOf(F, S) <= SumOf(G, S)
<1>. DEFINE H == [x \in S |-> G[x] - F[x]]
<1>1. \A x \in S : F[x] \in Int /\ H[x] \in Int /\ G[x] = F[x] + H[x]
  OBVIOUS
<1>2. \A x \in S : H[x] \in Nat
  OBVIOUS
<1>. HIDE DEF H
<1>3. SumOf(G, S) = SumOf(F, S) + SumOf(H, S)
  BY <1>1, SumAdds
<1>4. SumOf(H, S) \in Nat
  BY <1>2, SumType
<1>5. SumOf(F, S) \in Int
  BY SumType
<1>. QED BY <1>3, <1>4, <1>5

\* A sum over a part: the rest counts as nothing.
LEMMA SumPart ==
  ASSUME NEW S, IsFiniteSet(S), NEW T \in SUBSET S, NEW F, \A x \in S : F[x] \in Int
  PROVE  SumOf(F, T) = SumOf([x \in S |-> IF x \in T THEN F[x] ELSE 0], S)
<1>. DEFINE G == [x \in S |-> IF x \in T THEN F[x] ELSE 0]
<1>. SUFFICES ASSUME SumOf(F, T) # SumOf(G, S) PROVE FALSE
  OBVIOUS
<1>0. \A x \in S : G[x] \in Int
  OBVIOUS
<1>. DEFINE B == { U \in SUBSET S : T \subseteq U /\ SumOf(F, T) # SumOf(G, U) }
<1>1. PICK U \in B : \A W \in B : ~(W \subseteq U /\ W # U)
  <2>1. B \in SUBSET (SUBSET S) /\ B # {}
    OBVIOUS
  <2>. HIDE DEF B
  <2>. QED BY <2>1, SmallestSet
<1>2. U \in SUBSET S /\ T \subseteq U /\ SumOf(F, T) # SumOf(G, U) /\ IsFiniteSet(U)
  BY <1>1, FS_Subset
<1>3. U # T
  <2>1. IsFiniteSet(T)
    BY FS_Subset
  <2>2. \A x \in T : F[x] = G[x]
    OBVIOUS
  <2>. HIDE DEF G
  <2>3. SumOf(F, T) = SumOf(G, T)
    BY <2>1, <2>2, SumSame
  <2>. QED BY <2>3, <1>2
<1>4. PICK x \in U : x \notin T
  BY <1>2, <1>3
<1>5. PICK W : W = U \ {x}
  OBVIOUS
<1>6. W \subseteq U /\ W # U /\ W \in SUBSET S /\ T \subseteq W /\ IsFiniteSet(W)
  BY <1>2, <1>4, <1>5, FS_Subset
<1>7. SumOf(F, T) = SumOf(G, W)
  BY <1>1, <1>6
<1>8. G[x] = 0
  BY <1>2, <1>4
<1>. HIDE DEF G
<1>9. \A y \in U : G[y] \in Int
  BY <1>0, <1>2
<1>10. SumOf(G, U) = G[x] + SumOf(G, W)
  BY <1>2, <1>5, <1>9, SumStep
<1>11. SumOf(G, W) \in Int
  BY <1>6, <1>9, SumType
<1>. QED BY <1>2, <1>7, <1>8, <1>10, <1>11

\* Two parts without a common element.
LEMMA SumSplit ==
  ASSUME NEW S, IsFiniteSet(S), NEW T \in SUBSET S, NEW F, \A x \in S : F[x] \in Int
  PROVE  SumOf(F, S) = SumOf(F, T) + SumOf(F, S \ T)
<1>. DEFINE A == [x \in S |-> IF x \in T THEN F[x] ELSE 0]
            R == S \ T
            C == [x \in S |-> IF x \in R THEN F[x] ELSE 0]
<1>1. \A x \in S : A[x] \in Int /\ C[x] \in Int /\ F[x] = A[x] + C[x]
  OBVIOUS
<1>2. SumOf(F, T) = SumOf(A, S)
  BY SumPart
<1>3. R \in SUBSET S
  OBVIOUS
<1>4. SumOf(F, R) = SumOf(C, S)
  <2>. HIDE DEF R
  <2>. QED BY <1>3, SumPart
<1>5. SumOf(F, S) = SumOf(A, S) + SumOf(C, S)
  <2>. HIDE DEF A, C
  <2>. QED BY <1>1, SumAdds
<1>. QED BY <1>2, <1>4, <1>5

-----------------------------------------------------------------------------
\* The fold SumFunction of the library is this sum.
LEMMA SumFunctionIs ==
  ASSUME NEW F, IsFiniteSet(DOMAIN F)
  PROVE  SumFunction(F) = SumOf(F, DOMAIN F)
<1>. DEFINE S == DOMAIN F
<1>1. ASSUME NEW g PROVE IsSum(g, F, S) <=> g = [s \in SUBSET S |-> IF s = {} THEN 0 ELSE F[CHOOSE x \in s : TRUE] + g[s \ {CHOOSE x \in s : TRUE}]]
  BY DEF IsSum, Pick
<1>2. PICK g : IsSum(g, F, S)
  BY SumExists
<1>3. SumOf(F, S) = g[S]
  BY <1>2, SumIs
<1>4. \A h : IsSum(h, F, S) => h[S] = g[S]
  BY <1>2, SumsAgree
<1>. HIDE DEF S
<1>5. SumFunction(F) = SumFunctionOnSet(F, S)
  BY DEF SumFunction, S
<1>6. SumFunctionOnSet(F, S) = g[S]
  BY <1>1, <1>2, <1>4 DEF SumFunctionOnSet, FoldFunctionOnSet, MapThenFoldSet
<1>. QED BY <1>3, <1>5, <1>6 DEF S

\* So is the total of positions.
LEMMA TotalIs ==
  ASSUME NEW S, IsFiniteSet(S), NEW F, \A x \in S : F[x] = OwedAmount(x)
  PROVE  Total(S) = SumOf(F, S)
<1>1. \A s \in SUBSET S : s # {} => Pick(s) \in S
  BY DEF Pick
<1>2. ASSUME NEW g PROVE IsSum(g, F, S) <=> g = [s \in SUBSET S |-> IF s = {} THEN 0 ELSE OwedAmount(CHOOSE x \in s : TRUE) + g[s \ {CHOOSE x \in s : TRUE}]]
  <2>1. \A s \in SUBSET S : s # {} => F[Pick(s)] = OwedAmount(Pick(s))
    BY <1>1
  <2>. QED BY <2>1 DEF IsSum, Pick
<1>3. PICK g : IsSum(g, F, S)
  BY SumExists
<1>4. SumOf(F, S) = g[S]
  BY <1>3, SumIs
<1>5. \A h : IsSum(h, F, S) => h[S] = g[S]
  BY <1>3, SumsAgree
<1>. QED BY <1>2, <1>3, <1>4, <1>5 DEF Total, MapThenSumSet, MapThenFoldSet

\* So is what a receipt gave to invoices.
LEMMA AppliedIs ==
  ASSUME NEW p
  PROVE  AppliedTo(p) = SumOf([i \in InvIds |-> invPay[i][p]], InvIds)
<1>. DEFINE F == [i \in InvIds |-> invPay[i][p]]
<1>0. IsFiniteSet(InvIds)
  BY SettlementAssumption, FS_Interval DEF SettlementAssumption, InvIds
<1>1. \A s \in SUBSET InvIds : s # {} => Pick(s) \in InvIds
  BY DEF Pick
<1>2. ASSUME NEW g PROVE IsSum(g, F, InvIds) <=> g = [s \in SUBSET InvIds |-> IF s = {} THEN 0 ELSE invPay[CHOOSE x \in s : TRUE][p] + g[s \ {CHOOSE x \in s : TRUE}]]
  <2>1. \A s \in SUBSET InvIds : s # {} => F[Pick(s)] = invPay[Pick(s)][p]
    BY <1>1
  <2>. HIDE DEF F
  <2>. QED BY <2>1 DEF IsSum, Pick
<1>. HIDE DEF F
<1>3. PICK g : IsSum(g, F, InvIds)
  BY <1>0, SumExists
<1>4. SumOf(F, InvIds) = g[InvIds]
  BY <1>0, <1>3, SumIs
<1>5. \A h : IsSum(h, F, InvIds) => h[InvIds] = g[InvIds]
  BY <1>0, <1>3, SumsAgree
<1>6. AppliedTo(p) = g[InvIds]
  BY <1>2, <1>3, <1>5 DEF AppliedTo, MapThenSumSet, MapThenFoldSet
<1>. QED BY <1>4, <1>6 DEF F

-----------------------------------------------------------------------------
\* A line of an invoice names one that was issued.
LinesIssued == \A v \in Vehicles, k \in Periods : rentBilled[v][k].inv <= nInv
ArchiveInv == LinesIssued /\ ArchivedIsClosed

\* What had closed a vehicle holds on while its own columns stay and its invoices lose no money.
LEMMA ClosedKept ==
  ASSUME TypeOK, TypeOK', NEW v \in Vehicles, ArchivePredicate(v),
         today <= today', status'[v] = status[v], endDay'[v] = endDay[v],
         vehPaid'[v] = vehPaid[v], paidThrough'[v] = paidThrough[v],
         \A k \in Periods : rentBilled'[v][k] = rentBilled[v][k],
         \A k \in Periods, i \in InvIds : rentBilled[v][k].inv = i =>
            invoice'[i].total = invoice[i].total /\ invoice[i].paid <= invoice'[i].paid
  PROVE  ArchivePredicate(v)'
<1>1. /\ endDay[v] \in Int /\ today \in Int /\ today' \in Int
      /\ \A k \in Periods : rentBilled[v][k].inv \in InvIds \cup {0}
      /\ \A i \in InvIds : invoice[i].total \in Int /\ invoice[i].paid \in Int /\ invoice'[i].paid \in Int
  BY DEF TypeOK, Days, Money
<1>2. ASSUME NEW k \in Periods, rentBilled[v][k].inv # 0 /\ ~Unpaid(rentBilled[v][k].inv)
      PROVE  ~(invoice'[rentBilled[v][k].inv].total > invoice'[rentBilled[v][k].inv].paid)
  BY <1>1, <1>2 DEF Unpaid
<1>3. endDay[v] < today => endDay[v] < today'
  BY <1>1
<1>4. VehicleInvoiced(v)' <=> VehicleInvoiced(v)
  BY DEF VehicleInvoiced
<1>5. CASE status[v] = "cancelled" \/ (status[v] = "collected" /\ vehPaid[v] /\ paidThrough[v] >= endDay[v])
  BY <1>5 DEF ArchivePredicate
<1>6. CASE /\ status[v] = "collected" /\ endDay[v] < today /\ VehicleInvoiced(v)
           /\ \A k \in Periods : rentBilled[v][k].inv # 0 => ~Unpaid(rentBilled[v][k].inv)
           /\ \A k \in Periods : k <= PeriodOf(endDay[v]) =>
                (vehPaid[v] /\ paidThrough[v] >= Smaller(endDay[v], LastDay(k))) \/ rentBilled[v][k].inv # 0
  <2>1. \A k \in Periods : rentBilled'[v][k].inv # 0 => ~(invoice'[rentBilled'[v][k].inv].total > invoice'[rentBilled'[v][k].inv].paid)
    BY <1>2, <1>6
  <2>2. \A k \in Periods : k <= PeriodOf(endDay'[v]) =>
           (vehPaid'[v] /\ paidThrough'[v] >= Smaller(endDay'[v], LastDay(k))) \/ rentBilled'[v][k].inv # 0
    BY <1>6
  <2>. QED BY <1>3, <1>4, <1>6, <2>1, <2>2 DEF ArchivePredicate, Unpaid, PeriodOf, Smaller, LastDay
<1>. QED BY <1>5, <1>6 DEF ArchivePredicate

\* The invoices of a vehicle lose no money when payments are added to invoices.
LEMMA FundsAdd ==
  ASSUME TypeOK, NEW share, FundInvoices(share), \A i \in InvIds : DOMAIN share[i] = PayIds, NEW i \in InvIds
  PROVE  /\ SumFunction(share[i]) \in Nat
         /\ invoice'[i].total = invoice[i].total /\ invoice'[i].canceled = invoice[i].canceled
         /\ invoice'[i].cancels = invoice[i].cancels
         /\ invoice'[i].paid = invoice[i].paid + SumFunction(share[i])
<1>1. IsFiniteSet(PayIds)
  BY SettlementAssumption, FS_Interval DEF SettlementAssumption, PayIds
<1>2. \A p \in PayIds : share[i][p] \in Nat
  BY DEF FundInvoices, Money
<1>3. PICK f : f = share[i]
  OBVIOUS
<1>4. SumOf(f, PayIds) \in Nat
  BY <1>1, <1>2, <1>3, SumType
<1>5. SumFunction(share[i]) \in Nat
  BY <1>1, <1>3, <1>4, SumFunctionIs
<1>6. invoice'[i] = [invoice[i] EXCEPT !.paid = invoice[i].paid + SumFunction(share[i])]
  BY DEF FundInvoices
<1>7. invoice[i] \in [total : (-MaxMoney) .. MaxMoney, paid : Money, canceled : BOOLEAN, cancels : InvIds \cup {0}]
  BY DEF TypeOK
<1>. QED BY <1>5, <1>6, <1>7

\* The inductive invariant of the archive at the start.
LEMMA ArchiveStart == Init => ArchiveInv
BY DEF Init, ArchiveInv, LinesIssued, ArchivedIsClosed, NoLine

\* A step that archives nothing, and leaves what closes a vehicle as it is.
LEMMA ArchiveRests ==
  ASSUME TypeOK, TypeOK', ArchiveInv, UNCHANGED <<rentBilled, nInv, invoice>>, today <= today',
         \A v \in Vehicles : archived'[v] =>
            /\ archived[v] /\ status'[v] = status[v] /\ endDay'[v] = endDay[v]
            /\ vehPaid'[v] = vehPaid[v] /\ paidThrough'[v] = paidThrough[v]
  PROVE  ArchiveInv'
<1>1. LinesIssued'
  BY DEF ArchiveInv, LinesIssued
<1>2. \A i \in InvIds : invoice[i].paid <= invoice[i].paid
  BY DEF TypeOK, Money
<1>3. ASSUME NEW v \in Vehicles, archived'[v] PROVE ArchivePredicate(v)'
  BY <1>2, <1>3, ClosedKept DEF ArchiveInv, ArchivedIsClosed
<1>. QED BY <1>1, <1>3 DEF ArchiveInv, ArchivedIsClosed

\* Settling items closes nothing again.
LEMMA SettleArchive ==
  ASSUME TypeOK, NEW take \in [OwedItems -> PayIds \cup {0}], SettleItems(take), NEW v \in Vehicles, archived[v]
  PROVE  vehPaid'[v] = vehPaid[v] /\ paidThrough'[v] = paidThrough[v]
<1>1. v \notin OwedVehicles
  BY DEF OwedVehicles
<1>. QED BY <1>1 DEF SettleItems, TypeOK

\* The inductive invariant of the archive is kept by every step.
LEMMA ArchiveStep ==
  ASSUME TypeOK, TypeOK', ArchiveInv, Next
  PROVE  ArchiveInv'
<1>t. today \in Int /\ (today <= today) /\ archived \in [Vehicles -> BOOLEAN] /\ nInv \in 0 .. MaxInvoices /\ nInv \in Nat
      /\ \A v \in Vehicles, k \in Periods : rentBilled[v][k].inv \in InvIds \cup {0}
      /\ InvIds \subseteq Nat \ {0}
  BY SettlementAssumption DEF TypeOK, Days, InvIds, SettlementAssumption
<1>1. CASE ClockNext
  BY <1>1, <1>t, ArchiveRests DEF ClockNext, NextDay, LockTaxYear, UnlockTaxYear
<1>2. CASE ChargeNext
  <2>1. UNCHANGED <<today, vehicleVars, rentBilled, nInv, invoice>>
    BY <1>2 DEF ChargeNext, CreateCharge, UpdateCharge, DeleteCharge, SetChargePaid, SetChargeOpen
  <2>. QED BY <2>1, <1>t, ArchiveRests
<1>3. CASE VehicleNext
  <2>. PICK v \in Vehicles :
         \/ MarkPaid(v) \/ MarkOpen(v) \/ MarkAgain(v) \/ ReactivateVehicle(v)
         \/ \E s \in {"stored", "collected", "cancelled"}, d \in Days \cup {0} : ChangeStatus(v, s, d)
    BY <1>3 DEF VehicleNext
  <2>1. UNCHANGED <<today, rentBilled, nInv, invoice>>
    BY DEF MarkPaid, MarkOpen, MarkAgain, ReactivateVehicle, ChangeStatus
  <2>2. \/ archived' = archived /\ ~archived[v]
        \/ archived' = [archived EXCEPT ![v] = FALSE] /\ UNCHANGED <<status, endDay, vehPaid, paidThrough>>
    BY DEF MarkPaid, MarkOpen, MarkAgain, ReactivateVehicle, ChangeStatus
  <2>3. \A w \in Vehicles \ {v} : status'[w] = status[w] /\ endDay'[w] = endDay[w] /\ vehPaid'[w] = vehPaid[w] /\ paidThrough'[w] = paidThrough[w]
    BY DEF MarkPaid, MarkOpen, MarkAgain, ReactivateVehicle, ChangeStatus, TypeOK
  <2>. QED BY <2>1, <2>2, <2>3, <1>t, ArchiveRests
<1>4. CASE PaymentNext
  <2>1. ASSUME NEW amount \in Amounts, NEW year \in Years, NEW items \in SUBSET OwedItems, CreatePayment(amount, items, year)
        PROVE  ArchiveInv'
    <3>1. PICK take : take = [it \in OwedItems |-> IF it \in items THEN nPay + 1 ELSE 0]
      OBVIOUS
    <3>2. SettleItems(take) /\ InsertPayment(amount, FALSE, year)
      BY <2>1, <3>1 DEF CreatePayment
    <3>3. take \in [OwedItems -> PayIds \cup {0}]
      BY <3>1, <3>2, InsertType
    <3>4. UNCHANGED <<today, status, endDay, archived, rentBilled, nInv, invoice>>
      BY <2>1 DEF CreatePayment
    <3>. QED BY <3>2, <3>3, <3>4, <1>t, SettleArchive, ArchiveRests
  <2>2. ASSUME NEW share, FundInvoices(share), \A i \in InvIds : DOMAIN share[i] = PayIds,
               UNCHANGED <<today, status, endDay, archived, rentBilled, nInv>>,
               \A v \in Vehicles : archived[v] => vehPaid'[v] = vehPaid[v] /\ paidThrough'[v] = paidThrough[v]
        PROVE  ArchiveInv'
    <3>1. \A i \in InvIds : invoice'[i].total = invoice[i].total /\ invoice[i].paid <= invoice'[i].paid
      <4>1. ASSUME NEW i \in InvIds PROVE invoice'[i].total = invoice[i].total /\ invoice[i].paid <= invoice'[i].paid
        <5>1. invoice[i].paid \in Nat
          BY SettlementAssumption DEF TypeOK, Money, SettlementAssumption
        <5>. QED BY <2>2, <5>1, FundsAdd
      <4>. QED BY <4>1
    <3>2. ASSUME NEW v \in Vehicles, archived[v] PROVE ArchivePredicate(v)'
      BY <2>2, <3>1, <3>2, <1>t, ClosedKept DEF ArchiveInv, ArchivedIsClosed
    <3>. QED BY <2>2, <3>2 DEF ArchiveInv, ArchivedIsClosed, LinesIssued
  <2>3. ASSUME NEW amount \in Amounts, NEW year \in Years, NEW give \in [OpenInvoices -> Amounts \cup {0}], PayInvoices(amount, year, give)
        PROVE  ArchiveInv'
    <3>1. PICK share : share = [i \in InvIds |-> [p \in PayIds |-> IF p = nPay + 1 /\ i \in OpenInvoices THEN give[i] ELSE 0]]
      OBVIOUS
    <3>2. FundInvoices(share) /\ UNCHANGED <<today, vehicleVars, rentBilled, nInv>>
      BY <2>3, <3>1 DEF PayInvoices
    <3>3. \A i \in InvIds : DOMAIN share[i] = PayIds
      BY <3>1
    <3>. QED BY <3>2, <3>3, <2>2
  <2>4. ASSUME NEW rank, NEW take \in [OwedItems -> PayIds \cup {0}], ApplyCredit(rank, take) PROVE ArchiveInv'
    <3>1. PICK left : FundInvoices([i \in InvIds |-> [p \in PayIds |-> InvoiceCredit(left, i, p)]])
      BY <2>4 DEF ApplyCredit
    <3>2. PICK share : share = [i \in InvIds |-> [p \in PayIds |-> InvoiceCredit(left, i, p)]]
      OBVIOUS
    <3>3. FundInvoices(share) /\ \A i \in InvIds : DOMAIN share[i] = PayIds
      BY <3>1, <3>2
    <3>4. SettleItems(take) /\ UNCHANGED <<today, status, endDay, archived, rentBilled, nInv>>
      BY <2>4 DEF ApplyCredit
    <3>. QED BY <3>3, <3>4, <2>2, SettleArchive
  <2>5. ASSUME NEW p \in PayIds, DeletePayment(p) PROVE ArchiveInv'
    <3>1. /\ UNCHANGED <<today, status, endDay, rentBilled, nInv>>
          /\ vehPaid' = [v \in Vehicles |-> vehPaid[v] /\ rentAlloc[v].pay # p]
          /\ paidThrough' = [v \in Vehicles |-> IF rentAlloc[v].pay = p THEN 0 ELSE paidThrough[v]]
          /\ invoice' = [i \in InvIds |-> [invoice[i] EXCEPT !.paid = Larger(0, invoice[i].paid - invPay[i][p])]]
          /\ ReopenUncovered({ v \in Vehicles : rentAlloc[v].pay = p } \cup BilledVehicles({ i \in InvIds : invPay[i][p] # 0 }))
      BY <2>5 DEF DeletePayment
    <3>2. ASSUME NEW i \in InvIds, invPay[i][p] = 0 PROVE invoice'[i].total = invoice[i].total /\ invoice[i].paid <= invoice'[i].paid
      <4>1. invoice[i] \in [total : (-MaxMoney) .. MaxMoney, paid : Money, canceled : BOOLEAN, cancels : InvIds \cup {0}]
        BY DEF TypeOK
      <4>2. invoice[i].paid \in Nat
        BY <4>1, SettlementAssumption DEF Money, SettlementAssumption
      <4>3. invoice'[i] = [invoice[i] EXCEPT !.paid = Larger(0, invoice[i].paid - 0)]
        BY <3>1, <3>2
      <4>4. Larger(0, invoice[i].paid - 0) = invoice[i].paid
        BY <4>2 DEF Larger
      <4>. QED BY <4>1, <4>2, <4>3, <4>4
    <3>3. ASSUME NEW v \in Vehicles, archived'[v] PROVE ArchivePredicate(v)'
      <4>1. archived[v] /\ ArchivePredicate(v)
        BY <3>1, <3>3 DEF ReopenUncovered, ArchiveInv, ArchivedIsClosed
      <4>2. CASE rentAlloc[v].pay = p \/ v \in BilledVehicles({ i \in InvIds : invPay[i][p] # 0 })
        <5>1. status[v] = "collected" => ArchivePredicate(v)'
          BY <3>1, <3>3, <4>2 DEF ReopenUncovered
        <5>2. status[v] = "collected" \/ status[v] = "cancelled"
          BY <4>1 DEF ArchivePredicate
        <5>3. status[v] = "cancelled" => ArchivePredicate(v)'
          BY <3>1 DEF ArchivePredicate
        <5>. QED BY <5>1, <5>2, <5>3
      <4>3. CASE rentAlloc[v].pay # p /\ v \notin BilledVehicles({ i \in InvIds : invPay[i][p] # 0 })
        <5>1. vehPaid'[v] = vehPaid[v] /\ paidThrough'[v] = paidThrough[v]
          BY <3>1, <4>3 DEF TypeOK
        <5>2. \A k \in Periods, i \in InvIds : rentBilled[v][k].inv = i => invPay[i][p] = 0
          BY <4>3 DEF BilledVehicles
        <5>. QED BY <3>1, <3>2, <4>1, <5>1, <5>2, <1>t, ClosedKept
      <4>. QED BY <4>2, <4>3
    <3>. QED BY <3>1, <3>3 DEF ArchiveInv, ArchivedIsClosed, LinesIssued
  <2>. QED BY <1>4, <2>1, <2>3, <2>4, <2>5 DEF PaymentNext
<1>5. CASE InvoiceNext
  <2>1. CASE CreateInvoice
    <3>1. UNCHANGED <<today, vehicleVars>> /\ nInv' = nInv + 1 /\ nInv + 1 \in InvIds
      BY <1>t, <2>1, SettlementAssumption DEF CreateInvoice, InvIds, SettlementAssumption
    <3>2. \A i \in InvIds : i <= nInv => invoice'[i] = invoice[i]
      BY <2>1, <1>t DEF CreateInvoice, TypeOK
    <3>3. LinesIssued'
      <4>. SUFFICES ASSUME NEW v \in Vehicles, NEW k \in Periods PROVE rentBilled'[v][k].inv <= nInv + 1
        BY <3>1 DEF LinesIssued
      <4>1. rentBilled'[v][k].inv = nInv + 1 \/ rentBilled'[v][k] = rentBilled[v][k]
        BY <2>1 DEF CreateInvoice
      <4>. QED BY <4>1, <1>t DEF ArchiveInv, LinesIssued
    <3>4. ASSUME NEW v \in Vehicles, archived[v] PROVE ArchivePredicate(v)'
      <4>1. \A k \in Periods : <<v, k>> \notin RentLines
        BY <3>4 DEF RentLines
      <4>2. \A k \in Periods : rentBilled'[v][k] = rentBilled[v][k]
        BY <2>1, <4>1 DEF CreateInvoice
      <4>3. \A k \in Periods, i \in InvIds : rentBilled[v][k].inv = i => invoice'[i].total = invoice[i].total /\ invoice[i].paid <= invoice'[i].paid
        BY <3>2, <1>t DEF ArchiveInv, LinesIssued, TypeOK, Money
      <4>. QED BY <3>1, <3>4, <4>2, <4>3, <1>t, ClosedKept DEF ArchiveInv, ArchivedIsClosed
    <3>. QED BY <3>1, <3>3, <3>4 DEF ArchiveInv, ArchivedIsClosed
  <2>2. ASSUME NEW j \in InvIds, CancelInvoice(j) PROVE ArchiveInv'
    <3>1. UNCHANGED <<today, status, endDay, vehPaid, paidThrough>> /\ nInv' = nInv + 1 /\ ReopenUncovered(BilledVehicles({j}))
      BY <2>2 DEF CancelInvoice
    <3>2. \A i \in InvIds : i <= nInv /\ i # j => invoice'[i] = invoice[i]
      BY <2>2, <1>t DEF CancelInvoice, TypeOK
    <3>3. rentBilled' = [v \in Vehicles |-> [k \in Periods |-> IF rentBilled[v][k].inv = j THEN NoLine ELSE rentBilled[v][k]]]
      BY <2>2 DEF CancelInvoice
    <3>4. LinesIssued'
      <4>. SUFFICES ASSUME NEW v \in Vehicles, NEW k \in Periods PROVE rentBilled'[v][k].inv <= nInv + 1
        BY <3>1 DEF LinesIssued
      <4>1. rentBilled'[v][k].inv = 0 \/ rentBilled'[v][k] = rentBilled[v][k]
        BY <3>3 DEF NoLine
      <4>. QED BY <4>1, <1>t DEF ArchiveInv, LinesIssued
    <3>5. ASSUME NEW v \in Vehicles, archived'[v] PROVE ArchivePredicate(v)'
      <4>1. archived[v] /\ ArchivePredicate(v)
        BY <3>1, <3>5 DEF ReopenUncovered, ArchiveInv, ArchivedIsClosed
      <4>2. CASE v \in BilledVehicles({j})
        <5>1. status[v] = "collected" => ArchivePredicate(v)'
          BY <3>1, <3>5, <4>2 DEF ReopenUncovered
        <5>2. status[v] = "collected" \/ status[v] = "cancelled"
          BY <4>1 DEF ArchivePredicate
        <5>3. status[v] = "cancelled" => ArchivePredicate(v)'
          BY <3>1 DEF ArchivePredicate
        <5>. QED BY <5>1, <5>2, <5>3
      <4>3. CASE v \notin BilledVehicles({j})
        <5>1. \A k \in Periods : rentBilled[v][k].inv # j
          BY <4>3 DEF BilledVehicles
        <5>2. \A k \in Periods : rentBilled'[v][k] = rentBilled[v][k]
          BY <3>3, <5>1
        <5>3. \A k \in Periods, i \in InvIds : rentBilled[v][k].inv = i => invoice'[i].total = invoice[i].total /\ invoice[i].paid <= invoice'[i].paid
          BY <3>2, <5>1, <1>t DEF ArchiveInv, LinesIssued, TypeOK, Money
        <5>. QED BY <3>1, <4>1, <5>2, <5>3, <1>t, ClosedKept
      <4>. QED BY <4>2, <4>3
    <3>. QED BY <3>1, <3>4, <3>5 DEF ArchiveInv, ArchivedIsClosed
  <2>. QED BY <1>5, <2>1, <2>2 DEF InvoiceNext
<1>6. CASE FollowNext
  <2>1. UNCHANGED <<today, closed, chargeVars, status, endDay, vehPaid, paidThrough, payVars, invVars, invPay>>
    BY <1>6 DEF FollowNext, SweepArchive, LoseFollowUps, AutoArchive
  <2>2. \A v \in Vehicles : archived'[v] => archived[v] \/ ArchivePredicate(v)
    BY <1>6 DEF FollowNext, SweepArchive, LoseFollowUps, AutoArchive, TypeOK
  <2>3. \A v \in Vehicles : archived'[v] => ArchivePredicate(v)
    BY <2>2 DEF ArchiveInv, ArchivedIsClosed
  <2>4. \A v \in Vehicles : ArchivePredicate(v) => ArchivePredicate(v)'
    BY <2>1 DEF ArchivePredicate, VehicleInvoiced, Unpaid
  <2>. QED BY <2>1, <2>3, <2>4 DEF ArchiveInv, ArchivedIsClosed, LinesIssued
<1>. QED BY <1>1, <1>2, <1>3, <1>4, <1>5, <1>6 DEF Next

\* An archived vehicle is finished: every Storno that uncovers one brings it
\* back (vehicle_closure.go), for any calendar and any number of vehicles.
THEOREM ArchivedIsFinished == Spec => []ArchivedIsClosed
<1>1. TypeOK /\ TypeOK' /\ ArchiveInv /\ [Next]_vars => ArchiveInv'
  <2>. SUFFICES ASSUME TypeOK, TypeOK', ArchiveInv, UNCHANGED vars PROVE ArchiveInv'
    BY ArchiveStep
  <2>. QED BY DEF vars, ArchiveInv, LinesIssued, ArchivedIsClosed, ArchivePredicate, VehicleInvoiced, Unpaid
<1>2. ArchiveInv => ArchivedIsClosed
  BY DEF ArchiveInv
<1>. QED BY ArchiveStart, <1>1, <1>2, TypeCorrect, PTL DEF Spec

-----------------------------------------------------------------------------
\* An invoice bills rent only where there is some.
BillsSomething == \A v \in Vehicles, k \in Periods : rentBilled[v][k].inv # 0 => rentBilled[v][k].amount > 0
RentInv == BillsSomething /\ RentChargedOnce

\* Arithmetic of periods: products and quotients.
LEMMA TimesMore == ASSUME NEW a \in Nat, NEW b \in Nat, NEW c \in Nat, b <= c PROVE a * b <= a * c
OBVIOUS
\* A product of naturals.
LEMMA TimesNat == ASSUME NEW a \in Nat, NEW b \in Nat PROVE a * b \in Nat
OBVIOUS
\* The next multiple.
LEMMA NextMultiple == ASSUME NEW k \in Nat, NEW p \in Nat, k >= 1, p >= 1 PROVE k * p = (k - 1) * p + p /\ (k - 1) * p \in Nat
OBVIOUS
\* The period of a day ends on the next multiple.
LEMMA InMultiple == ASSUME NEW k \in Nat, NEW p \in Nat, NEW d \in Nat, k >= 1, p >= 1, d > (k - 1) * p, d <= k * p
                    PROVE  (d - 1) \div p = k - 1
OBVIOUS
\* A quotient of naturals.
LEMMA QuotientNat == ASSUME NEW p \in Nat, NEW d \in Nat, p >= 1, d >= 1 PROVE (d - 1) \div p \in Nat
OBVIOUS

\* Periods and their days.
LEMMA PeriodLimits ==
  ASSUME NEW k \in Periods
  PROVE  /\ k \in Nat /\ k >= 1
         /\ LastDay(k) \in Nat /\ LastDay(k - 1) \in Nat /\ LastDay(k - 1) <= LastDay(k)
         /\ \A d \in Days : d > LastDay(k - 1) /\ d <= LastDay(k) => PeriodOf(d) = k
<1>1. PeriodDays \in Nat /\ PeriodDays >= 1 /\ \A d \in Days : d \in Nat /\ d >= 1
  BY SettlementAssumption DEF SettlementAssumption, Days
<1>2. PICK d \in Days : k = (d - 1) \div PeriodDays + 1
  BY DEF Periods, PeriodOf
<1>3. k \in Nat /\ k >= 1
  BY <1>1, <1>2, QuotientNat
<1>4. k * PeriodDays = (k - 1) * PeriodDays + PeriodDays /\ (k - 1) * PeriodDays \in Nat
  BY <1>1, <1>3, NextMultiple
<1>5. ASSUME NEW e \in Days, e > (k - 1) * PeriodDays /\ e <= k * PeriodDays PROVE PeriodOf(e) = k
  <2>1. (e - 1) \div PeriodDays = k - 1
    BY <1>1, <1>3, <1>5, InMultiple
  <2>. QED BY <2>1, <1>3 DEF PeriodOf
<1>. QED BY <1>1, <1>3, <1>4, <1>5 DEF LastDay

\* What a settlement covers of a period is no negative amount, and no more with less days settled.
LEMMA SettledNat ==
  ASSUME TypeOK, NEW v \in Vehicles, NEW k \in Periods
  PROVE  SettledPart(v, k) \in Nat /\ PeriodCost(v, k) \in Nat
<1>1. /\ LastDay(k) \in Nat /\ LastDay(k - 1) \in Nat /\ DayRate[v] \in Nat /\ paidThrough[v] \in Nat /\ endDay[v] \in Nat
  BY PeriodLimits, SettlementAssumption DEF SettlementAssumption, TypeOK, Days
<1>2. ASSUME NEW d \in Nat PROVE RentedDays(v, d) \in Nat
  BY <1>1 DEF RentedDays, Smaller
<1>3. ASSUME NEW d \in Nat PROVE Larger(0, d - LastDay(k - 1)) \in Nat
  BY <1>1 DEF Larger
<1>4. Smaller(paidThrough[v], LastDay(k)) \in Nat
  BY <1>1 DEF Smaller
<1>5. DayRate[v] * Larger(0, RentedDays(v, Smaller(paidThrough[v], LastDay(k))) - LastDay(k - 1)) \in Nat
  BY <1>1, <1>2, <1>3, <1>4, TimesNat
<1>6. DayRate[v] * Larger(0, RentedDays(v, LastDay(k)) - LastDay(k - 1)) \in Nat
  BY <1>1, <1>2, <1>3, TimesNat
<1>. QED BY <1>5, <1>6 DEF SettledPart, PeriodCost

\* A step that leaves end dates and invoices as they are, and settles only what is not on one.
LEMMA RentRests ==
  ASSUME TypeOK, RentInv, endDay' = endDay, rentBilled' = rentBilled,
         \A v \in Vehicles : paidThrough'[v] = paidThrough[v] \/ paidThrough'[v] = 0 \/ ~VehicleInvoiced(v)
  PROVE  RentInv'
<1>1. ASSUME NEW v \in Vehicles, NEW k \in Periods, rentBilled[v][k].inv # 0
      PROVE  rentBilled'[v][k].amount + SettledPart(v, k)' <= PeriodCost(v, k)'
  <2>1. rentBilled[v][k].amount + SettledPart(v, k) <= PeriodCost(v, k)
    BY <1>1 DEF RentInv, RentChargedOnce
  <2>2. PeriodCost(v, k)' = PeriodCost(v, k)
    BY DEF PeriodCost, RentedDays
  <2>3. paidThrough'[v] = paidThrough[v] \/ paidThrough'[v] = 0
    BY <1>1 DEF VehicleInvoiced
  <2>4. paidThrough'[v] = paidThrough[v] => SettledPart(v, k)' = SettledPart(v, k)
    BY DEF SettledPart, RentedDays, Smaller
  <2>5. paidThrough'[v] = 0 => SettledPart(v, k)' = 0
    BY PeriodLimits DEF SettledPart
  <2>6. SettledPart(v, k) \in Nat /\ PeriodCost(v, k) \in Nat /\ rentBilled[v][k].amount \in Nat
    BY SettledNat, SettlementAssumption DEF TypeOK, Money, SettlementAssumption
  <2>. QED BY <2>1, <2>2, <2>3, <2>4, <2>5, <2>6
<1>. QED BY <1>1 DEF RentInv, RentChargedOnce, BillsSomething

\* A billed period ends in the rental, or is its last one.
LEMMA BilledEnd ==
  ASSUME TypeOK, RentInv, NEW v \in Vehicles, NEW k \in Periods, rentBilled[v][k].inv # 0, endDay[v] # 0, endDay[v] < LastDay(k)
  PROVE  PeriodOf(endDay[v]) = k
<1>1. SettledPart(v, k) \in Nat /\ PeriodCost(v, k) > 0
  <2>1. rentBilled[v][k].amount > 0 /\ rentBilled[v][k].amount + SettledPart(v, k) <= PeriodCost(v, k)
    BY DEF RentInv, RentChargedOnce, BillsSomething
  <2>2. SettledPart(v, k) \in Nat /\ PeriodCost(v, k) \in Nat /\ rentBilled[v][k].amount \in Nat
    BY SettledNat, SettlementAssumption DEF TypeOK, Money, SettlementAssumption
  <2>. QED BY <2>1, <2>2
<1>2. /\ LastDay(k) \in Nat /\ LastDay(k - 1) \in Nat /\ DayRate[v] \in Nat /\ endDay[v] \in Days /\ endDay[v] \in Nat
  BY PeriodLimits, SettlementAssumption DEF SettlementAssumption, TypeOK, Days
<1>3. RentedDays(v, LastDay(k)) = endDay[v]
  BY <1>2 DEF RentedDays, Smaller
<1>4. ASSUME endDay[v] <= LastDay(k - 1) PROVE FALSE
  <2>1. Larger(0, endDay[v] - LastDay(k - 1)) = 0
    BY <1>2, <1>4 DEF Larger
  <2>2. DayRate[v] * 0 = 0
    BY <1>2
  <2>. QED BY <1>1, <1>3, <2>1, <2>2 DEF PeriodCost
<1>. QED BY <1>2, <1>4, PeriodLimits

\* A new end date leaves the cost of what is billed.
LEMMA StatusRent ==
  ASSUME TypeOK, RentInv, NEW v \in Vehicles, NEW s, NEW newEnd \in Days \cup {0}, ChangeStatus(v, s, newEnd)
  PROVE  RentInv'
<1>1. rentBilled' = rentBilled /\ paidThrough' = paidThrough /\ endDay' = [endDay EXCEPT ![v] = newEnd]
  BY DEF ChangeStatus
<1>2. ~ExtendsBilledPartial(v, newEnd) /\ ~RetractsBelowInvoiced(v, newEnd)
  BY DEF ChangeStatus
<1>3. ASSUME NEW w \in Vehicles, NEW k \in Periods, rentBilled[w][k].inv # 0
      PROVE  SettledPart(w, k)' = SettledPart(w, k) /\ PeriodCost(w, k)' = PeriodCost(w, k)
  <2>0. /\ LastDay(k) \in Nat /\ LastDay(k - 1) \in Nat /\ LastDay(k - 1) <= LastDay(k)
        /\ paidThrough[w] \in Nat /\ endDay[w] \in Nat /\ newEnd \in Nat
    BY PeriodLimits DEF TypeOK, Days
  <2>1. CASE w # v
    <3>1. endDay'[w] = endDay[w]
      BY <1>1, <2>1 DEF TypeOK
    <3>. QED BY <1>1, <3>1 DEF SettledPart, PeriodCost, RentedDays, Smaller
  <2>2. CASE w = v
    <3>1. endDay'[w] = newEnd
      BY <1>1, <2>2 DEF TypeOK
    <3>2. newEnd = 0 \/ newEnd >= LastDay(k)
      BY <1>2, <1>3, <2>0, <2>2 DEF RetractsBelowInvoiced
    <3>3. endDay[w] = 0 \/ endDay[w] >= LastDay(k)
      <4>. SUFFICES ASSUME endDay[w] # 0, endDay[w] < LastDay(k) PROVE FALSE
        BY <2>0
      <4>1. PeriodOf(endDay[w]) = k
        BY <1>3, BilledEnd
      <4>. QED BY <1>2, <1>3, <2>0, <2>2, <3>2, <4>1 DEF ExtendsBilledPartial
    <3>4. ASSUME NEW d \in Nat, d <= LastDay(k) PROVE RentedDays(w, d)' = d /\ RentedDays(w, d) = d
      BY <2>0, <3>1, <3>2, <3>3, <3>4 DEF RentedDays, Smaller
    <3>5. PICK d \in Nat : d = Smaller(paidThrough[w], LastDay(k)) /\ d <= LastDay(k)
      BY <2>0 DEF Smaller
    <3>6. PeriodCost(w, k)' = PeriodCost(w, k)
      BY <2>0, <3>4 DEF PeriodCost
    <3>7. paidThrough'[w] = paidThrough[w]
      BY <1>1
    <3>8. Smaller(paidThrough'[w], LastDay(k)) = d
      BY <3>5, <3>7
    <3>. QED BY <3>4, <3>5, <3>6, <3>7, <3>8 DEF SettledPart
  <2>. QED BY <2>1, <2>2
<1>. QED BY <1>1, <1>3 DEF RentInv, RentChargedOnce, BillsSomething

\* Settling items touches only vehicles nothing is billed of.
LEMMA SettleRent ==
  ASSUME TypeOK, RentInv, NEW take \in [OwedItems -> PayIds \cup {0}], SettleItems(take), endDay' = endDay, rentBilled' = rentBilled
  PROVE  RentInv'
<1>1. \A v \in Vehicles : paidThrough'[v] = paidThrough[v] \/ ~VehicleInvoiced(v)
  BY DEF SettleItems, OwedVehicles
<1>. QED BY <1>1, RentRests

\* The inductive invariant of the rent is kept by every step.
LEMMA RentStep ==
  ASSUME TypeOK, RentInv, Next
  PROVE  RentInv'
<1>1. CASE ClockNext \/ ChargeNext \/ FollowNext
  <2>1. UNCHANGED <<endDay, paidThrough, rentBilled>>
    BY <1>1 DEF ClockNext, NextDay, LockTaxYear, UnlockTaxYear, ChargeNext, CreateCharge, UpdateCharge, DeleteCharge, SetChargePaid,
                SetChargeOpen, FollowNext, SweepArchive, LoseFollowUps, AutoArchive
  <2>. QED BY <2>1, RentRests
<1>2. CASE VehicleNext
  <2>. PICK v \in Vehicles :
         \/ MarkPaid(v) \/ MarkOpen(v) \/ MarkAgain(v) \/ ReactivateVehicle(v)
         \/ \E s \in {"stored", "collected", "cancelled"}, d \in Days \cup {0} : ChangeStatus(v, s, d)
    BY <1>2 DEF VehicleNext
  <2>1. CASE MarkPaid(v)
    <3>1. ~VehicleInvoiced(v) /\ endDay' = endDay /\ rentBilled' = rentBilled
      BY <2>1 DEF MarkPaid
    <3>2. \A w \in Vehicles : w # v => paidThrough'[w] = paidThrough[w]
      BY <2>1 DEF MarkPaid, TypeOK
    <3>. QED BY <3>1, <3>2, RentRests
  <2>2. CASE MarkOpen(v) \/ MarkAgain(v) \/ ReactivateVehicle(v)
    <3>1. endDay' = endDay /\ rentBilled' = rentBilled
      BY <2>2 DEF MarkOpen, MarkAgain, ReactivateVehicle
    <3>2. \A w \in Vehicles : paidThrough'[w] = paidThrough[w] \/ paidThrough'[w] = 0
      BY <2>2 DEF MarkOpen, MarkAgain, ReactivateVehicle, TypeOK
    <3>. QED BY <3>1, <3>2, RentRests
  <2>. QED BY <2>1, <2>2, StatusRent
<1>3. CASE PaymentNext
  <2>1. ASSUME NEW amount \in Amounts, NEW year \in Years, NEW items \in SUBSET OwedItems, CreatePayment(amount, items, year)
        PROVE  RentInv'
    <3>1. PICK take : take = [it \in OwedItems |-> IF it \in items THEN nPay + 1 ELSE 0]
      OBVIOUS
    <3>2. SettleItems(take) /\ InsertPayment(amount, FALSE, year) /\ UNCHANGED <<endDay, rentBilled>>
      BY <2>1, <3>1 DEF CreatePayment
    <3>3. take \in [OwedItems -> PayIds \cup {0}]
      BY <3>1, <3>2, InsertType
    <3>. QED BY <3>2, <3>3, SettleRent
  <2>2. ASSUME NEW amount \in Amounts, NEW year \in Years, NEW give \in [OpenInvoices -> Amounts \cup {0}], PayInvoices(amount, year, give)
        PROVE  RentInv'
    <3>1. UNCHANGED <<vehicleVars, rentBilled>>
      BY <2>2 DEF PayInvoices
    <3>. QED BY <3>1, RentRests
  <2>3. ASSUME NEW rank, NEW take \in [OwedItems -> PayIds \cup {0}], ApplyCredit(rank, take) PROVE RentInv'
    <3>1. SettleItems(take) /\ UNCHANGED <<endDay, rentBilled>>
      BY <2>3 DEF ApplyCredit
    <3>. QED BY <3>1, SettleRent
  <2>4. ASSUME NEW p \in PayIds, DeletePayment(p) PROVE RentInv'
    <3>1. UNCHANGED <<endDay, rentBilled>> /\ \A v \in Vehicles : paidThrough'[v] = paidThrough[v] \/ paidThrough'[v] = 0
      BY <2>4 DEF DeletePayment
    <3>. QED BY <3>1, RentRests
  <2>. QED BY <1>3, <2>1, <2>2, <2>3, <2>4 DEF PaymentNext
<1>4. CASE InvoiceNext
  <2>1. UNCHANGED <<endDay, paidThrough>>
    BY <1>4 DEF InvoiceNext, CreateInvoice, CancelInvoice
  <2>2. ASSUME NEW v \in Vehicles, NEW k \in Periods, rentBilled'[v][k].inv # 0
        PROVE  \/ rentBilled'[v][k] = rentBilled[v][k]
               \/ <<v, k>> \in RentLines /\ rentBilled'[v][k].amount = RentLineAmount(<<v, k>>)
    <3>1. CASE CreateInvoice
      BY <3>1 DEF CreateInvoice
    <3>2. ASSUME NEW i \in InvIds, CancelInvoice(i) PROVE rentBilled'[v][k] = rentBilled[v][k]
      BY <2>2, <3>2 DEF CancelInvoice, NoLine
    <3>. QED BY <1>4, <3>1, <3>2 DEF InvoiceNext
  <2>3. ASSUME NEW v \in Vehicles, NEW k \in Periods, rentBilled'[v][k].inv # 0
        PROVE  rentBilled'[v][k].amount > 0 /\ rentBilled'[v][k].amount + SettledPart(v, k)' <= PeriodCost(v, k)'
    <3>1. SettledPart(v, k)' = SettledPart(v, k) /\ PeriodCost(v, k)' = PeriodCost(v, k)
      BY <2>1 DEF SettledPart, PeriodCost, RentedDays
    <3>2. SettledPart(v, k) \in Nat /\ PeriodCost(v, k) \in Nat
      BY SettledNat
    <3>3. CASE rentBilled'[v][k] = rentBilled[v][k]
      BY <2>3, <3>1, <3>3 DEF RentInv, RentChargedOnce, BillsSomething
    <3>4. CASE <<v, k>> \in RentLines /\ rentBilled'[v][k].amount = RentLineAmount(<<v, k>>)
      <4>1. PeriodCost(v, k) > SettledPart(v, k)
        BY <3>4 DEF RentLines
      <4>2. rentBilled'[v][k].amount = PeriodCost(v, k) - SettledPart(v, k)
        BY <3>4 DEF RentLineAmount
      <4>. QED BY <3>1, <3>2, <4>1, <4>2
    <3>. QED BY <2>2, <2>3, <3>3, <3>4
  <2>. QED BY <2>3 DEF RentInv, RentChargedOnce, BillsSomething
<1>. QED BY <1>1, <1>2, <1>3, <1>4 DEF Next

\* No day of rent is charged twice, by invoices and by the settlement through
\* paid_through together, however end dates moved in between.
THEOREM RentOnlyOnce == Spec => []RentChargedOnce
<1>1. Init => RentInv
  BY DEF Init, RentInv, BillsSomething, RentChargedOnce, NoLine
<1>2. TypeOK /\ RentInv /\ [Next]_vars => RentInv'
  <2>. SUFFICES ASSUME TypeOK, RentInv, UNCHANGED vars PROVE RentInv'
    BY RentStep
  <2>. QED BY RentRests DEF vars
<1>3. RentInv => RentChargedOnce
  BY DEF RentInv
<1>. QED BY <1>1, <1>2, <1>3, TypeCorrect, PTL DEF Spec

-----------------------------------------------------------------------------
\* Rows are finitely many.
LEMMA FiniteIds == IsFiniteSet(PayIds) /\ IsFiniteSet(InvIds) /\ IsFiniteSet(Charges) /\ IsFiniteSet(Vehicles)
BY SettlementAssumption, FS_Interval DEF SettlementAssumption, PayIds, InvIds

\* What receipt p gives to charges, to vehicles and to invoices, position by position.
OfCharges(p)  == [c \in Charges |-> IF chargeAlloc[c] = p THEN Price[c] ELSE 0]
OfVehicles(p) == [v \in Vehicles |-> IF rentAlloc[v].pay = p THEN rentAlloc[v].amount ELSE 0]
OfInvoices(p) == [i \in InvIds |-> invPay[i][p]]
AllocSum(p)   == SumOf(OfCharges(p), Charges) + SumOf(OfVehicles(p), Vehicles)
AppliedSum(p) == SumOf(OfInvoices(p), InvIds)

\* The sum of the claims on rent.
LEMMA RentSumIs ==
  ASSUME NEW S, IsFiniteSet(S), NEW F, \A v \in S : F[v] = rentAlloc[v].amount
  PROVE  MapThenSumSet(LAMBDA v : rentAlloc[v].amount, S) = SumOf(F, S)
<1>1. \A s \in SUBSET S : s # {} => Pick(s) \in S
  BY DEF Pick
<1>2. ASSUME NEW g PROVE IsSum(g, F, S) <=> g = [s \in SUBSET S |-> IF s = {} THEN 0 ELSE rentAlloc[CHOOSE x \in s : TRUE].amount + g[s \ {CHOOSE x \in s : TRUE}]]
  <2>1. \A s \in SUBSET S : s # {} => F[Pick(s)] = rentAlloc[Pick(s)].amount
    BY <1>1
  <2>. QED BY <2>1 DEF IsSum, Pick
<1>3. PICK g : IsSum(g, F, S)
  BY SumExists
<1>4. SumOf(F, S) = g[S]
  BY <1>3, SumIs
<1>5. \A h : IsSum(h, F, S) => h[S] = g[S]
  BY <1>3, SumsAgree
<1>. QED BY <1>2, <1>3, <1>4, <1>5 DEF MapThenSumSet, MapThenFoldSet

\* What a receipt gives is an amount.
LEMMA SumsTyped ==
  ASSUME TypeOK, NEW p \in PayIds
  PROVE  /\ \A c \in Charges : OfCharges(p)[c] \in Nat
         /\ \A v \in Vehicles : OfVehicles(p)[v] \in Nat
         /\ \A i \in InvIds : OfInvoices(p)[i] \in Nat
         /\ AllocSum(p) \in Nat /\ AppliedSum(p) \in Nat
         /\ SumOf(OfCharges(p), Charges) \in Nat /\ SumOf(OfVehicles(p), Vehicles) \in Nat
<1>1. \A c \in Charges : OfCharges(p)[c] \in Nat
  BY SettlementAssumption DEF SettlementAssumption, OfCharges
<1>2. \A v \in Vehicles : OfVehicles(p)[v] \in Nat
  BY SettlementAssumption DEF SettlementAssumption, OfVehicles, TypeOK, Money
<1>3. \A i \in InvIds : OfInvoices(p)[i] \in Nat
  BY DEF OfInvoices, TypeOK
<1>4. SumOf(OfCharges(p), Charges) \in Nat
  BY <1>1, FiniteIds, SumType
<1>5. SumOf(OfVehicles(p), Vehicles) \in Nat
  BY <1>2, FiniteIds, SumType
<1>6. SumOf(OfInvoices(p), InvIds) \in Nat
  BY <1>3, FiniteIds, SumType
<1>. QED BY <1>1, <1>2, <1>3, <1>4, <1>5, <1>6 DEF AllocSum, AppliedSum

\* What a receipt gave, in sums.
LEMMA AllocatedIs ==
  TypeOK => \A p \in PayIds : AllocatedTo(p) = AllocSum(p) /\ AppliedTo(p) = AppliedSum(p)
<1>. SUFFICES ASSUME TypeOK, NEW p \in PayIds PROVE AllocatedTo(p) = AllocSum(p) /\ AppliedTo(p) = AppliedSum(p)
  OBVIOUS
<1>. DEFINE cs == { c \in Charges : chargeAlloc[c] = p }
            vs == { v \in Vehicles : rentAlloc[v].pay = p }
            R  == [v \in Vehicles |-> rentAlloc[v].amount]
<1>1. cs \in SUBSET Charges /\ vs \in SUBSET Vehicles
  OBVIOUS
<1>2. IsFiniteSet(cs) /\ IsFiniteSet(vs)
  BY <1>1, FiniteIds, FS_Subset
<1>3. \A c \in cs : Price[c] = OwedAmount(c)
  BY DEF OwedAmount
<1>4. \A v \in vs : R[v] = rentAlloc[v].amount
  OBVIOUS
<1>5. \A c \in Charges : Price[c] \in Int
  BY SettlementAssumption DEF SettlementAssumption
<1>6. \A v \in Vehicles : R[v] \in Int
  BY SettlementAssumption DEF TypeOK, Money, SettlementAssumption
<1>7. OfCharges(p) = [c \in Charges |-> IF c \in cs THEN Price[c] ELSE 0]
  BY DEF OfCharges
<1>8. OfVehicles(p) = [v \in Vehicles |-> IF v \in vs THEN R[v] ELSE 0]
  BY DEF OfVehicles
<1>9. AllocatedTo(p) = Total(cs) + MapThenSumSet(LAMBDA v : rentAlloc[v].amount, vs)
  BY DEF AllocatedTo
<1>. HIDE DEF cs, vs, R
<1>10. Total(cs) = SumOf(Price, cs)
  BY <1>2, <1>3, TotalIs
<1>11. MapThenSumSet(LAMBDA v : rentAlloc[v].amount, vs) = SumOf(R, vs)
  BY <1>2, <1>4, RentSumIs
<1>12. SumOf(Price, cs) = SumOf(OfCharges(p), Charges)
  BY <1>1, <1>5, <1>7, FiniteIds, SumPart
<1>13. SumOf(R, vs) = SumOf(OfVehicles(p), Vehicles)
  BY <1>1, <1>6, <1>8, FiniteIds, SumPart
<1>. QED BY <1>9, <1>10, <1>11, <1>12, <1>13, AppliedIs DEF AllocSum, AppliedSum, OfInvoices

\* What a step adds to a receipt: the positions that become its own.
LEMMA Grows ==
  ASSUME TypeOK, TypeOK', NEW p \in PayIds, NEW S \in SUBSET Charges, NEW V \in SUBSET Vehicles,
         \A c \in Charges : chargeAlloc'[c] = p <=> (c \in S \/ chargeAlloc[c] = p),
         \A c \in S : chargeAlloc[c] # p,
         \A v \in Vehicles : rentAlloc'[v].pay = p <=> (v \in V \/ rentAlloc[v].pay = p),
         \A v \in V : rentAlloc[v].pay # p /\ rentAlloc'[v].amount = AccruedRent(v),
         \A v \in Vehicles : v \notin V /\ rentAlloc[v].pay = p => rentAlloc'[v].amount = rentAlloc[v].amount
  PROVE  AllocSum(p)' = AllocSum(p) + Total(S \cup V)
<1>. DEFINE F == [x \in S \cup V |-> OwedAmount(x)]
            C == [c \in Charges |-> IF c \in S THEN Price[c] ELSE 0]
            R == [v \in Vehicles |-> IF v \in V THEN AccruedRent(v) ELSE 0]
            A == [v \in Vehicles |-> AccruedRent(v)]
            CN == [c \in Charges |-> IF chargeAlloc'[c] = p THEN Price[c] ELSE 0]
            RN == [v \in Vehicles |-> IF rentAlloc'[v].pay = p THEN rentAlloc'[v].amount ELSE 0]
<1>1. \A c \in Charges : Price[c] \in Int /\ OwedAmount(c) = Price[c]
  BY SettlementAssumption DEF SettlementAssumption, OwedAmount
<1>2. \A v \in Vehicles : OwedAmount(v) = AccruedRent(v)
  BY SettlementAssumption DEF SettlementAssumption, OwedAmount
<1>3. \A v \in Vehicles : AccruedRent(v) \in Int
  <2>. SUFFICES ASSUME NEW v \in Vehicles PROVE AccruedRent(v) \in Int
    OBVIOUS
  <2>1. DayRate[v] \in Int /\ RentedDays(v, today) \in Int
    BY SettlementAssumption DEF SettlementAssumption, TypeOK, RentedDays, Smaller, Days
  <2>. QED BY <2>1 DEF AccruedRent
<1>4. IsFiniteSet(S) /\ IsFiniteSet(V) /\ IsFiniteSet(S \cup V)
  BY FiniteIds, FS_Subset, FS_Union
<1>5. AllocSum(p)' = SumOf(CN, Charges) + SumOf(RN, Vehicles)
  BY DEF AllocSum, OfCharges, OfVehicles
<1>6. \A c \in Charges : OfCharges(p)[c] \in Int /\ C[c] \in Int /\ CN[c] = OfCharges(p)[c] + C[c]
  BY <1>1 DEF OfCharges
<1>7. \A v \in Vehicles : rentAlloc[v].amount \in Int
  BY SettlementAssumption DEF TypeOK, Money, SettlementAssumption
<1>8. \A v \in Vehicles : OfVehicles(p)[v] \in Int /\ R[v] \in Int /\ RN[v] = OfVehicles(p)[v] + R[v]
  BY <1>3, <1>7 DEF OfVehicles
<1>9. SumOf(CN, Charges) = SumOf(OfCharges(p), Charges) + SumOf(C, Charges)
  <2>. HIDE DEF C, CN
  <2>. QED BY <1>6, FiniteIds, SumAdds
<1>10. SumOf(RN, Vehicles) = SumOf(OfVehicles(p), Vehicles) + SumOf(R, Vehicles)
  <2>. HIDE DEF R, RN
  <2>. QED BY <1>8, FiniteIds, SumAdds
<1>11. SumOf(C, Charges) = SumOf(Price, S)
  BY <1>1, FiniteIds, SumPart
<1>12. SumOf(R, Vehicles) = SumOf(A, V)
  <2>1. \A v \in Vehicles : A[v] \in Int
    BY <1>3
  <2>2. R = [v \in Vehicles |-> IF v \in V THEN A[v] ELSE 0]
    OBVIOUS
  <2>. HIDE DEF A, R
  <2>. QED BY <2>1, <2>2, FiniteIds, SumPart
<1>13. Total(S \cup V) = SumOf(F, S \cup V)
  <2>1. \A x \in S \cup V : F[x] = OwedAmount(x)
    OBVIOUS
  <2>. HIDE DEF F
  <2>. QED BY <2>1, <1>4, TotalIs
<1>14. SumOf(F, S \cup V) = SumOf(F, S) + SumOf(F, (S \cup V) \ S)
  <2>1. \A x \in S \cup V : F[x] \in Int
    BY <1>1, <1>2, <1>3
  <2>. HIDE DEF F
  <2>. QED BY <2>1, <1>4, SumSplit
<1>15. (S \cup V) \ S = V
  BY SettlementAssumption DEF SettlementAssumption
<1>16. SumOf(F, S) = SumOf(Price, S)
  <2>1. \A x \in S : F[x] = Price[x]
    BY <1>1
  <2>. HIDE DEF F
  <2>. QED BY <2>1, <1>4, SumSame
<1>17. SumOf(F, V) = SumOf(A, V)
  <2>1. \A x \in V : F[x] = A[x]
    BY <1>2
  <2>. HIDE DEF F, A
  <2>. QED BY <2>1, <1>4, SumSame
<1>18. /\ SumOf(OfCharges(p), Charges) \in Int /\ SumOf(OfVehicles(p), Vehicles) \in Int
  BY SumsTyped
<1>19. SumOf(C, Charges) \in Int /\ SumOf(R, Vehicles) \in Int
  <2>1. \A c \in Charges : C[c] \in Int
    BY <1>6
  <2>2. \A v \in Vehicles : R[v] \in Int
    BY <1>8
  <2>. HIDE DEF C, R
  <2>. QED BY <2>1, <2>2, FiniteIds, SumType
<1>. HIDE DEF F, C, R, A, CN, RN
<1>20. Total(S \cup V) = SumOf(C, Charges) + SumOf(R, Vehicles)
  BY <1>11, <1>12, <1>13, <1>14, <1>15, <1>16, <1>17
<1>. QED BY <1>5, <1>9, <1>10, <1>18, <1>19, <1>20 DEF AllocSum

-----------------------------------------------------------------------------
\* A finite set that is not empty has a member with the greatest rank.
LEMMA Greatest ==
  ASSUME NEW S, IsFiniteSet(S), S # {}, NEW f, \A x \in S : f[x] \in Int
  PROVE  \E m \in S : \A x \in S : f[x] <= f[m]
<1>. DEFINE Above(m) == { x \in S : f[x] > f[m] }
            B == { Above(m) : m \in S }
<1>1. PICK T \in B : \A U \in B : ~(U \subseteq T /\ U # T)
  <2>1. B \in SUBSET (SUBSET S) /\ B # {}
    OBVIOUS
  <2>. HIDE DEF B
  <2>. QED BY <2>1, SmallestSet
<1>2. PICK m \in S : T = Above(m)
  BY <1>1
<1>3. ASSUME NEW x \in S, f[x] > f[m] PROVE FALSE
  <2>1. Above(x) \in B /\ x \in Above(m) /\ x \notin Above(x)
    BY <1>3
  <2>2. \A y \in Above(x) : y \in Above(m)
    <3>. SUFFICES ASSUME NEW y \in S, f[y] > f[x] PROVE f[y] > f[m]
      OBVIOUS
    <3>1. f[y] \in Int /\ f[x] \in Int /\ f[m] \in Int
      OBVIOUS
    <3>. QED BY <3>1, <1>3
  <2>. HIDE DEF Above, B
  <2>. QED BY <2>1, <2>2, <1>1, <1>2
<1>4. \A x \in S : f[x] \in Int /\ f[m] \in Int
  OBVIOUS
<1>. HIDE DEF Above, B
<1>. QED BY <1>3, <1>4

\* What is owed are finitely many positive amounts.
LEMMA Owed ==
  ASSUME TypeOK
  PROVE  /\ OwedItems \subseteq Charges \cup Vehicles /\ IsFiniteSet(OwedItems)
         /\ \A it \in OwedItems : OwedAmount(it) \in Nat /\ OwedAmount(it) > 0
<1>1. OwedCharges \subseteq Charges /\ OwedVehicles \subseteq Vehicles
  BY DEF OwedCharges, OpenCharges, OwedVehicles
<1>2. OwedItems \subseteq Charges \cup Vehicles
  BY <1>1 DEF OwedItems
<1>3. IsFiniteSet(OwedItems)
  BY <1>2, FiniteIds, FS_Union, FS_Subset
<1>4. ASSUME NEW c \in OwedCharges PROVE OwedAmount(c) \in Nat /\ OwedAmount(c) > 0
  BY <1>1, SettlementAssumption DEF SettlementAssumption, OwedAmount
<1>5. ASSUME NEW v \in OwedVehicles PROVE OwedAmount(v) \in Nat /\ OwedAmount(v) > 0
  <2>1. v \in Vehicles /\ OwedAmount(v) = AccruedRent(v) /\ AccruedRent(v) > 0
    BY <1>1, SettlementAssumption DEF SettlementAssumption, OwedAmount, OwedVehicles
  <2>2. DayRate[v] \in Int /\ RentedDays(v, today) \in Int
    BY <2>1, SettlementAssumption DEF SettlementAssumption, TypeOK, RentedDays, Smaller, Days
  <2>3. AccruedRent(v) \in Int
    BY <2>2 DEF AccruedRent
  <2>. QED BY <2>1, <2>3
<1>. QED BY <1>2, <1>3, <1>4, <1>5 DEF OwedItems

\* The total of owed items, one item at a time.
LEMMA TotalStep ==
  ASSUME TypeOK, NEW T \in SUBSET OwedItems
  PROVE  /\ Total(T) \in Nat
         /\ T = {} => Total(T) = 0
         /\ \A m \in T : Total(T) = OwedAmount(m) + Total(T \ {m})
<1>. DEFINE F == [x \in OwedItems |-> OwedAmount(x)]
<1>1. \A x \in OwedItems : F[x] = OwedAmount(x) /\ F[x] \in Nat /\ F[x] \in Int
  BY Owed
<1>2. \A U \in SUBSET OwedItems : IsFiniteSet(U)
  BY Owed, FS_Subset
<1>. HIDE DEF F
<1>3. \A U \in SUBSET OwedItems : Total(U) = SumOf(F, U)
  <2>. SUFFICES ASSUME NEW U \in SUBSET OwedItems PROVE Total(U) = SumOf(F, U)
    OBVIOUS
  <2>. QED BY <1>1, <1>2, TotalIs
<1>4. SumOf(F, T) \in Nat
  BY <1>1, <1>2, SumType
<1>5. SumOf(F, {}) = 0
  BY SumEmpty
<1>6. ASSUME NEW m \in T PROVE SumOf(F, T) = F[m] + SumOf(F, T \ {m})
  BY <1>1, <1>2, SumStep
<1>. QED BY <1>1, <1>3, <1>4, <1>5, <1>6

\* Arithmetic of one item more.
LEMMA Spare ==
  ASSUME NEW r \in Int, NEW t \in Int, NEW o \in Int, NEW u \in Int, r - u >= o, t = o + u, u >= 0, o > 0
  PROVE  t <= r /\ r > 0
OBVIOUS

\* The drawdown takes from a receipt what it still holds.
LEMMA DrawdownFits ==
  ASSUME TypeOK, NEW rank \in Injection(OwedItems, 1 .. Cardinality(OwedItems)), NEW take, Drawdown(rank, take),
         NEW p \in LivePayments, NEW T, T = { it \in OwedItems : take[it] = p }, T # {}
  PROVE  Total(T) <= Remaining(p) /\ Remaining(p) > 0
<1>1. \A x \in OwedItems : rank[x] \in Int
  BY DEF Injection, IsInjective
<1>2. \A x, y \in OwedItems : rank[x] = rank[y] => x = y
  BY DEF Injection, IsInjective
<1>3. T \subseteq OwedItems /\ IsFiniteSet(T)
  BY Owed, FS_Subset
<1>4. PICK m \in T : \A x \in T : rank[x] <= rank[m]
  BY <1>1, <1>3, Greatest
<1>5. m \in OwedItems /\ take[m] = p /\ p \in PayIds /\ p # 0
  BY DEF LivePayments, PayIds
<1>6. PICK before, holding :
         /\ before = { j \in OwedItems : rank[j] < rank[m] /\ take[j] # 0 }
         /\ holding = { q \in LivePayments : [r \in LivePayments |-> Remaining(r)][q] - Total({ j \in before : take[j] = q }) >= OwedAmount(m) }
         /\ IsOldest(take[m], holding)
  BY <1>5 DEF Drawdown
<1>7. Remaining(p) - Total({ j \in before : take[j] = p }) >= OwedAmount(m)
  BY <1>5, <1>6 DEF IsOldest
<1>8. { j \in before : take[j] = p } = T \ {m}
  <2>1. \A x \in T : x # m => rank[x] < rank[m]
    BY <1>1, <1>2, <1>3, <1>4
  <2>. QED BY <1>1, <1>3, <1>4, <1>5, <1>6, <2>1
<1>9. Total(T) \in Nat /\ Total(T) = OwedAmount(m) + Total(T \ {m})
  BY <1>3, TotalStep
<1>10. Total(T \ {m}) \in Nat
  <2>1. T \ {m} \in SUBSET OwedItems
    BY <1>3
  <2>. QED BY <2>1, TotalStep
<1>11. OwedAmount(m) \in Nat /\ OwedAmount(m) > 0
  BY <1>5, Owed
<1>12. Remaining(p) \in Int
  <2>1. AllocSum(p) \in Nat /\ AppliedSum(p) \in Nat /\ payment[p].amount \in Int
    BY <1>5, SumsTyped, SettlementAssumption DEF TypeOK, Money, SettlementAssumption
  <2>. QED BY <2>1, <1>5, AllocatedIs DEF Remaining
<1>. HIDE DEF Remaining
<1>13. Remaining(p) - Total(T \ {m}) >= OwedAmount(m)
  BY <1>7, <1>8
<1>14. Total(T) \in Int /\ OwedAmount(m) \in Int /\ Total(T \ {m}) \in Int /\ Total(T \ {m}) >= 0
  BY <1>9, <1>10, <1>11
<1>15. Total(T) = OwedAmount(m) + Total(T \ {m}) /\ OwedAmount(m) > 0
  BY <1>9, <1>11
<1>. QED BY <1>12, <1>13, <1>14, <1>15, Spare

\* Numbers less than k first: a set of natural numbers has a least one.
LEMMA LeastOf == ASSUME NEW B \in SUBSET Nat, B # {} PROVE \E n \in B : \A m \in B : n <= m
<1>1. IsWellFoundedOn(OpToRel(<, Nat), Nat)
  BY NatLessThanWellFounded
<1>2. PICK n \in B : \A m \in B : ~(<<m, n>> \in OpToRel(<, Nat))
  BY <1>1, WFMin
<1>3. \A m \in B : ~(m < n)
  BY <1>2 DEF OpToRel
<1>. QED BY <1>3

\* Two running totals: what one step of the first overlaps with a step of the second, summed over
\* the steps of the first, is no more than the step of the second.
LEMMA Overlap ==
  ASSUME NEW n \in Nat, NEW d, \A k \in 0 .. n : d[k] \in Int, \A k \in 1 .. n : d[k - 1] <= d[k],
         NEW a \in Int, NEW b \in Int, a <= b, NEW F,
         \A k \in 1 .. n : F[k] \in Int /\ F[k] <= Larger(0, Smaller(d[k], b) - Larger(d[k - 1], a))
  PROVE  SumOf(F, 1 .. n) <= b - a
<1>. DEFINE P(k) == SumOf(F, 1 .. k) <= Larger(0, Smaller(d[k], b) - a)
<1>1. ASSUME NEW k \in 0 .. n, ~P(k) PROVE FALSE
  <2>. DEFINE B == { j \in 0 .. n : ~P(j) }
  <2>1. PICK j \in B : \A m \in B : j <= m
    <3>2. B \in SUBSET Nat
      OBVIOUS
    <3>3. k \in B
      BY <1>1
    <3>1. B \in SUBSET Nat /\ B # {}
      BY <3>2, <3>3
    <3>. HIDE DEF B
    <3>. QED BY <3>1, LeastOf
  <2>2. j \in 0 .. n /\ ~P(j)
    BY <2>1
  <2>3. j # 0
    <3>1. SumOf(F, 1 .. 0) = 0
      <4>1. 1 .. 0 = {}
        OBVIOUS
      <4>. QED BY <4>1, SumEmpty
    <3>2. d[0] \in Int
      OBVIOUS
    <3>3. P(0)
      BY <3>1, <3>2 DEF Larger, Smaller
    <3>. QED BY <2>2, <3>3
  <2>4. PICK i \in 0 .. n : j = i + 1 /\ j \in 1 .. n /\ i = j - 1
    BY <2>2, <2>3
  <2>5. P(i)
    BY <2>1, <2>4
  <2>6. SumOf(F, 1 .. j) = F[j] + SumOf(F, 1 .. i) /\ SumOf(F, 1 .. i) \in Int
    <3>1. IsFiniteSet(1 .. j) /\ IsFiniteSet(1 .. i)
      BY <2>4, FS_Interval
    <3>2. \A x \in 1 .. j : F[x] \in Int
      BY <2>4
    <3>3. j \in 1 .. j /\ (1 .. j) \ {j} = 1 .. i /\ \A x \in 1 .. i : F[x] \in Int
      BY <2>4
    <3>4. SumOf(F, 1 .. j) = F[j] + SumOf(F, (1 .. j) \ {j})
      BY <3>1, <3>2, <3>3, SumStep
    <3>5. SumOf(F, 1 .. i) \in Int
      BY <3>1, <3>3, SumType
    <3>. QED BY <3>3, <3>4, <3>5
  <2>7. /\ d[i] \in Int /\ d[j] \in Int /\ d[i] <= d[j]
        /\ F[j] \in Int /\ F[j] <= Larger(0, Smaller(d[j], b) - Larger(d[i], a))
    BY <2>4
  <2>8. PICK s, t, x, y \in Int : s = SumOf(F, 1 .. i) /\ t = F[j] /\ x = d[i] /\ y = d[j]
    BY <2>6, <2>7
  <2>9. s <= Larger(0, Smaller(x, b) - a) /\ t <= Larger(0, Smaller(y, b) - Larger(x, a)) /\ x <= y
    BY <2>5, <2>7, <2>8, <2>4
  <2>10. t + s <= Larger(0, Smaller(y, b) - a)
    BY <2>9 DEF Larger, Smaller
  <2>. QED BY <2>2, <2>6, <2>8, <2>10
<1>2. P(n)
  BY <1>1
<1>3. d[n] \in Int /\ SumOf(F, 1 .. n) \in Int
  <2>1. IsFiniteSet(1 .. n)
    BY FS_Interval
  <2>2. \A x \in 1 .. n : F[x] \in Int
    OBVIOUS
  <2>3. n \in 0 .. n
    OBVIOUS
  <2>. QED BY <2>1, <2>2, <2>3, SumType
<1>. HIDE DEF P
<1>4. SumOf(F, 1 .. n) <= Larger(0, Smaller(d[n], b) - a)
  BY <1>2 DEF P
<1>. QED BY <1>3, <1>4 DEF Larger, Smaller

-----------------------------------------------------------------------------
\* A position without a value adds nothing.
LEMMA SumZero ==
  ASSUME NEW S, IsFiniteSet(S), NEW F, \A x \in S : F[x] = 0
  PROVE  SumOf(F, S) = 0
<1>. DEFINE N == [x \in S |-> 0]
<1>1. \A x \in S : N[x] \in Int /\ N[x] = F[x]
  OBVIOUS
<1>2. {} \in SUBSET S
  OBVIOUS
<1>3. N = [x \in S |-> IF x \in {} THEN N[x] ELSE 0]
  OBVIOUS
<1>. HIDE DEF N
<1>4. SumOf(N, {}) = SumOf(N, S)
  BY <1>1, <1>2, <1>3, SumPart
<1>5. SumOf(N, S) = SumOf(F, S)
  BY <1>1, SumSame
<1>. QED BY <1>4, <1>5, SumEmpty

\* The total of nothing.
LEMMA TotalNothing == TypeOK => Total({}) = 0
<1>1. {} \in SUBSET OwedItems
  OBVIOUS
<1>. QED BY <1>1, TotalStep

\* A step that leaves the claims of a receipt alone leaves what it gives to positions.
LEMMA AllocKept ==
  ASSUME TypeOK, TypeOK', NEW p \in PayIds,
         \A c \in Charges : chargeAlloc'[c] = p <=> chargeAlloc[c] = p,
         \A v \in Vehicles : rentAlloc'[v].pay = p <=> rentAlloc[v].pay = p,
         \A v \in Vehicles : rentAlloc[v].pay = p => rentAlloc'[v] = rentAlloc[v]
  PROVE  AllocSum(p)' = AllocSum(p)
<1>1. PICK S \in SUBSET Charges : S = {}
  OBVIOUS
<1>2. PICK V \in SUBSET Vehicles : V = {}
  OBVIOUS
<1>3. AllocSum(p)' = AllocSum(p) + Total(S \cup V)
  BY <1>1, <1>2, Grows
<1>4. S \cup V = {}
  BY <1>1, <1>2
<1>5. AllocSum(p) \in Nat
  BY SumsTyped
<1>6. Total(S \cup V) = 0
  BY <1>4, TotalNothing
<1>. QED BY <1>3, <1>5, <1>6

\* A receipt that is not in force holds no position.
LEMMA AllocFree ==
  ASSUME IInv, NEW p \in PayIds, p \notin LivePayments
  PROVE  AllocSum(p) = 0
<1>1. \A c \in Charges : OfCharges(p)[c] = 0
  BY DEF IInv, ChargeClaimBacked, OfCharges, PayIds
<1>2. \A v \in Vehicles : OfVehicles(p)[v] = 0
  BY DEF IInv, RentClaimBacked, OfVehicles, PayIds
<1>3. SumOf(OfCharges(p), Charges) = 0
  BY <1>1, FiniteIds, SumZero
<1>4. SumOf(OfVehicles(p), Vehicles) = 0
  BY <1>2, FiniteIds, SumZero
<1>. QED BY <1>3, <1>4 DEF AllocSum

\* What settling items gives from receipt p.
LEMMA SettleGives ==
  ASSUME IInv, TypeOK', NEW take \in [OwedItems -> PayIds \cup {0}], SettleItems(take), NEW p \in PayIds
  PROVE  AllocSum(p)' = AllocSum(p) + Total({ it \in OwedItems : take[it] = p })
<1>1. PICK S \in SUBSET Charges : S = { c \in OwedCharges : take[c] = p }
  BY DEF OwedCharges, OpenCharges
<1>2. PICK V \in SUBSET Vehicles : V = { v \in OwedVehicles : take[v] = p }
  BY DEF OwedVehicles
<1>3. p # 0 /\ TypeOK
  BY DEF PayIds, IInv
<1>4. \A c \in OwedCharges : c \in Charges /\ chargeAlloc[c] = 0
  BY DEF OwedCharges, OpenCharges
<1>5. \A v \in OwedVehicles : v \in Vehicles /\ rentAlloc[v].pay = 0
  BY DEF OwedVehicles, IInv, RentClaimBacked
<1>6. \A c \in Charges : chargeAlloc'[c] = p <=> (c \in S \/ chargeAlloc[c] = p)
  BY <1>1, <1>3, <1>4 DEF SettleItems
<1>7. \A c \in S : chargeAlloc[c] # p
  BY <1>1, <1>3, <1>4
<1>8. \A v \in Vehicles : rentAlloc'[v] = IF v \in OwedVehicles /\ take[v] # 0 THEN RentClaim(take[v], v) ELSE rentAlloc[v]
  BY DEF SettleItems
<1>14. \A q, v : RentClaim(q, v).pay = q /\ RentClaim(q, v).amount = AccruedRent(v)
  BY DEF RentClaim
<1>15. \A v \in Vehicles : v \in V <=> (v \in OwedVehicles /\ take[v] = p)
  BY <1>2
<1>9. \A v \in Vehicles : rentAlloc'[v].pay = p <=> (v \in V \/ rentAlloc[v].pay = p)
  <2>. SUFFICES ASSUME NEW v \in Vehicles PROVE rentAlloc'[v].pay = p <=> (v \in V \/ rentAlloc[v].pay = p)
    OBVIOUS
  <2>1. CASE v \in OwedVehicles /\ take[v] # 0
    <3>1. rentAlloc'[v] = RentClaim(take[v], v)
      BY <1>8, <2>1
    <3>. QED BY <3>1, <2>1, <1>3, <1>5, <1>14, <1>15
  <2>2. CASE ~(v \in OwedVehicles /\ take[v] # 0)
    <3>1. rentAlloc'[v] = rentAlloc[v]
      BY <1>8, <2>2
    <3>. QED BY <3>1, <2>2, <1>3, <1>15
  <2>. QED BY <2>1, <2>2
<1>10. \A v \in V : rentAlloc[v].pay # p /\ rentAlloc'[v].amount = AccruedRent(v)
  <2>. SUFFICES ASSUME NEW v \in V PROVE rentAlloc[v].pay # p /\ rentAlloc'[v].amount = AccruedRent(v)
    OBVIOUS
  <2>1. v \in Vehicles /\ v \in OwedVehicles /\ take[v] = p
    BY <1>15
  <2>2. rentAlloc'[v] = RentClaim(take[v], v)
    BY <1>3, <1>8, <2>1
  <2>. QED BY <1>3, <1>5, <1>14, <2>1, <2>2
<1>11. \A v \in Vehicles : v \notin V /\ rentAlloc[v].pay = p => rentAlloc'[v].amount = rentAlloc[v].amount
  BY <1>3, <1>5, <1>8
<1>12. AllocSum(p)' = AllocSum(p) + Total(S \cup V)
  BY <1>3, <1>6, <1>7, <1>9, <1>10, <1>11, Grows
<1>13. S \cup V = { it \in OwedItems : take[it] = p }
  BY <1>1, <1>2 DEF OwedItems
<1>. QED BY <1>12, <1>13

\* A new receipt's row and number.
LEMMA InsertRow ==
  ASSUME TypeOK, NEW amount, NEW auto, NEW year, InsertPayment(amount, auto, year)
  PROVE  /\ nPay + 1 \in PayIds /\ nPay' = nPay + 1
         /\ nPay + 1 \notin LivePayments
         /\ LivePayments' = LivePayments \cup {nPay + 1}
         /\ \A p \in LivePayments : p \in PayIds /\ p # nPay + 1 /\ payment'[p] = payment[p]
         /\ payment'[nPay + 1].amount = amount /\ payment'[nPay + 1].auto = auto
<1>1. nPay \in Nat /\ nPay + 1 \in PayIds /\ nPay' = nPay + 1
  BY SettlementAssumption DEF InsertPayment, TypeOK, PayIds, SettlementAssumption
<1>2. payment' = [payment EXCEPT ![nPay + 1] = [amount |-> amount, auto |-> auto, year |-> year, reversed |-> FALSE]]
  BY DEF InsertPayment
<1>3. /\ payment'[nPay + 1] = [amount |-> amount, auto |-> auto, year |-> year, reversed |-> FALSE]
      /\ \A p \in PayIds : p # nPay + 1 => payment'[p] = payment[p]
  BY <1>1, <1>2 DEF TypeOK
<1>4. \A p \in PayIds : p <= nPay + 1 <=> (p <= nPay \/ p = nPay + 1)
  BY <1>1 DEF PayIds
<1>5. ~(nPay + 1 <= nPay)
  BY <1>1
<1>. QED BY <1>1, <1>3, <1>4, <1>5 DEF LivePayments

\* A reversal takes one receipt out of force and keeps every other one with its claims.
LEMMA ReversalRest ==
  ASSUME TypeOK, NEW p \in PayIds, Reverse(p), nPay' = nPay, chargeAlloc' = ReleaseCharges(p), rentAlloc' = ReleaseRent(p),
         NEW q \in LivePayments'
  PROVE  /\ q \in LivePayments /\ q # p /\ q \in PayIds /\ payment'[q] = payment[q]
         /\ \A c \in Charges : chargeAlloc'[c] = q <=> chargeAlloc[c] = q
         /\ \A v \in Vehicles : rentAlloc'[v].pay = q <=> rentAlloc[v].pay = q
         /\ \A v \in Vehicles : rentAlloc[v].pay = q => rentAlloc'[v] = rentAlloc[v]
<1>1. q \in LivePayments /\ q # p /\ q \in PayIds /\ q # 0
  BY ReverseLive DEF LivePayments, PayIds
<1>2. payment'[q] = payment[q]
  BY <1>1 DEF Reverse, TypeOK
<1>3. \A c \in Charges : chargeAlloc'[c] = q <=> chargeAlloc[c] = q
  BY <1>1 DEF ReleaseCharges
<1>4. \A v \in Vehicles : rentAlloc'[v] = IF rentAlloc[v].pay = p THEN NoAlloc ELSE rentAlloc[v]
  BY DEF ReleaseRent
<1>5. NoAlloc.pay = 0
  BY DEF NoAlloc
<1>. QED BY <1>1, <1>2, <1>3, <1>4, <1>5

-----------------------------------------------------------------------------
\* A vehicle that reads paid has money on its rent.
RentFlag == \A v \in Vehicles : vehPaid[v] => rentAlloc[v].pay # 0
\* A charge that stands alone and reads paid has money on it.
ChargeFlag == \A c \in Charges : vehicleOf[c] = NoVehicle /\ chargePaid[c] => chargeAlloc[c] # 0
\* A charge that does not exist is not paid.
Idle == \A c \in Charges : charge[c] # "live" => ~chargePaid[c]
\* A slider's receipt settles one charge that stands alone, or one vehicle with its bound charges, and it is spent.
AutoOwner(p) ==
    /\ \A v, w \in Vehicles : rentAlloc[v].pay = p /\ rentAlloc[w].pay = p => v = w
    /\ \A c \in Charges, v \in Vehicles : chargeAlloc[c] = p /\ rentAlloc[v].pay = p => vehicleOf[c] = v
    /\ \A c, d \in Charges : chargeAlloc[c] = p /\ chargeAlloc[d] = p /\ vehicleOf[c] = NoVehicle => c = d
AutoGood(p) == payment[p].auto => AutoOwner(p) /\ AllocSum(p) = payment[p].amount

FlagInv == RentFlag /\ ChargeFlag /\ Idle /\ \A p \in LivePayments : AutoGood(p)

\* The total of a set with one position more.
LEMMA TotalWith ==
  ASSUME TypeOK, NEW T \in SUBSET (Charges \cup Vehicles), NEW m \in Charges \cup Vehicles, m \notin T
  PROVE  Total(T \cup {m}) = OwedAmount(m) + Total(T) /\ Total(T) \in Int /\ OwedAmount(m) \in Int
<1>. DEFINE F == [x \in Charges \cup Vehicles |-> OwedAmount(x)]
            U == T \cup {m}
<1>1. \A v \in Vehicles : AccruedRent(v) \in Int
  <2>. SUFFICES ASSUME NEW v \in Vehicles PROVE AccruedRent(v) \in Int
    OBVIOUS
  <2>1. DayRate[v] \in Int /\ RentedDays(v, today) \in Int
    BY SettlementAssumption DEF SettlementAssumption, TypeOK, RentedDays, Smaller, Days
  <2>. QED BY <2>1 DEF AccruedRent
<1>2. \A x \in Charges \cup Vehicles : F[x] = OwedAmount(x) /\ F[x] \in Int
  BY <1>1, SettlementAssumption DEF SettlementAssumption, OwedAmount
<1>3. IsFiniteSet(T) /\ IsFiniteSet(U)
  BY FiniteIds, FS_Union, FS_Subset, FS_Singleton
<1>4. m \in U /\ U \ {m} = T /\ \A x \in U : F[x] \in Int
  BY <1>2
<1>. HIDE DEF F, U
<1>5. SumOf(F, U) = F[m] + SumOf(F, T)
  BY <1>3, <1>4, SumStep
<1>6. Total(T) = SumOf(F, T)
  BY <1>2, <1>3, TotalIs
<1>7. \A x \in U : F[x] = OwedAmount(x)
  BY <1>2 DEF U
<1>8. Total(U) = SumOf(F, U)
  BY <1>3, <1>7, TotalIs
<1>9. SumOf(F, T) \in Int
  <2>1. \A x \in T : F[x] \in Int
    BY <1>2
  <2>. QED BY <1>3, <2>1, SumType
<1>. QED BY <1>2, <1>5, <1>6, <1>8, <1>9 DEF U

\* A slider receipt whose claims rest stays what it is.
LEMMA AutoRests ==
  ASSUME TypeOK, TypeOK', NEW p \in PayIds, AutoGood(p), payment'[p] = payment[p],
         \A c \in Charges : chargeAlloc'[c] = p <=> chargeAlloc[c] = p,
         \A v \in Vehicles : rentAlloc'[v].pay = p <=> rentAlloc[v].pay = p,
         \A v \in Vehicles : rentAlloc[v].pay = p => rentAlloc'[v] = rentAlloc[v],
         \A c \in Charges : chargeAlloc[c] = p => vehicleOf'[c] = vehicleOf[c]
  PROVE  AutoGood(p)'
<1>1. AllocSum(p)' = AllocSum(p)
  BY AllocKept
<1>2. ASSUME AutoOwner(p) PROVE AutoOwner(p)'
  BY <1>2 DEF AutoOwner
<1>. QED BY <1>1, <1>2 DEF AutoGood

\* No claim, flag or receipt moves.
LEMMA FlagsRest ==
  ASSUME IInv, IInv', FlagInv, \A c \in Charges : charge'[c] = charge[c] \/ charge'[c] = "live" \/ ~chargePaid'[c],
         \A c \in Charges : chargePaid'[c] => chargePaid[c],
         \A c \in Charges : vehicleOf'[c] = vehicleOf[c] \/ (~chargePaid'[c] /\ chargeAlloc[c] = 0),
         vehPaid' = vehPaid, chargeAlloc' = chargeAlloc, rentAlloc' = rentAlloc,
         \A p \in LivePayments' : payment'[p].auto => p \in LivePayments /\ payment'[p] = payment[p]
  PROVE  FlagInv'
<1>1. RentFlag'
  BY DEF FlagInv, RentFlag
<1>2. ChargeFlag'
  BY DEF FlagInv, ChargeFlag
<1>3. Idle'
  BY DEF FlagInv, Idle
<1>4. ASSUME NEW p \in LivePayments' PROVE AutoGood(p)'
  <2>1. CASE payment'[p].auto
    <3>1. p \in LivePayments /\ payment'[p] = payment[p] /\ p \in PayIds /\ p # 0 /\ TypeOK /\ TypeOK' /\ AutoGood(p)
      BY <2>1 DEF LivePayments, PayIds, IInv, FlagInv
    <3>2. \A c \in Charges : chargeAlloc[c] = p => vehicleOf'[c] = vehicleOf[c]
      BY <3>1
    <3>. QED BY <3>1, <3>2, AutoRests
  <2>2. CASE ~payment'[p].auto
    BY <2>2 DEF AutoGood
  <2>. QED BY <2>1, <2>2
<1>. QED BY <1>1, <1>2, <1>3, <1>4 DEF FlagInv

\* Days, tax years, follow-ups and invoices raise no flag.
LEMMA ClockFlags ==
  ASSUME IInv, IInv', FlagInv, ClockNext \/ FollowNext \/ InvoiceNext
  PROVE  FlagInv'
<1>1. UNCHANGED <<chargeVars, payVars, vehPaid>>
  BY DEF ClockNext, NextDay, LockTaxYear, UnlockTaxYear, FollowNext, SweepArchive, LoseFollowUps, AutoArchive, InvoiceNext, CreateInvoice, CancelInvoice
<1>2. LivePayments' = LivePayments
  BY <1>1 DEF LivePayments
<1>3. /\ \A d \in Charges : charge'[d] = charge[d] /\ vehicleOf'[d] = vehicleOf[d] /\ chargePaid'[d] = chargePaid[d]
      /\ \A p \in LivePayments' : payment'[p].auto => p \in LivePayments /\ payment'[p] = payment[p]
  BY <1>1, <1>2
<1>. QED BY <1>1, <1>3, FlagsRest

\* A Storno of p: its claims go, and the flags they stood for.
LEMMA ReversalFlags ==
  ASSUME IInv, IInv', FlagInv, NEW p \in PayIds, Reverse(p), nPay' = nPay, chargeAlloc' = ReleaseCharges(p), rentAlloc' = ReleaseRent(p),
         charge' = charge, vehicleOf' = vehicleOf,
         \A v \in Vehicles : vehPaid'[v] => vehPaid[v] /\ rentAlloc[v].pay # p,
         \A c \in Charges : chargePaid'[c] => chargePaid[c],
         \A c \in Charges : vehicleOf[c] = NoVehicle /\ chargeAlloc[c] = p => ~chargePaid'[c]
  PROVE  FlagInv'
<1>1. RentFlag'
  BY DEF FlagInv, RentFlag, ReleaseRent
<1>2. ChargeFlag'
  BY DEF FlagInv, ChargeFlag, ReleaseCharges
<1>3. Idle'
  BY DEF FlagInv, Idle
<1>4. ASSUME NEW q \in LivePayments' PROVE AutoGood(q)'
  <2>1. TypeOK /\ TypeOK'
    BY DEF IInv
  <2>2. /\ q \in LivePayments /\ q # p /\ q \in PayIds /\ payment'[q] = payment[q]
        /\ \A c \in Charges : chargeAlloc'[c] = q <=> chargeAlloc[c] = q
        /\ \A v \in Vehicles : rentAlloc'[v].pay = q <=> rentAlloc[v].pay = q
        /\ \A v \in Vehicles : rentAlloc[v].pay = q => rentAlloc'[v] = rentAlloc[v]
    BY <2>1, ReversalRest
  <2>3. AutoGood(q)
    BY <2>2 DEF FlagInv
  <2>. QED BY <2>1, <2>2, <2>3, AutoRests
<1>. QED BY <1>1, <1>2, <1>3, <1>4 DEF FlagInv

\* A new receipt that takes free positions: the older ones keep theirs.
LEMMA InsertRests ==
  ASSUME IInv, IInv', FlagInv, NEW amount, NEW auto, NEW year, InsertPayment(amount, auto, year), vehicleOf' = vehicleOf,
         \A c \in Charges : chargeAlloc'[c] = chargeAlloc[c] \/ (chargeAlloc[c] = 0 /\ chargeAlloc'[c] = nPay + 1),
         \A v \in Vehicles : rentAlloc'[v] = rentAlloc[v] \/ (rentAlloc[v].pay = 0 /\ rentAlloc'[v].pay = nPay + 1),
         NEW p \in LivePayments', p # nPay + 1
  PROVE  AutoGood(p)'
<1>1. TypeOK /\ TypeOK'
  BY DEF IInv
<1>2. p \in LivePayments /\ p \in PayIds /\ p # 0 /\ payment'[p] = payment[p]
  BY <1>1, InsertRow DEF PayIds
<1>3. \A c \in Charges : chargeAlloc'[c] = p <=> chargeAlloc[c] = p
  BY <1>2
<1>4. \A v \in Vehicles : rentAlloc'[v].pay = p <=> rentAlloc[v].pay = p
  BY <1>2
<1>5. \A v \in Vehicles : rentAlloc[v].pay = p => rentAlloc'[v] = rentAlloc[v]
  BY <1>2
<1>6. AutoGood(p)
  BY <1>2 DEF FlagInv
<1>. QED BY <1>1, <1>2, <1>3, <1>4, <1>5, <1>6, AutoRests

\* Flags and slider receipts under the steps of charges.
LEMMA ChargeFlags ==
  ASSUME IInv, IInv', FlagInv, ChargeNext
  PROVE  FlagInv'
<1>. PICK c \in Charges :
       \/ \E v \in Vehicles \cup {NoVehicle} : CreateCharge(c, v) \/ UpdateCharge(c, v)
       \/ DeleteCharge(c) \/ SetChargePaid(c) \/ SetChargeOpen(c)
  BY DEF ChargeNext
<1>0. TypeOK /\ TypeOK'
  BY DEF IInv
<1>1. \A d \in Charges : chargeAlloc[d] # 0 => charge[d] = "live" /\ chargePaid[d] /\ ~payment[chargeAlloc[d]].reversed
  BY DEF IInv, ChargeClaimBacked, LivePayments
<1>2. ASSUME NEW v \in Vehicles \cup {NoVehicle}, CreateCharge(c, v) PROVE FlagInv'
  <2>1. UNCHANGED <<payVars, vehPaid, chargePaid>> /\ charge[c] = "none"
    BY <1>2 DEF CreateCharge
  <2>2. \A d \in Charges : d # c => charge'[d] = charge[d] /\ vehicleOf'[d] = vehicleOf[d]
    BY <1>0, <1>2 DEF CreateCharge, TypeOK
  <2>3. charge'[c] = "live"
    BY <1>0, <1>2 DEF CreateCharge, TypeOK
  <2>4. ~chargePaid[c] /\ chargeAlloc[c] = 0
    BY <1>1, <2>1 DEF FlagInv, Idle
  <2>5. LivePayments' = LivePayments
    BY <2>1 DEF LivePayments
  <2>6. /\ \A d \in Charges : charge'[d] = charge[d] \/ charge'[d] = "live" \/ ~chargePaid'[d]
        /\ \A d \in Charges : chargePaid'[d] => chargePaid[d]
        /\ \A d \in Charges : vehicleOf'[d] = vehicleOf[d] \/ (~chargePaid'[d] /\ chargeAlloc[d] = 0)
    BY <2>1, <2>2, <2>3, <2>4
  <2>7. \A p \in LivePayments' : payment'[p].auto => p \in LivePayments /\ payment'[p] = payment[p]
    BY <2>1, <2>5
  <2>. QED BY <2>1, <2>6, <2>7, FlagsRest
<1>3. ASSUME NEW v \in Vehicles \cup {NoVehicle}, UpdateCharge(c, v) PROVE FlagInv'
  <2>1. UNCHANGED <<payVars, vehPaid, charge>> /\ chargeAlloc[c] = 0
    BY <1>1, <1>3 DEF UpdateCharge, FinanciallyLocked
  <2>2. \A d \in Charges : d # c => chargePaid'[d] = chargePaid[d] /\ vehicleOf'[d] = vehicleOf[d]
    BY <1>0, <1>3 DEF UpdateCharge, TypeOK
  <2>3. ~chargePaid'[c]
    BY <1>0, <1>3 DEF UpdateCharge, TypeOK
  <2>5. LivePayments' = LivePayments
    BY <2>1 DEF LivePayments
  <2>6. /\ \A d \in Charges : charge'[d] = charge[d] \/ charge'[d] = "live" \/ ~chargePaid'[d]
        /\ \A d \in Charges : chargePaid'[d] => chargePaid[d]
        /\ \A d \in Charges : vehicleOf'[d] = vehicleOf[d] \/ (~chargePaid'[d] /\ chargeAlloc[d] = 0)
    BY <2>1, <2>2, <2>3
  <2>7. \A p \in LivePayments' : payment'[p].auto => p \in LivePayments /\ payment'[p] = payment[p]
    BY <2>1, <2>5
  <2>. QED BY <2>1, <2>6, <2>7, FlagsRest
<1>4. CASE DeleteCharge(c)
  <2>1. UNCHANGED <<payVars, vehPaid>> /\ chargeAlloc[c] = 0
    BY <1>1, <1>4 DEF DeleteCharge, FinanciallyLocked
  <2>2. \A d \in Charges : d # c => chargePaid'[d] = chargePaid[d] /\ vehicleOf'[d] = vehicleOf[d] /\ charge'[d] = charge[d]
    BY <1>0, <1>4 DEF DeleteCharge, TypeOK
  <2>3. ~chargePaid'[c]
    BY <1>0, <1>4 DEF DeleteCharge, TypeOK
  <2>5. LivePayments' = LivePayments
    BY <2>1 DEF LivePayments
  <2>6. /\ \A d \in Charges : charge'[d] = charge[d] \/ charge'[d] = "live" \/ ~chargePaid'[d]
        /\ \A d \in Charges : chargePaid'[d] => chargePaid[d]
        /\ \A d \in Charges : vehicleOf'[d] = vehicleOf[d] \/ (~chargePaid'[d] /\ chargeAlloc[d] = 0)
    BY <2>1, <2>2, <2>3
  <2>7. \A p \in LivePayments' : payment'[p].auto => p \in LivePayments /\ payment'[p] = payment[p]
    BY <2>1, <2>5
  <2>. QED BY <2>1, <2>6, <2>7, FlagsRest
<1>5. CASE SetChargePaid(c)
  <2>1. c \in OwedCharges /\ chargeAlloc[c] = 0
    BY <1>1, <1>5 DEF SetChargePaid, OwedCharges, OpenCharges
  <2>2. InsertPayment(Price[c], TRUE, YearOf(today)) /\ UNCHANGED <<charge, vehicleOf, vehPaid, rentAlloc>> /\ vehicleOf[c] = NoVehicle /\ charge[c] = "live"
    BY <1>5, <2>1 DEF SetChargePaid
  <2>3. \A d \in Charges : chargeAlloc'[d] = IF d = c THEN nPay + 1 ELSE chargeAlloc[d]
    BY <1>0, <1>5, <2>1 DEF SetChargePaid, TypeOK
  <2>4. \A d \in Charges : d # c => chargePaid'[d] = chargePaid[d]
    BY <1>0, <1>5 DEF SetChargePaid, TypeOK
  <2>5. PICK n : n = nPay + 1
    OBVIOUS
  <2>6. n \in PayIds /\ n # 0 /\ n \notin LivePayments /\ payment'[n].amount = Price[c]
    <3>1. n \in PayIds /\ n \notin LivePayments /\ payment'[n].amount = Price[c]
      BY <1>0, <2>2, <2>5, InsertRow
    <3>. QED BY <3>1 DEF PayIds
  <2>7. RentFlag' /\ ChargeFlag' /\ Idle'
    <3>1. RentFlag'
      BY <2>2 DEF FlagInv, RentFlag
    <3>2. ChargeFlag'
      BY <2>2, <2>3, <2>4, <2>5, <2>6 DEF FlagInv, ChargeFlag
    <3>3. Idle'
      BY <2>2, <2>4 DEF FlagInv, Idle
    <3>. QED BY <3>1, <3>2, <3>3
  <2>8. \A d \in Charges : chargeAlloc[d] # n
    BY <2>6 DEF IInv, ChargeClaimBacked
  <2>9. \A v \in Vehicles : rentAlloc[v].pay # n
    BY <2>6 DEF IInv, RentClaimBacked
  <2>10. AutoOwner(n)'
    BY <2>2, <2>3, <2>5, <2>8, <2>9 DEF AutoOwner
  <2>11. AllocSum(n)' = Price[c]
    <3>1. PICK S \in SUBSET Charges : S = {c}
      OBVIOUS
    <3>2. PICK V \in SUBSET Vehicles : V = {}
      OBVIOUS
    <3>3. AllocSum(n)' = AllocSum(n) + Total(S \cup V)
      <4>1. \A d \in Charges : chargeAlloc'[d] = n <=> (d \in S \/ chargeAlloc[d] = n)
        BY <2>3, <2>5, <2>8, <3>1
      <4>2. \A d \in S : chargeAlloc[d] # n
        BY <2>8
      <4>3. \A v \in Vehicles : rentAlloc'[v].pay = n <=> (v \in V \/ rentAlloc[v].pay = n)
        BY <2>2, <3>2
      <4>4. \A v \in V : rentAlloc[v].pay # n /\ rentAlloc'[v].amount = AccruedRent(v)
        BY <3>2
      <4>5. \A v \in Vehicles : v \notin V /\ rentAlloc[v].pay = n => rentAlloc'[v].amount = rentAlloc[v].amount
        BY <2>9
      <4>. QED BY <1>0, <2>6, <4>1, <4>2, <4>3, <4>4, <4>5, Grows
    <3>4. AllocSum(n) = 0
      BY <2>6, AllocFree
    <3>10. PICK T \in SUBSET (Charges \cup Vehicles) : T = {}
      OBVIOUS
    <3>5. S \cup V = T \cup {c} /\ c \notin T
      BY <3>1, <3>2, <3>10
    <3>6. Total(T \cup {c}) = OwedAmount(c) + Total(T) /\ OwedAmount(c) \in Int
      BY <1>0, <3>5, TotalWith
    <3>7. OwedAmount(c) = Price[c]
      BY DEF OwedAmount
    <3>9. Total(T) = 0
      BY <1>0, <3>10, TotalNothing
    <3>8. Total(S \cup V) = Price[c] /\ Price[c] \in Int
      BY <3>5, <3>6, <3>7, <3>9
    <3>. QED BY <3>3, <3>4, <3>8
  <2>12. \A p \in LivePayments' : AutoGood(p)'
    <3>. SUFFICES ASSUME NEW p \in LivePayments' PROVE AutoGood(p)'
      OBVIOUS
    <3>1. CASE p = n
      BY <2>6, <2>10, <2>11, <3>1 DEF AutoGood
    <3>2. CASE p # n
      <4>1. \A d \in Charges : chargeAlloc'[d] = chargeAlloc[d] \/ (chargeAlloc[d] = 0 /\ chargeAlloc'[d] = nPay + 1)
        BY <2>1, <2>3
      <4>. QED BY <2>2, <2>5, <3>2, <4>1, InsertRests
    <3>. QED BY <3>1, <3>2
  <2>. QED BY <2>7, <2>12 DEF FlagInv
<1>6. CASE SetChargeOpen(c)
  <2>1. PICK p : p = chargeAlloc[c]
    OBVIOUS
  <2>2. p # 0 /\ p \in PayIds /\ p \in LivePayments /\ vehicleOf[c] = NoVehicle
    BY <1>0, <1>6, <2>1 DEF SetChargeOpen, FlagInv, ChargeFlag, TypeOK, IInv, ChargeClaimBacked
  <2>3. /\ payment[p].auto /\ Reverse(p) /\ chargeAlloc' = ReleaseCharges(p) /\ rentAlloc' = ReleaseRent(p)
        /\ UNCHANGED <<charge, vehicleOf, vehPaid, nPay>> /\ chargePaid' = [chargePaid EXCEPT ![c] = FALSE]
    BY <1>6, <2>1, <2>2 DEF SetChargeOpen
  <2>4. AutoOwner(p)
    BY <2>2, <2>3 DEF FlagInv, AutoGood
  <2>5. \A v \in Vehicles : rentAlloc[v].pay # p
    BY <2>1, <2>2, <2>4, SettlementAssumption DEF AutoOwner, SettlementAssumption
  <2>6. \A d \in Charges : chargeAlloc[d] = p /\ vehicleOf[d] = NoVehicle => d = c
    BY <2>1, <2>2, <2>4 DEF AutoOwner
  <2>7. ~chargePaid'[c] /\ \A d \in Charges : d # c => chargePaid'[d] = chargePaid[d]
    BY <1>0, <2>3 DEF TypeOK
  <2>. QED BY <2>2, <2>3, <2>5, <2>6, <2>7, ReversalFlags
<1>. QED BY <1>2, <1>3, <1>4, <1>5, <1>6

-----------------------------------------------------------------------------
\* Flags and slider receipts under the steps of vehicles.
LEMMA VehicleFlags ==
  ASSUME IInv, IInv', FlagInv, VehicleNext
  PROVE  FlagInv'
<1>. PICK v \in Vehicles :
       \/ MarkPaid(v) \/ MarkOpen(v) \/ MarkAgain(v) \/ ReactivateVehicle(v)
       \/ \E s \in {"stored", "collected", "cancelled"}, d \in Days \cup {0} : ChangeStatus(v, s, d)
  BY DEF VehicleNext
<1>0. TypeOK /\ TypeOK'
  BY DEF IInv
<1>1. CASE MarkPaid(v)
  <2>1. rentAlloc[v].pay = 0
    BY <1>1 DEF MarkPaid, IInv, RentClaimBacked
  <2>2. PICK n : n = nPay + 1
    OBVIOUS
  <2>3. PICK S \in SUBSET Charges : S = { c \in BoundCharges(v) : chargeAlloc[c] = 0 }
    BY DEF BoundCharges
  <2>4. /\ InsertPayment(AccruedRent(v) + Total(S), TRUE, YearOf(today))
        /\ rentAlloc' = [rentAlloc EXCEPT ![v] = RentClaim(n, v)]
        /\ chargeAlloc' = [c \in Charges |-> IF c \in S THEN n ELSE chargeAlloc[c]]
        /\ chargePaid' = [c \in Charges |-> chargePaid[c] \/ c \in S]
        /\ vehPaid' = [vehPaid EXCEPT ![v] = TRUE]
        /\ UNCHANGED <<charge, vehicleOf>>
    BY <1>1, <2>1, <2>2, <2>3 DEF MarkPaid
  <2>5. \A c \in S : charge[c] = "live" /\ vehicleOf[c] = v /\ vehicleOf[c] # NoVehicle /\ chargeAlloc[c] = 0
    BY <2>3, SettlementAssumption DEF BoundCharges, SettlementAssumption
  <2>6. n \in PayIds /\ n # 0 /\ n \notin LivePayments /\ payment'[n].amount = AccruedRent(v) + Total(S)
    <3>1. n \in PayIds /\ n \notin LivePayments /\ payment'[n].amount = AccruedRent(v) + Total(S)
      BY <1>0, <2>4, <2>2, InsertRow
    <3>. QED BY <3>1 DEF PayIds
  <2>7. \A w \in Vehicles : w # v => rentAlloc'[w] = rentAlloc[w] /\ vehPaid'[w] = vehPaid[w]
    BY <1>0, <2>4 DEF TypeOK
  <2>8. rentAlloc'[v].pay = n /\ rentAlloc'[v].amount = AccruedRent(v)
    <3>1. rentAlloc'[v] = RentClaim(n, v)
      BY <1>0, <2>4 DEF TypeOK
    <3>. QED BY <3>1 DEF RentClaim
  <2>9. \A c \in Charges : chargeAlloc[c] # n
    BY <2>6 DEF IInv, ChargeClaimBacked
  <2>10. \A w \in Vehicles : rentAlloc[w].pay # n
    BY <2>6 DEF IInv, RentClaimBacked
  <2>11. RentFlag'
    BY <2>6, <2>7, <2>8 DEF FlagInv, RentFlag
  <2>12. ChargeFlag'
    BY <2>4, <2>5, <2>6 DEF FlagInv, ChargeFlag
  <2>13. Idle'
    BY <2>4, <2>5 DEF FlagInv, Idle
  <2>14. AutoOwner(n)'
    <3>1. \A w \in Vehicles : rentAlloc'[w].pay = n <=> w = v
      BY <2>7, <2>8, <2>10
    <3>2. \A c \in Charges : chargeAlloc'[c] = n <=> c \in S
      BY <2>4, <2>9
    <3>3. \A c \in S : vehicleOf'[c] = v /\ vehicleOf'[c] # NoVehicle
      BY <2>4, <2>5
    <3>. QED BY <3>1, <3>2, <3>3 DEF AutoOwner
  <2>15. AllocSum(n)' = AccruedRent(v) + Total(S)
    <3>1. PICK V \in SUBSET Vehicles : V = {v}
      OBVIOUS
    <3>2. \A c \in Charges : chargeAlloc'[c] = n <=> (c \in S \/ chargeAlloc[c] = n)
      BY <2>4
    <3>3. \A w \in Vehicles : rentAlloc'[w].pay = n <=> (w \in V \/ rentAlloc[w].pay = n)
      BY <2>7, <2>8, <3>1
    <3>4. \A w \in V : rentAlloc[w].pay # n /\ rentAlloc'[w].amount = AccruedRent(w)
      BY <2>8, <2>10, <3>1
    <3>5. AllocSum(n)' = AllocSum(n) + Total(S \cup V)
      BY <1>0, <2>6, <2>9, <2>10, <3>2, <3>3, <3>4, Grows
    <3>6. AllocSum(n) = 0
      BY <2>6, AllocFree
    <3>7. S \cup V = S \cup {v} /\ v \notin S /\ S \in SUBSET (Charges \cup Vehicles)
      BY <3>1, SettlementAssumption DEF SettlementAssumption
    <3>8. Total(S \cup {v}) = OwedAmount(v) + Total(S) /\ Total(S) \in Int /\ OwedAmount(v) \in Int
      BY <1>0, <3>7, TotalWith
    <3>9. OwedAmount(v) = AccruedRent(v)
      BY SettlementAssumption DEF OwedAmount, SettlementAssumption
    <3>10. Total(S \cup V) = AccruedRent(v) + Total(S) /\ AccruedRent(v) \in Int /\ Total(S) \in Int
      BY <3>7, <3>8, <3>9
    <3>. QED BY <3>5, <3>6, <3>10
  <2>16. \A p \in LivePayments' : AutoGood(p)'
    <3>. SUFFICES ASSUME NEW p \in LivePayments' PROVE AutoGood(p)'
      OBVIOUS
    <3>1. CASE p = n
      BY <2>6, <2>14, <2>15, <3>1 DEF AutoGood
    <3>2. CASE p # n
      <4>1. \A d \in Charges : chargeAlloc'[d] = chargeAlloc[d] \/ (chargeAlloc[d] = 0 /\ chargeAlloc'[d] = nPay + 1)
        BY <2>2, <2>4, <2>5
      <4>2. \A w \in Vehicles : rentAlloc'[w] = rentAlloc[w] \/ (rentAlloc[w].pay = 0 /\ rentAlloc'[w].pay = nPay + 1)
        BY <2>1, <2>2, <2>7, <2>8
      <4>. QED BY <2>2, <2>4, <3>2, <4>1, <4>2, InsertRests
    <3>. QED BY <3>1, <3>2
  <2>. QED BY <2>11, <2>12, <2>13, <2>16 DEF FlagInv
<1>2. CASE MarkOpen(v)
  <2>1. PICK p : p = rentAlloc[v].pay
    OBVIOUS
  <2>2. p # 0 /\ p \in PayIds /\ p \in LivePayments
    BY <1>0, <1>2, <2>1 DEF MarkOpen, FlagInv, RentFlag, TypeOK, IInv, RentClaimBacked
  <2>3. /\ payment[p].auto /\ Reverse(p) /\ chargeAlloc' = ReleaseCharges(p) /\ rentAlloc' = ReleaseRent(p)
        /\ UNCHANGED <<charge, vehicleOf, nPay>> /\ vehPaid' = [vehPaid EXCEPT ![v] = FALSE]
        /\ chargePaid' = [c \in Charges |-> chargePaid[c] /\ ~(vehicleOf[c] = v /\ chargeAlloc[c] = p)]
    BY <1>2, <2>1, <2>2 DEF MarkOpen
  <2>4. AutoOwner(p)
    BY <2>2, <2>3 DEF FlagInv, AutoGood
  <2>5. \A c \in Charges : ~(vehicleOf[c] = NoVehicle /\ chargeAlloc[c] = p)
    BY <2>1, <2>4, SettlementAssumption DEF AutoOwner, SettlementAssumption
  <2>6. \A w \in Vehicles : rentAlloc[w].pay = p => w = v
    BY <2>1, <2>4 DEF AutoOwner
  <2>7. ~vehPaid'[v] /\ \A w \in Vehicles : w # v => vehPaid'[w] = vehPaid[w]
    BY <1>0, <2>3 DEF TypeOK
  <2>8. \A w \in Vehicles : vehPaid'[w] => vehPaid[w] /\ rentAlloc[w].pay # p
    BY <2>6, <2>7
  <2>9. \A c \in Charges : chargePaid'[c] => chargePaid[c]
    BY <2>3
  <2>. QED BY <2>2, <2>3, <2>5, <2>8, <2>9, ReversalFlags
<1>3. CASE \/ MarkAgain(v) \/ ReactivateVehicle(v)
           \/ \E s \in {"stored", "collected", "cancelled"}, d \in Days \cup {0} : ChangeStatus(v, s, d)
  <2>1. UNCHANGED <<chargeVars, payVars, vehPaid>>
    BY <1>3 DEF MarkAgain, ReactivateVehicle, ChangeStatus
  <2>2. LivePayments' = LivePayments
    BY <2>1 DEF LivePayments
  <2>3. /\ \A d \in Charges : charge'[d] = charge[d] /\ vehicleOf'[d] = vehicleOf[d] /\ chargePaid'[d] = chargePaid[d]
        /\ \A p \in LivePayments' : payment'[p].auto => p \in LivePayments /\ payment'[p] = payment[p]
    BY <2>1, <2>2
  <2>. QED BY <2>1, <2>3, FlagsRest
<1>. QED BY <1>1, <1>2, <1>3

\* Settling items raises the flags of what it claims.
LEMMA SettleFlags ==
  ASSUME IInv, FlagInv, NEW take, SettleItems(take), charge' = charge, vehicleOf' = vehicleOf
  PROVE  /\ RentFlag' /\ ChargeFlag' /\ Idle'
         /\ \A c \in Charges : chargeAlloc'[c] = chargeAlloc[c] \/ (chargeAlloc[c] = 0 /\ c \in OwedItems /\ chargeAlloc'[c] = take[c] /\ take[c] # 0)
         /\ \A v \in Vehicles : rentAlloc'[v] = rentAlloc[v] \/ (rentAlloc[v].pay = 0 /\ v \in OwedItems /\ rentAlloc'[v].pay = take[v] /\ take[v] # 0)
<1>1. \A c \in OwedCharges : c \in Charges /\ c \in OwedItems /\ chargeAlloc[c] = 0 /\ charge[c] = "live"
  BY DEF OwedCharges, OpenCharges, OwedItems
<1>2. \A v \in OwedVehicles : v \in Vehicles /\ v \in OwedItems /\ rentAlloc[v].pay = 0
  BY DEF OwedVehicles, OwedItems, IInv, RentClaimBacked
<1>3. \A c \in Charges : /\ chargeAlloc'[c] = IF c \in OwedCharges /\ take[c] # 0 THEN take[c] ELSE chargeAlloc[c]
                         /\ chargePaid'[c] = (chargePaid[c] \/ (c \in OwedCharges /\ take[c] # 0))
  BY DEF SettleItems
<1>4. \A v \in Vehicles : /\ rentAlloc'[v] = IF v \in OwedVehicles /\ take[v] # 0 THEN RentClaim(take[v], v) ELSE rentAlloc[v]
                          /\ vehPaid'[v] = (vehPaid[v] \/ (v \in OwedVehicles /\ take[v] # 0))
  BY DEF SettleItems
<1>5. \A q, v : RentClaim(q, v).pay = q
  BY DEF RentClaim
<1>6. RentFlag'
  <2>. SUFFICES ASSUME NEW v \in Vehicles, vehPaid'[v] PROVE rentAlloc'[v].pay # 0
    BY DEF RentFlag
  <2>1. CASE v \in OwedVehicles /\ take[v] # 0
    BY <1>4, <1>5, <2>1
  <2>2. CASE ~(v \in OwedVehicles /\ take[v] # 0)
    BY <1>4, <2>2 DEF FlagInv, RentFlag
  <2>. QED BY <2>1, <2>2
<1>7. ChargeFlag'
  BY <1>3 DEF FlagInv, ChargeFlag
<1>8. Idle'
  BY <1>1, <1>3 DEF FlagInv, Idle
<1>9. \A c \in Charges : chargeAlloc'[c] = chargeAlloc[c] \/ (chargeAlloc[c] = 0 /\ c \in OwedItems /\ chargeAlloc'[c] = take[c] /\ take[c] # 0)
  BY <1>1, <1>3
<1>10. \A v \in Vehicles : rentAlloc'[v] = rentAlloc[v] \/ (rentAlloc[v].pay = 0 /\ v \in OwedItems /\ rentAlloc'[v].pay = take[v] /\ take[v] # 0)
  <2>. SUFFICES ASSUME NEW v \in Vehicles, v \in OwedVehicles, take[v] # 0
                PROVE rentAlloc[v].pay = 0 /\ v \in OwedItems /\ rentAlloc'[v].pay = take[v] /\ take[v] # 0
    BY <1>4
  <2>1. rentAlloc'[v] = RentClaim(take[v], v)
    BY <1>4
  <2>. QED BY <1>2, <1>5, <2>1
<1>. QED BY <1>6, <1>7, <1>8, <1>9, <1>10

\* Flags and slider receipts under receipts, Guthaben and Storno.
LEMMA PaymentFlags ==
  ASSUME IInv, IInv', FlagInv, PaymentNext
  PROVE  FlagInv'
<1>0. TypeOK /\ TypeOK'
  BY DEF IInv
<1>1. ASSUME NEW amount \in Amounts, NEW year \in Years, NEW items \in SUBSET OwedItems, CreatePayment(amount, items, year)
      PROVE  FlagInv'
  <2>1. PICK take : take = [it \in OwedItems |-> IF it \in items THEN nPay + 1 ELSE 0]
    OBVIOUS
  <2>2. SettleItems(take) /\ InsertPayment(amount, FALSE, year) /\ UNCHANGED <<charge, vehicleOf>>
    BY <1>1, <2>1 DEF CreatePayment
  <2>3. \A it \in OwedItems : take[it] # 0 => take[it] = nPay + 1
    BY <2>1
  <2>4. /\ RentFlag' /\ ChargeFlag' /\ Idle'
        /\ \A c \in Charges : chargeAlloc'[c] = chargeAlloc[c] \/ (chargeAlloc[c] = 0 /\ chargeAlloc'[c] = nPay + 1)
        /\ \A v \in Vehicles : rentAlloc'[v] = rentAlloc[v] \/ (rentAlloc[v].pay = 0 /\ rentAlloc'[v].pay = nPay + 1)
    BY <2>2, <2>3, SettleFlags
  <2>5. ~payment'[nPay + 1].auto
    BY <1>0, <2>2, InsertRow
  <2>6. ASSUME NEW p \in LivePayments' PROVE AutoGood(p)'
    <3>1. CASE p = nPay + 1
      BY <2>5, <3>1 DEF AutoGood
    <3>2. CASE p # nPay + 1
      BY <2>2, <2>4, <3>2, InsertRests
    <3>. QED BY <3>1, <3>2
  <2>. QED BY <2>4, <2>6 DEF FlagInv
<1>2. ASSUME NEW amount \in Amounts, NEW year \in Years, NEW give \in [OpenInvoices -> Amounts \cup {0}], PayInvoices(amount, year, give)
      PROVE  FlagInv'
  <2>1. InsertPayment(amount, FALSE, year) /\ UNCHANGED <<chargeVars, vehicleVars, chargeAlloc, rentAlloc>>
    BY <1>2 DEF PayInvoices
  <2>2. \A p \in LivePayments' : payment'[p].auto => p \in LivePayments /\ payment'[p] = payment[p]
    BY <1>0, <2>1, InsertRow
  <2>3. \A d \in Charges : charge'[d] = charge[d] /\ vehicleOf'[d] = vehicleOf[d] /\ chargePaid'[d] = chargePaid[d]
    BY <2>1
  <2>. QED BY <2>1, <2>2, <2>3, FlagsRest
<1>3. ASSUME NEW rank \in Injection(OwedItems, 1 .. Cardinality(OwedItems)), NEW take \in [OwedItems -> PayIds \cup {0}], ApplyCredit(rank, take)
      PROVE  FlagInv'
  <2>1. SettleItems(take) /\ Drawdown(rank, take) /\ UNCHANGED <<charge, vehicleOf, nPay, payment>>
    BY <1>3 DEF ApplyCredit
  <2>2. /\ RentFlag' /\ ChargeFlag' /\ Idle'
        /\ \A c \in Charges : chargeAlloc'[c] = chargeAlloc[c] \/ (chargeAlloc[c] = 0 /\ c \in OwedItems /\ chargeAlloc'[c] = take[c] /\ take[c] # 0)
        /\ \A v \in Vehicles : rentAlloc'[v] = rentAlloc[v] \/ (rentAlloc[v].pay = 0 /\ v \in OwedItems /\ rentAlloc'[v].pay = take[v] /\ take[v] # 0)
    BY <2>1, SettleFlags
  <2>3. LivePayments' = LivePayments
    BY <2>1 DEF LivePayments
  <2>4. ASSUME NEW p \in LivePayments' PROVE AutoGood(p)'
    <3>0. p \in LivePayments /\ p \in PayIds /\ p # 0 /\ payment'[p] = payment[p] /\ AutoGood(p)
      BY <2>1, <2>3 DEF LivePayments, PayIds, FlagInv
    <3>1. CASE payment[p].auto
      <4>1. AllocSum(p) = payment[p].amount /\ payment[p].amount \in Int
        BY <1>0, <3>0, <3>1, SettlementAssumption DEF AutoGood, TypeOK, Money, SettlementAssumption
      <4>2. AppliedSum(p) \in Nat
        BY <1>0, <3>0, SumsTyped
      <4>3. ~(Remaining(p) > 0)
        BY <1>0, <3>0, <4>1, <4>2, AllocatedIs DEF Remaining
      <4>4. \A it \in OwedItems : take[it] # p
        <5>1. PICK T : T = { it \in OwedItems : take[it] = p }
          OBVIOUS
        <5>2. T = {}
          BY <1>0, <2>1, <3>0, <4>3, <5>1, DrawdownFits
        <5>. QED BY <5>1, <5>2
      <4>5. \A c \in Charges : chargeAlloc'[c] = p <=> chargeAlloc[c] = p
        BY <2>2, <3>0, <4>4
      <4>6. \A v \in Vehicles : rentAlloc'[v].pay = p <=> rentAlloc[v].pay = p
        BY <2>2, <3>0, <4>4
      <4>7. \A v \in Vehicles : rentAlloc[v].pay = p => rentAlloc'[v] = rentAlloc[v]
        BY <2>2, <3>0
      <4>. QED BY <1>0, <2>1, <3>0, <4>5, <4>6, <4>7, AutoRests
    <3>2. CASE ~payment[p].auto
      BY <3>0, <3>2 DEF AutoGood
    <3>. QED BY <3>1, <3>2
  <2>. QED BY <2>2, <2>4 DEF FlagInv
<1>4. ASSUME NEW p \in PayIds, DeletePayment(p) PROVE FlagInv'
  <2>1. /\ Reverse(p) /\ chargeAlloc' = ReleaseCharges(p) /\ rentAlloc' = ReleaseRent(p)
        /\ UNCHANGED <<charge, vehicleOf, nPay>>
    BY <1>4 DEF DeletePayment
  <2>2. \A v \in Vehicles : vehPaid'[v] => vehPaid[v] /\ rentAlloc[v].pay # p
    BY <1>4 DEF DeletePayment
  <2>3. \A c \in Charges : chargePaid'[c] => chargePaid[c] /\ ~(chargeAlloc[c] = p /\ vehicleOf[c] = NoVehicle)
    BY <1>4 DEF DeletePayment
  <2>. QED BY <2>1, <2>2, <2>3, ReversalFlags
<1>. QED BY <1>1, <1>2, <1>3, <1>4 DEF PaymentNext

\* The inductive invariant of the flags at the start.
LEMMA FlagStart == Init => FlagInv
<1>. SUFFICES ASSUME Init PROVE FlagInv
  OBVIOUS
<1>1. LivePayments = {}
  BY DEF Init, LivePayments, PayIds
<1>. QED BY <1>1 DEF Init, FlagInv, RentFlag, ChargeFlag, Idle

\* It is kept by every step.
LEMMA FlagStep ==
  ASSUME IInv, IInv', FlagInv, [Next]_vars
  PROVE  FlagInv'
<1>1. CASE UNCHANGED vars
  <2>1. UNCHANGED <<chargeVars, payVars, vehPaid>>
    BY <1>1 DEF vars
  <2>2. LivePayments' = LivePayments
    BY <2>1 DEF LivePayments
  <2>3. /\ \A d \in Charges : charge'[d] = charge[d] /\ vehicleOf'[d] = vehicleOf[d] /\ chargePaid'[d] = chargePaid[d]
        /\ \A p \in LivePayments' : payment'[p].auto => p \in LivePayments /\ payment'[p] = payment[p]
    BY <2>1, <2>2
  <2>. QED BY <2>1, <2>3, FlagsRest
<1>. QED BY <1>1, ClockFlags, ChargeFlags, VehicleFlags, PaymentFlags DEF Next

\* The paid flags mean money: a slider never leaves one up without a receipt in
\* force, also when another path reversed or drew on the receipt.
THEOREM PaidMeansMoney == Spec => []PaidIsBacked
<1>1. FlagInv /\ IInv => PaidIsBacked
  BY DEF FlagInv, IInv, RentFlag, ChargeFlag, RentClaimBacked, ChargeClaimBacked, PaidIsBacked, LivePayments, PayIds
<1>. QED BY <1>1, FlagStart, FlagStep, Inductive, PTL DEF Spec

-----------------------------------------------------------------------------
\* What receipts up to q still hold, and what the invoices up to j still owe.
MoneyTo(left, q) == SumOf(left, { r \in LivePayments : r <= q })
OpenAmounts == [i \in InvIds |-> OpenOf(i)]
DebtTo(j) == SumOf(OpenAmounts, 1 .. j)

\* The running total of the receipts.
LEMMA LeftSumIs ==
  ASSUME NEW left, NEW S, IsFiniteSet(S)
  PROVE  MapThenSumSet(LAMBDA r : left[r], S) = SumOf(left, S)
<1>2. ASSUME NEW g PROVE IsSum(g, left, S) <=> g = [s \in SUBSET S |-> IF s = {} THEN 0 ELSE left[CHOOSE x \in s : TRUE] + g[s \ {CHOOSE x \in s : TRUE}]]
  BY DEF IsSum, Pick
<1>3. PICK g : IsSum(g, left, S)
  BY SumExists
<1>4. SumOf(left, S) = g[S]
  BY <1>3, SumIs
<1>5. \A h : IsSum(h, left, S) => h[S] = g[S]
  BY <1>3, SumsAgree
<1>. QED BY <1>2, <1>3, <1>4, <1>5 DEF MapThenSumSet, MapThenFoldSet

\* The running total of the open invoices.
LEMMA OpenSumIs ==
  ASSUME NEW S \in SUBSET InvIds
  PROVE  MapThenSumSet(OpenOf, S) = SumOf(OpenAmounts, S)
<1>0. IsFiniteSet(S)
  BY FiniteIds, FS_Subset
<1>1. \A s \in SUBSET S : s # {} => Pick(s) \in S
  BY DEF Pick
<1>2. ASSUME NEW g PROVE IsSum(g, OpenAmounts, S) <=> g = [s \in SUBSET S |-> IF s = {} THEN 0 ELSE OpenOf(CHOOSE x \in s : TRUE) + g[s \ {CHOOSE x \in s : TRUE}]]
  <2>1. \A s \in SUBSET S : s # {} => OpenAmounts[Pick(s)] = OpenOf(Pick(s))
    BY <1>1 DEF OpenAmounts
  <2>. QED BY <2>1 DEF IsSum, Pick
<1>3. PICK g : IsSum(g, OpenAmounts, S)
  BY <1>0, SumExists
<1>4. SumOf(OpenAmounts, S) = g[S]
  BY <1>0, <1>3, SumIs
<1>5. \A h : IsSum(h, OpenAmounts, S) => h[S] = g[S]
  BY <1>0, <1>3, SumsAgree
<1>. QED BY <1>2, <1>3, <1>4, <1>5 DEF MapThenSumSet, MapThenFoldSet

\* What an invoice owes.
LEMMA OpenType ==
  ASSUME TypeOK
  PROVE  \A i \in InvIds : /\ OpenOf(i) \in Nat /\ OpenAmounts[i] = OpenOf(i)
                           /\ OpenOf(i) > 0 => i \in OpenInvoices /\ OpenOf(i) = invoice[i].total - invoice[i].paid
<1>. SUFFICES ASSUME NEW i \in InvIds
              PROVE  /\ OpenOf(i) \in Nat /\ OpenAmounts[i] = OpenOf(i)
                     /\ OpenOf(i) > 0 => i \in OpenInvoices /\ OpenOf(i) = invoice[i].total - invoice[i].paid
  OBVIOUS
<1>1. invoice[i].total \in Int /\ invoice[i].paid \in Int
  BY SettlementAssumption DEF TypeOK, Money, SettlementAssumption
<1>2. i \in OpenInvoices => invoice[i].total > invoice[i].paid
  BY DEF OpenInvoices, Unpaid
<1>. QED BY <1>1, <1>2 DEF OpenOf, OpenAmounts

\* The credit of receipt p for invoice i, in running totals.
LEMMA CreditIs ==
  ASSUME TypeOK, NEW left, NEW i \in InvIds, NEW p \in PayIds
  PROVE  InvoiceCredit(left, i, p) =
           IF p \notin LivePayments THEN 0
           ELSE Larger(0, Smaller(DebtTo(i), MoneyTo(left, p)) - Larger(DebtTo(i - 1), MoneyTo(left, p - 1)))
<1>1. i \in Nat /\ i - 1 \in Nat /\ 1 .. i \in SUBSET InvIds /\ 1 .. (i - 1) \in SUBSET InvIds
  BY SettlementAssumption DEF InvIds, SettlementAssumption
<1>2. \A q : IsFiniteSet({ r \in LivePayments : r <= q })
  BY FiniteIds, FS_Subset DEF LivePayments
<1>3. \A q : MapThenSumSet(LAMBDA r : left[r], { r \in LivePayments : r <= q }) = MoneyTo(left, q)
  <2>. SUFFICES ASSUME NEW q PROVE MapThenSumSet(LAMBDA r : left[r], { r \in LivePayments : r <= q }) = MoneyTo(left, q)
    OBVIOUS
  <2>. QED BY <1>2, LeftSumIs DEF MoneyTo
<1>4. MapThenSumSet(OpenOf, 1 .. i) = DebtTo(i) /\ MapThenSumSet(OpenOf, 1 .. (i - 1)) = DebtTo(i - 1)
  BY <1>1, OpenSumIs DEF DebtTo
<1>. QED BY <1>3, <1>4 DEF InvoiceCredit

\* One invoice more.
LEMMA DebtSteps ==
  ASSUME TypeOK
  PROVE  /\ \A j \in 0 .. MaxInvoices : DebtTo(j) \in Int
         /\ \A i \in InvIds : DebtTo(i) = OpenOf(i) + DebtTo(i - 1) /\ DebtTo(i - 1) <= DebtTo(i) /\ DebtTo(i - 1) \in Int
<1>0. MaxInvoices \in Nat
  BY SettlementAssumption DEF SettlementAssumption
<1>1. ASSUME NEW j \in 0 .. MaxInvoices PROVE DebtTo(j) \in Int
  <2>0. \A x \in 1 .. j : x \in InvIds
    BY <1>0 DEF InvIds
  <2>1. IsFiniteSet(1 .. j) /\ \A x \in 1 .. j : OpenAmounts[x] \in Int
    <3>1. IsFiniteSet(1 .. j)
      BY <1>0, FS_Interval
    <3>2. \A x \in InvIds : OpenAmounts[x] \in Int
      BY OpenType
    <3>. QED BY <2>0, <3>1, <3>2
  <2>. QED BY <2>1, SumType DEF DebtTo
<1>2. ASSUME NEW i \in InvIds PROVE DebtTo(i) = OpenOf(i) + DebtTo(i - 1) /\ DebtTo(i - 1) <= DebtTo(i) /\ DebtTo(i - 1) \in Int
  <2>1. IsFiniteSet(1 .. i) /\ \A x \in 1 .. i : OpenAmounts[x] \in Int
    <3>1. i \in Int /\ \A x \in 1 .. i : x \in InvIds
      BY <1>0 DEF InvIds
    <3>2. IsFiniteSet(1 .. i)
      BY <3>1, FS_Interval
    <3>3. \A x \in InvIds : OpenAmounts[x] \in Int
      BY OpenType
    <3>. QED BY <3>1, <3>2, <3>3
  <2>2. i \in 1 .. i /\ (1 .. i) \ {i} = 1 .. (i - 1) /\ i - 1 \in 0 .. MaxInvoices
    BY <1>0 DEF InvIds
  <2>3. SumOf(OpenAmounts, 1 .. i) = OpenAmounts[i] + SumOf(OpenAmounts, (1 .. i) \ {i})
    BY <2>1, <2>2, SumStep
  <2>4. OpenAmounts[i] = OpenOf(i) /\ OpenOf(i) \in Nat
    BY OpenType
  <2>5. DebtTo(i - 1) \in Int
    BY <1>1, <2>2
  <2>6. DebtTo(i) = OpenOf(i) + DebtTo(i - 1)
    BY <2>2, <2>3, <2>4 DEF DebtTo
  <2>. QED BY <2>4, <2>5, <2>6
<1>. QED BY <1>1, <1>2

\* One receipt more.
LEMMA MoneySteps ==
  ASSUME NEW left, \A p \in LivePayments : left[p] \in Nat
  PROVE  /\ \A q \in 0 .. MaxPayments : MoneyTo(left, q) \in Int
         /\ \A p \in PayIds : /\ MoneyTo(left, p - 1) <= MoneyTo(left, p) /\ MoneyTo(left, p - 1) \in Int
                              /\ p \in LivePayments => MoneyTo(left, p) = left[p] + MoneyTo(left, p - 1)
<1>0. MaxPayments \in Nat /\ LivePayments \subseteq PayIds
  BY SettlementAssumption DEF SettlementAssumption, LivePayments
<1>1. ASSUME NEW q PROVE IsFiniteSet({ r \in LivePayments : r <= q }) /\ MoneyTo(left, q) \in Int
  <2>1. IsFiniteSet({ r \in LivePayments : r <= q }) /\ \A x \in { r \in LivePayments : r <= q } : left[x] \in Int
    BY <1>0, FiniteIds, FS_Subset
  <2>. QED BY <2>1, SumType DEF MoneyTo
<1>2. ASSUME NEW p \in PayIds
      PROVE  /\ MoneyTo(left, p - 1) <= MoneyTo(left, p) /\ MoneyTo(left, p - 1) \in Int
             /\ p \in LivePayments => MoneyTo(left, p) = left[p] + MoneyTo(left, p - 1)
  <2>1. PICK S, T : S = { r \in LivePayments : r <= p } /\ T = { r \in LivePayments : r <= p - 1 }
    OBVIOUS
  <2>0. p \in Int /\ \A r \in LivePayments : r \in Int
    BY <1>0 DEF PayIds
  <2>2. MoneyTo(left, p) = SumOf(left, S) /\ MoneyTo(left, p - 1) = SumOf(left, T) /\ MoneyTo(left, p - 1) \in Int
    BY <1>1, <2>1 DEF MoneyTo
  <2>3. CASE p \in LivePayments
    <3>1. p \in S /\ S \ {p} = T
      <4>1. \A r \in LivePayments : (r <= p /\ r # p) <=> r <= p - 1
        BY <2>0
      <4>2. p \in S
        BY <2>0, <2>1, <2>3
      <4>3. S \ {p} = T
        BY <2>1, <4>1
      <4>. QED BY <4>2, <4>3
    <3>2. IsFiniteSet(S) /\ \A x \in S : left[x] \in Int
      BY <1>1, <2>1
    <3>3. SumOf(left, S) = left[p] + SumOf(left, S \ {p})
      BY <3>1, <3>2, SumStep
    <3>4. left[p] \in Nat
      BY <2>3
    <3>5. MoneyTo(left, p) = left[p] + MoneyTo(left, p - 1)
      BY <2>2, <3>1, <3>3
    <3>. QED BY <2>2, <3>4, <3>5
  <2>4. CASE p \notin LivePayments
    <3>1. S = T
      BY <2>0, <2>1, <2>4
    <3>. QED BY <2>2, <2>4, <3>1
  <2>. QED BY <2>3, <2>4
<1>. QED BY <1>1, <1>2

\* A credit is an amount.
LEMMA CreditNat ==
  ASSUME TypeOK, NEW left, \A p \in LivePayments : left[p] \in Nat, NEW i \in InvIds, NEW p \in PayIds
  PROVE  InvoiceCredit(left, i, p) \in Nat
<1>1. DebtTo(i) \in Int /\ DebtTo(i - 1) \in Int
  BY DebtSteps, SettlementAssumption DEF InvIds, SettlementAssumption
<1>2. MoneyTo(left, p) \in Int /\ MoneyTo(left, p - 1) \in Int
  BY MoneySteps, SettlementAssumption DEF PayIds, SettlementAssumption
<1>. QED BY <1>1, <1>2, CreditIs DEF Larger, Smaller

\* An invoice gets no more than it still owes.
LEMMA CreditRow ==
  ASSUME TypeOK, NEW left, \A p \in LivePayments : left[p] \in Nat, NEW i \in InvIds
  PROVE  SumOf([p \in PayIds |-> InvoiceCredit(left, i, p)], PayIds) <= OpenOf(i)
<1>. DEFINE F == [p \in PayIds |-> InvoiceCredit(left, i, p)]
            d == [q \in 0 .. MaxPayments |-> MoneyTo(left, q)]
<1>0. MaxPayments \in Nat /\ PayIds = 1 .. MaxPayments
  BY SettlementAssumption DEF SettlementAssumption, PayIds
<1>1. \A q \in 0 .. MaxPayments : d[q] \in Int
  BY MoneySteps
<1>2. \A p \in 1 .. MaxPayments : d[p] = MoneyTo(left, p) /\ d[p - 1] = MoneyTo(left, p - 1)
  BY <1>0
<1>3. \A p \in 1 .. MaxPayments : d[p - 1] <= d[p]
  BY <1>0, <1>2, MoneySteps
<1>4. PICK a, b \in Int : a = DebtTo(i - 1) /\ b = DebtTo(i) /\ a <= b
  BY DebtSteps, SettlementAssumption DEF InvIds, SettlementAssumption
<1>5. \A p \in 1 .. MaxPayments : F[p] \in Int /\ F[p] <= Larger(0, Smaller(d[p], b) - Larger(d[p - 1], a))
  <2>. SUFFICES ASSUME NEW p \in 1 .. MaxPayments PROVE F[p] \in Int /\ F[p] <= Larger(0, Smaller(d[p], b) - Larger(d[p - 1], a))
    OBVIOUS
  <2>1. p \in PayIds /\ F[p] = InvoiceCredit(left, i, p) /\ F[p] \in Nat
    BY <1>0, CreditNat
  <2>2. PICK x, y \in Int : x = d[p - 1] /\ y = d[p] /\ x = MoneyTo(left, p - 1) /\ y = MoneyTo(left, p)
    BY <1>0, <1>1, <1>2
  <2>3. F[p] = IF p \notin LivePayments THEN 0 ELSE Larger(0, Smaller(b, y) - Larger(a, x))
    BY <1>4, <2>1, <2>2, CreditIs
  <2>4. 0 <= Larger(0, Smaller(y, b) - Larger(x, a)) /\ Larger(0, Smaller(b, y) - Larger(a, x)) = Larger(0, Smaller(y, b) - Larger(x, a))
    BY DEF Larger, Smaller
  <2>5. Larger(0, Smaller(y, b) - Larger(x, a)) \in Int
    BY DEF Larger, Smaller
  <2>6. F[p] <= Larger(0, Smaller(y, b) - Larger(x, a))
    BY <2>3, <2>4, <2>5
  <2>. HIDE DEF F, d
  <2>. QED BY <2>1, <2>2, <2>6
<1>. HIDE DEF F, d
<1>6. SumOf(F, 1 .. MaxPayments) <= b - a
  BY <1>0, <1>1, <1>3, <1>4, <1>5, Overlap
<1>7. DebtTo(i) = OpenOf(i) + DebtTo(i - 1) /\ OpenOf(i) \in Int
  BY DebtSteps, OpenType
<1>8. b - a = OpenOf(i)
  BY <1>4, <1>7
<1>. QED BY <1>0, <1>6, <1>8 DEF F

\* A receipt gives no more than it has left.
LEMMA CreditColumn ==
  ASSUME TypeOK, NEW left, \A q \in LivePayments : left[q] \in Nat, NEW p \in LivePayments
  PROVE  SumOf([i \in InvIds |-> InvoiceCredit(left, i, p)], InvIds) <= left[p]
<1>. DEFINE F == [i \in InvIds |-> InvoiceCredit(left, i, p)]
            d == [j \in 0 .. MaxInvoices |-> DebtTo(j)]
<1>0. MaxInvoices \in Nat /\ InvIds = 1 .. MaxInvoices /\ p \in PayIds /\ MaxPayments \in Nat
  BY SettlementAssumption DEF SettlementAssumption, InvIds, LivePayments
<1>1. \A j \in 0 .. MaxInvoices : d[j] \in Int
  BY DebtSteps
<1>2. \A i \in 1 .. MaxInvoices : d[i] = DebtTo(i) /\ d[i - 1] = DebtTo(i - 1)
  BY <1>0
<1>3. \A i \in 1 .. MaxInvoices : d[i - 1] <= d[i]
  BY <1>0, <1>2, DebtSteps
<1>9. MoneyTo(left, p) = left[p] + MoneyTo(left, p - 1) /\ MoneyTo(left, p - 1) \in Int /\ MoneyTo(left, p) \in Int /\ left[p] \in Nat
  BY <1>0, MoneySteps DEF PayIds
<1>4. PICK a, b \in Int : a = MoneyTo(left, p - 1) /\ b = MoneyTo(left, p) /\ a <= b
  BY <1>9
<1>5. \A i \in 1 .. MaxInvoices : F[i] \in Int /\ F[i] <= Larger(0, Smaller(d[i], b) - Larger(d[i - 1], a))
  <2>. SUFFICES ASSUME NEW i \in 1 .. MaxInvoices PROVE F[i] \in Int /\ F[i] <= Larger(0, Smaller(d[i], b) - Larger(d[i - 1], a))
    OBVIOUS
  <2>1. i \in InvIds /\ F[i] = InvoiceCredit(left, i, p) /\ F[i] \in Nat
    BY <1>0, CreditNat
  <2>2. F[i] = Larger(0, Smaller(DebtTo(i), MoneyTo(left, p)) - Larger(DebtTo(i - 1), MoneyTo(left, p - 1)))
    BY <1>0, <2>1, CreditIs
  <2>3. F[i] = Larger(0, Smaller(d[i], b) - Larger(d[i - 1], a))
    BY <1>2, <1>4, <2>2
  <2>. HIDE DEF F, d
  <2>. QED BY <2>1, <2>3
<1>. HIDE DEF F, d
<1>6. SumOf(F, 1 .. MaxInvoices) <= b - a
  BY <1>0, <1>1, <1>3, <1>4, <1>5, Overlap
<1>8. b - a = left[p]
  BY <1>4, <1>9
<1>. QED BY <1>0, <1>6, <1>8 DEF F

-----------------------------------------------------------------------------
\* What an invoice reads as paid is what its payments add up to, and only an invoice in force is paid.
LedgerRow(i) ==
    /\ invoice[i].paid = SumOf(invPay[i], PayIds)
    /\ invoice[i].paid > 0 => /\ invoice[i].paid <= invoice[i].total
                              /\ ~invoice[i].canceled /\ invoice[i].cancels = 0
\* A receipt stays within its amount.
Within(p) == AllocSum(p) + AppliedSum(p) <= payment[p].amount
\* What is not booked yet carries no money.
Unbooked == /\ \A i \in InvIds, p \in PayIds : p > nPay => invPay[i][p] = 0
            /\ \A i \in InvIds : i > nInv => invoice[i].paid = 0

LedgerInv == /\ \A p \in LivePayments : Within(p)
             /\ \A i \in InvIds : LedgerRow(i)
             /\ Unbooked

\* The sum of the payments of one invoice.
LEMMA LedgerRowIs == TypeOK => \A i \in InvIds : SumFunction(invPay[i]) = SumOf(invPay[i], PayIds)
<1>. SUFFICES ASSUME TypeOK, NEW i \in InvIds PROVE SumFunction(invPay[i]) = SumOf(invPay[i], PayIds)
  OBVIOUS
<1>1. DOMAIN invPay[i] = PayIds
  BY DEF TypeOK
<1>. QED BY <1>1, FiniteIds, SumFunctionIs

\* What a receipt gives to positions is an amount.
LEMMA AllocTyped == TypeOK => \A p \in PayIds : AllocSum(p) \in Nat
BY SumsTyped

\* A step that leaves the invoice payments of a receipt alone.
LEMMA AppliedKept ==
  ASSUME NEW p \in PayIds, \A i \in InvIds : invPay'[i][p] = invPay[i][p]
  PROVE  AppliedSum(p)' = AppliedSum(p)
<1>1. OfInvoices(p)' = OfInvoices(p)
  BY DEF OfInvoices
<1>. QED BY <1>1 DEF AppliedSum

\* A receipt without invoice payments.
LEMMA AppliedNone ==
  ASSUME NEW p \in PayIds, \A i \in InvIds : invPay[i][p] = 0
  PROVE  AppliedSum(p) = 0
<1>1. \A i \in InvIds : OfInvoices(p)[i] = 0
  BY DEF OfInvoices
<1>. QED BY <1>1, FiniteIds, SumZero DEF AppliedSum

\* The receipts that stay in force keep what they give, and the invoices their payments.
LEMMA LedgerRests ==
  ASSUME IInv, IInv', LedgerInv, invPay' = invPay, invoice' = invoice, nInv' = nInv, nPay' = nPay,
         \A p \in LivePayments' : /\ p \in LivePayments /\ payment'[p] = payment[p]
                                  /\ \A c \in Charges : chargeAlloc'[c] = p <=> chargeAlloc[c] = p
                                  /\ \A v \in Vehicles : rentAlloc'[v].pay = p <=> rentAlloc[v].pay = p
                                  /\ \A v \in Vehicles : rentAlloc[v].pay = p => rentAlloc'[v] = rentAlloc[v]
  PROVE  LedgerInv'
<1>1. \A i \in InvIds : LedgerRow(i)'
  BY DEF LedgerInv, LedgerRow
<1>2. Unbooked'
  BY DEF LedgerInv, Unbooked
<1>3. ASSUME NEW p \in LivePayments' PROVE Within(p)'
  <2>1. TypeOK /\ TypeOK' /\ p \in PayIds
    BY DEF IInv, LivePayments
  <2>2. AllocSum(p)' = AllocSum(p)
    BY <2>1, AllocKept
  <2>3. AppliedSum(p)' = AppliedSum(p)
    BY <2>1, AppliedKept
  <2>4. Within(p)
    BY DEF LedgerInv
  <2>. QED BY <2>2, <2>3, <2>4 DEF Within
<1>. QED BY <1>1, <1>2, <1>3 DEF LedgerInv

\* A step that moves no money.
LEMMA LedgerStill ==
  ASSUME IInv, IInv', LedgerInv, UNCHANGED <<payVars, invPay, invoice, nInv>>
  PROVE  LedgerInv'
<1>1. LivePayments' = LivePayments
  BY DEF LivePayments
<1>2. \A p \in LivePayments' : /\ p \in LivePayments /\ payment'[p] = payment[p]
                               /\ \A c \in Charges : chargeAlloc'[c] = p <=> chargeAlloc[c] = p
                               /\ \A v \in Vehicles : rentAlloc'[v].pay = p <=> rentAlloc[v].pay = p
                               /\ \A v \in Vehicles : rentAlloc[v].pay = p => rentAlloc'[v] = rentAlloc[v]
  BY <1>1
<1>. QED BY <1>2, LedgerRests

\* A slider's Storno: no invoice is touched.
LEMMA LedgerReversal ==
  ASSUME IInv, IInv', LedgerInv, NEW p \in PayIds, Reverse(p), chargeAlloc' = ReleaseCharges(p), rentAlloc' = ReleaseRent(p),
         UNCHANGED <<nPay, invPay, invoice, nInv>>
  PROVE  LedgerInv'
<1>1. TypeOK
  BY DEF IInv
<1>2. ASSUME NEW q \in LivePayments'
      PROVE  /\ q \in LivePayments /\ payment'[q] = payment[q]
             /\ \A c \in Charges : chargeAlloc'[c] = q <=> chargeAlloc[c] = q
             /\ \A v \in Vehicles : rentAlloc'[v].pay = q <=> rentAlloc[v].pay = q
             /\ \A v \in Vehicles : rentAlloc[v].pay = q => rentAlloc'[v] = rentAlloc[v]
  BY <1>1, ReversalRest
<1>. QED BY <1>2, LedgerRests

\* A new receipt that stays within its amount.
LEMMA LedgerInsert ==
  ASSUME IInv, IInv', LedgerInv, NEW amount, NEW auto, NEW year, InsertPayment(amount, auto, year), UNCHANGED <<invPay, invoice, nInv>>,
         NEW n, n = nPay + 1,
         \A c \in Charges : chargeAlloc'[c] = chargeAlloc[c] \/ (chargeAlloc[c] = 0 /\ chargeAlloc'[c] = nPay + 1),
         \A v \in Vehicles : rentAlloc'[v] = rentAlloc[v] \/ (rentAlloc[v].pay = 0 /\ rentAlloc'[v].pay = nPay + 1),
         AllocSum(n)' <= payment'[n].amount
  PROVE  LedgerInv'
<1>1. TypeOK /\ TypeOK'
  BY DEF IInv
<1>2. n = nPay + 1
  OBVIOUS
<1>3. /\ n \in PayIds /\ nPay' = nPay + 1
      /\ LivePayments' = LivePayments \cup {n}
      /\ \A p \in LivePayments : p \in PayIds /\ p # n /\ payment'[p] = payment[p]
  BY <1>1, <1>2, InsertRow
<1>4. nPay \in Int /\ \A p \in PayIds : p \in Int /\ p # 0
  BY <1>1, SettlementAssumption DEF TypeOK, PayIds, SettlementAssumption
<1>5. \A i \in InvIds : LedgerRow(i)'
  BY DEF LedgerInv, LedgerRow
<1>6. Unbooked'
  BY <1>3, <1>4 DEF LedgerInv, Unbooked
<1>7. ASSUME NEW p \in LivePayments PROVE Within(p)'
  <2>1. p \in PayIds /\ p # n /\ p # 0 /\ payment'[p] = payment[p]
    BY <1>3, <1>4
  <2>2. \A c \in Charges : chargeAlloc'[c] = p <=> chargeAlloc[c] = p
    BY <1>2, <2>1
  <2>3. \A v \in Vehicles : rentAlloc'[v].pay = p <=> rentAlloc[v].pay = p
    BY <1>2, <2>1
  <2>4. \A v \in Vehicles : rentAlloc[v].pay = p => rentAlloc'[v] = rentAlloc[v]
    BY <1>2, <2>1
  <2>5. AllocSum(p)' = AllocSum(p)
    BY <1>1, <2>1, <2>2, <2>3, <2>4, AllocKept
  <2>6. AppliedSum(p)' = AppliedSum(p)
    BY <2>1, AppliedKept
  <2>. QED BY <2>1, <2>5, <2>6 DEF LedgerInv, Within
<1>8. Within(n)'
  <2>1. \A i \in InvIds : invPay[i][n] = 0
    BY <1>2, <1>3, <1>4 DEF LedgerInv, Unbooked
  <2>2. AppliedSum(n) = 0
    BY <1>3, <2>1, AppliedNone
  <2>3. AppliedSum(n)' = AppliedSum(n)
    BY <1>3, AppliedKept
  <2>4. AllocSum(n)' \in Nat
    <3>1. (\A p \in PayIds : AllocSum(p) \in Nat)'
      BY <1>1, AllocTyped, PTL
    <3>. QED BY <1>3, <3>1
  <2>5. AllocSum(n)' <= payment'[n].amount
    OBVIOUS
  <2>. QED BY <2>2, <2>3, <2>4, <2>5 DEF Within
<1>. QED BY <1>3, <1>5, <1>6, <1>7, <1>8 DEF LedgerInv

\* Money into invoices: every invoice gets at most what it owes.
LEMMA FundLedger ==
  ASSUME TypeOK, TypeOK', LedgerInv, NEW share \in [InvIds -> [PayIds -> Nat]], FundInvoices(share), nInv' = nInv, nPay' \in Int, nPay' >= nPay,
         \A i \in InvIds : SumOf(share[i], PayIds) <= OpenOf(i),
         \A i \in InvIds, p \in PayIds : share[i][p] # 0 => p <= nPay'
  PROVE  /\ \A i \in InvIds : LedgerRow(i)'
         /\ Unbooked'
         /\ \A p \in PayIds : AppliedSum(p)' = AppliedSum(p) + SumOf([i \in InvIds |-> share[i][p]], InvIds)
<1>1. \A i \in InvIds, p \in PayIds : share[i][p] \in Nat /\ invPay[i][p] \in Nat /\ invPay'[i][p] = invPay[i][p] + share[i][p]
  BY DEF TypeOK, FundInvoices
<1>2. \A i \in InvIds : SumFunction(share[i]) = SumOf(share[i], PayIds) /\ SumOf(share[i], PayIds) \in Nat
  <2>. SUFFICES ASSUME NEW i \in InvIds PROVE SumFunction(share[i]) = SumOf(share[i], PayIds) /\ SumOf(share[i], PayIds) \in Nat
    OBVIOUS
  <2>1. DOMAIN share[i] = PayIds /\ \A p \in PayIds : share[i][p] \in Nat
    OBVIOUS
  <2>2. SumFunction(share[i]) = SumOf(share[i], PayIds)
    BY <2>1, FiniteIds, SumFunctionIs
  <2>3. SumOf(share[i], PayIds) \in Nat
    BY <2>1, FiniteIds, SumType
  <2>. QED BY <2>2, <2>3
<1>3. \A i \in InvIds : /\ invoice'[i].paid = invoice[i].paid + SumOf(share[i], PayIds) /\ invoice'[i].total = invoice[i].total
                        /\ invoice'[i].canceled = invoice[i].canceled /\ invoice'[i].cancels = invoice[i].cancels
  <2>. SUFFICES ASSUME NEW i \in InvIds
                PROVE  /\ invoice'[i].paid = invoice[i].paid + SumOf(share[i], PayIds) /\ invoice'[i].total = invoice[i].total
                       /\ invoice'[i].canceled = invoice[i].canceled /\ invoice'[i].cancels = invoice[i].cancels
    OBVIOUS
  <2>1. invoice'[i] = [invoice[i] EXCEPT !.paid = invoice[i].paid + SumFunction(share[i])]
    BY DEF FundInvoices
  <2>2. invoice[i] \in [total : (-MaxMoney) .. MaxMoney, paid : Money, canceled : BOOLEAN, cancels : InvIds \cup {0}]
    BY DEF TypeOK
  <2>. QED BY <1>2, <2>1, <2>2
<1>4. \A i \in InvIds : SumOf(invPay'[i], PayIds) = SumOf(invPay[i], PayIds) + SumOf(share[i], PayIds)
  <2>. SUFFICES ASSUME NEW i \in InvIds PROVE SumOf(invPay'[i], PayIds) = SumOf(invPay[i], PayIds) + SumOf(share[i], PayIds)
    OBVIOUS
  <2>1. PICK F, G, H : F = invPay[i] /\ G = share[i] /\ H = invPay'[i]
    OBVIOUS
  <2>2. \A p \in PayIds : F[p] \in Int /\ G[p] \in Int /\ H[p] = F[p] + G[p]
    BY <1>1, <2>1
  <2>3. SumOf(H, PayIds) = SumOf(F, PayIds) + SumOf(G, PayIds)
    BY <2>2, FiniteIds, SumAdds
  <2>. QED BY <2>1, <2>3
<1>5. \A i \in InvIds : invoice[i].paid \in Nat /\ invoice[i].total \in Int
  BY SettlementAssumption DEF TypeOK, Money, SettlementAssumption
<1>6. ASSUME NEW i \in InvIds PROVE LedgerRow(i)'
  <2>1. LedgerRow(i)
    BY DEF LedgerInv
  <2>2. invoice'[i].paid = SumOf(invPay'[i], PayIds)
    BY <1>3, <1>4, <2>1 DEF LedgerRow
  <2>3. ASSUME invoice'[i].paid > 0
        PROVE  invoice'[i].paid <= invoice'[i].total /\ ~invoice'[i].canceled /\ invoice'[i].cancels = 0
    <3>1. CASE SumOf(share[i], PayIds) = 0
      BY <1>3, <1>5, <2>1, <2>3, <3>1 DEF LedgerRow
    <3>2. CASE SumOf(share[i], PayIds) # 0
      <4>1. SumOf(share[i], PayIds) > 0 /\ SumOf(share[i], PayIds) <= OpenOf(i) /\ OpenOf(i) \in Nat /\ SumOf(share[i], PayIds) \in Nat
        BY <1>2, <3>2, OpenType
      <4>2. i \in OpenInvoices /\ OpenOf(i) = invoice[i].total - invoice[i].paid
        BY <4>1, OpenType
      <4>3. ~invoice[i].canceled /\ invoice[i].cancels = 0
        BY <4>2 DEF OpenInvoices
      <4>4. invoice'[i].paid <= invoice'[i].total
        BY <1>3, <1>5, <4>1, <4>2
      <4>. QED BY <1>3, <4>3, <4>4
    <3>. QED BY <3>1, <3>2
  <2>. QED BY <2>2, <2>3 DEF LedgerRow
<1>7. Unbooked'
  <2>0. nPay \in Int /\ nInv \in Int /\ \A i \in InvIds : i \in Int /\ \A p \in PayIds : p \in Int
    BY SettlementAssumption DEF TypeOK, PayIds, InvIds, SettlementAssumption
  <2>1. \A i \in InvIds, p \in PayIds : p > nPay' => invPay'[i][p] = 0
    <3>. SUFFICES ASSUME NEW i \in InvIds, NEW p \in PayIds, p > nPay' PROVE invPay'[i][p] = 0
      OBVIOUS
    <3>1. share[i][p] = 0
      BY <2>0
    <3>2. invPay[i][p] = 0
      BY <2>0 DEF LedgerInv, Unbooked
    <3>. QED BY <1>1, <3>1, <3>2
  <2>2. \A i \in InvIds : i > nInv' => invoice'[i].paid = 0
    <3>. SUFFICES ASSUME NEW i \in InvIds, i > nInv PROVE invoice'[i].paid = 0
      OBVIOUS
    <3>1. i \notin OpenInvoices
      BY <2>0 DEF OpenInvoices
    <3>2. OpenOf(i) = 0
      BY <3>1 DEF OpenOf
    <3>3. SumOf(share[i], PayIds) = 0
      BY <1>2, <3>2
    <3>. QED BY <1>3, <3>3 DEF LedgerInv, Unbooked
  <2>. QED BY <2>1, <2>2 DEF Unbooked
<1>8. ASSUME NEW p \in PayIds PROVE AppliedSum(p)' = AppliedSum(p) + SumOf([i \in InvIds |-> share[i][p]], InvIds)
  <2>1. PICK F, G, H : F = OfInvoices(p) /\ G = [i \in InvIds |-> share[i][p]] /\ H = [i \in InvIds |-> invPay'[i][p]]
    OBVIOUS
  <2>2. \A i \in InvIds : F[i] = invPay[i][p] /\ G[i] = share[i][p] /\ H[i] = invPay'[i][p]
    BY <2>1 DEF OfInvoices
  <2>3. \A i \in InvIds : F[i] \in Int /\ G[i] \in Int /\ H[i] = F[i] + G[i]
    BY <1>1, <2>2
  <2>4. SumOf(H, InvIds) = SumOf(F, InvIds) + SumOf(G, InvIds)
    BY <2>3, FiniteIds, SumAdds
  <2>5. AppliedSum(p)' = SumOf(H, InvIds)
    BY <2>1 DEF AppliedSum, OfInvoices
  <2>. QED BY <2>1, <2>4, <2>5 DEF AppliedSum
<1>. QED BY <1>6, <1>7, <1>8

-----------------------------------------------------------------------------
\* The ledger under the sliders of charges and vehicles.
LEMMA SliderLedger ==
  ASSUME IInv, IInv', FlagInv, FlagInv', LedgerInv, ChargeNext \/ VehicleNext
  PROVE  LedgerInv'
<1>0. TypeOK /\ TypeOK'
  BY DEF IInv
<1>1. ASSUME NEW c \in Charges, NEW v \in Vehicles \cup {NoVehicle}, CreateCharge(c, v) \/ UpdateCharge(c, v) PROVE LedgerInv'
  <2>1. UNCHANGED <<payVars, invPay, invoice, nInv>>
    BY <1>1 DEF CreateCharge, UpdateCharge
  <2>. QED BY <2>1, LedgerStill
<1>2. ASSUME NEW c \in Charges, DeleteCharge(c) PROVE LedgerInv'
  <2>1. UNCHANGED <<payVars, invPay, invoice, nInv>>
    BY <1>2 DEF DeleteCharge
  <2>. QED BY <2>1, LedgerStill
<1>3. ASSUME NEW c \in Charges, SetChargePaid(c) PROVE LedgerInv'
  <2>1. c \in OwedCharges /\ chargeAlloc[c] = 0
    BY <1>3 DEF IInv, ChargeClaimBacked, SetChargePaid, OwedCharges, OpenCharges
  <2>2. InsertPayment(Price[c], TRUE, YearOf(today)) /\ UNCHANGED <<rentAlloc, invPay, invoice, nInv>>
    BY <1>3, <2>1 DEF SetChargePaid
  <2>3. PICK n : n = nPay + 1
    OBVIOUS
  <2>4. \A d \in Charges : chargeAlloc'[d] = IF d = c THEN n ELSE chargeAlloc[d]
    BY <1>0, <1>3, <2>1, <2>3 DEF SetChargePaid, TypeOK
  <2>5. \A d \in Charges : chargeAlloc'[d] = chargeAlloc[d] \/ (chargeAlloc[d] = 0 /\ chargeAlloc'[d] = nPay + 1)
    BY <2>1, <2>3, <2>4
  <2>6. n \in LivePayments' /\ payment'[n].auto
    BY <1>0, <2>2, <2>3, InsertRow
  <2>7. AllocSum(n)' = payment'[n].amount
    BY <2>6 DEF FlagInv, AutoGood
  <2>8. payment'[n].amount \in Int
    BY <1>0, <2>6, SettlementAssumption DEF TypeOK, LivePayments, Money, SettlementAssumption
  <2>9. AllocSum(n)' <= payment'[n].amount
    BY <2>7, <2>8
  <2>. QED BY <2>2, <2>3, <2>5, <2>9, LedgerInsert
<1>4. ASSUME NEW c \in Charges, SetChargeOpen(c) PROVE LedgerInv'
  <2>1. PICK p : p = chargeAlloc[c]
    OBVIOUS
  <2>2. p # 0 /\ p \in PayIds
    BY <1>0, <1>4, <2>1 DEF SetChargeOpen, FlagInv, ChargeFlag, TypeOK
  <2>3. /\ Reverse(p) /\ chargeAlloc' = ReleaseCharges(p) /\ rentAlloc' = ReleaseRent(p)
        /\ UNCHANGED <<nPay, invPay, invoice, nInv>>
    BY <1>4, <2>1, <2>2 DEF SetChargeOpen
  <2>. QED BY <2>2, <2>3, LedgerReversal
<1>5. ASSUME NEW v \in Vehicles, MarkPaid(v) PROVE LedgerInv'
  <2>1. rentAlloc[v].pay = 0
    BY <1>5 DEF MarkPaid, IInv, RentClaimBacked
  <2>2. PICK n : n = nPay + 1
    OBVIOUS
  <2>3. PICK S \in SUBSET Charges : S = { c \in BoundCharges(v) : chargeAlloc[c] = 0 }
    BY DEF BoundCharges
  <2>4. /\ InsertPayment(AccruedRent(v) + Total(S), TRUE, YearOf(today))
        /\ rentAlloc' = [rentAlloc EXCEPT ![v] = RentClaim(n, v)]
        /\ chargeAlloc' = [c \in Charges |-> IF c \in S THEN n ELSE chargeAlloc[c]]
        /\ UNCHANGED <<invPay, invoice, nInv>>
    BY <1>5, <2>1, <2>2, <2>3 DEF MarkPaid
  <2>5. \A d \in Charges : chargeAlloc'[d] = chargeAlloc[d] \/ (chargeAlloc[d] = 0 /\ chargeAlloc'[d] = nPay + 1)
    BY <2>2, <2>3, <2>4
  <2>6. \A w \in Vehicles : rentAlloc'[w] = rentAlloc[w] \/ (rentAlloc[w].pay = 0 /\ rentAlloc'[w].pay = nPay + 1)
    <3>1. rentAlloc'[v] = RentClaim(n, v) /\ \A w \in Vehicles : w # v => rentAlloc'[w] = rentAlloc[w]
      BY <1>0, <2>4 DEF TypeOK
    <3>2. rentAlloc'[v].pay = n
      BY <3>1 DEF RentClaim
    <3>. QED BY <2>1, <2>2, <3>1, <3>2
  <2>7. n \in LivePayments' /\ payment'[n].auto
    BY <1>0, <2>4, <2>2, InsertRow
  <2>8. AllocSum(n)' = payment'[n].amount
    BY <2>7 DEF FlagInv, AutoGood
  <2>9. payment'[n].amount \in Int
    BY <1>0, <2>7, SettlementAssumption DEF TypeOK, LivePayments, Money, SettlementAssumption
  <2>10. AllocSum(n)' <= payment'[n].amount
    BY <2>8, <2>9
  <2>. QED BY <2>2, <2>4, <2>5, <2>6, <2>10, LedgerInsert
<1>6. ASSUME NEW v \in Vehicles, MarkOpen(v) PROVE LedgerInv'
  <2>1. PICK p : p = rentAlloc[v].pay
    OBVIOUS
  <2>2. p # 0 /\ p \in PayIds
    BY <1>0, <1>6, <2>1 DEF MarkOpen, FlagInv, RentFlag, TypeOK
  <2>3. /\ Reverse(p) /\ chargeAlloc' = ReleaseCharges(p) /\ rentAlloc' = ReleaseRent(p)
        /\ UNCHANGED <<nPay, invPay, invoice, nInv>>
    BY <1>6, <2>1, <2>2 DEF MarkOpen
  <2>. QED BY <2>2, <2>3, LedgerReversal
<1>7. ASSUME NEW v \in Vehicles, \/ MarkAgain(v) \/ ReactivateVehicle(v)
                                 \/ \E s \in {"stored", "collected", "cancelled"}, d \in Days \cup {0} : ChangeStatus(v, s, d)
      PROVE  LedgerInv'
  <2>1. UNCHANGED <<payVars, invPay, invoice, nInv>>
    BY <1>7 DEF MarkAgain, ReactivateVehicle, ChangeStatus
  <2>. QED BY <2>1, LedgerStill
<1>. QED BY <1>1, <1>2, <1>3, <1>4, <1>5, <1>6, <1>7 DEF ChargeNext, VehicleNext

\* A receipt and the items it settles.
LEMMA CreatePaymentLedger ==
  ASSUME IInv, IInv', FlagInv, LedgerInv, NEW amount \in Amounts, NEW year \in Years, NEW items \in SUBSET OwedItems, CreatePayment(amount, items, year)
  PROVE  LedgerInv'
<1>0. TypeOK /\ TypeOK'
  BY DEF IInv
<1>1. PICK n : n = nPay + 1
  OBVIOUS
<1>2. PICK take : take = [it \in OwedItems |-> IF it \in items THEN n ELSE 0]
  OBVIOUS
<1>3. SettleItems(take) /\ InsertPayment(amount, FALSE, year) /\ UNCHANGED <<charge, vehicleOf, invPay, invoice, nInv>> /\ Total(items) <= amount
  BY <1>1, <1>2 DEF CreatePayment
<1>4. n \in PayIds /\ n # 0 /\ n \notin LivePayments /\ payment'[n].amount = amount
  <2>1. n \in PayIds /\ n \notin LivePayments /\ payment'[n].amount = amount
    BY <1>0, <1>1, <1>3, InsertRow
  <2>. QED BY <2>1 DEF PayIds
<1>5. take \in [OwedItems -> PayIds \cup {0}] /\ { it \in OwedItems : take[it] = n } = items
  BY <1>2, <1>4
<1>6. /\ \A c \in Charges : chargeAlloc'[c] = chargeAlloc[c] \/ (chargeAlloc[c] = 0 /\ chargeAlloc'[c] = nPay + 1)
      /\ \A v \in Vehicles : rentAlloc'[v] = rentAlloc[v] \/ (rentAlloc[v].pay = 0 /\ rentAlloc'[v].pay = nPay + 1)
  <2>1. \A it \in OwedItems : take[it] # 0 => take[it] = nPay + 1
    BY <1>1, <1>2
  <2>. QED BY <1>3, <2>1, SettleFlags
<1>7. AllocSum(n)' = AllocSum(n) + Total({ it \in OwedItems : take[it] = n })
  BY <1>0, <1>3, <1>4, <1>5, SettleGives
<1>8. AllocSum(n) = 0
  BY <1>4, AllocFree
<1>9. Total(items) \in Nat
  BY <1>0, TotalStep
<1>10. AllocSum(n)' <= payment'[n].amount
  BY <1>3, <1>4, <1>5, <1>7, <1>8, <1>9
<1>. QED BY <1>1, <1>3, <1>6, <1>10, LedgerInsert

\* A receipt and the invoices it pays.
LEMMA PayInvoicesLedger ==
  ASSUME IInv, IInv', LedgerInv, NEW amount \in Amounts, NEW year \in Years, NEW give \in [OpenInvoices -> Amounts \cup {0}], PayInvoices(amount, year, give)
  PROVE  LedgerInv'
<1>0. TypeOK /\ TypeOK'
  BY DEF IInv
<1>1. PICK n : n = nPay + 1
  OBVIOUS
<1>2. PICK share : share = [i \in InvIds |-> [p \in PayIds |-> IF p = n /\ i \in OpenInvoices THEN give[i] ELSE 0]]
  OBVIOUS
<1>3. /\ InsertPayment(amount, FALSE, year) /\ FundInvoices(share) /\ UNCHANGED <<chargeAlloc, rentAlloc, nInv>>
      /\ \A i \in OpenInvoices : give[i] <= OpenOf(i)
      /\ SumFunction(give) <= amount
  BY <1>1, <1>2 DEF PayInvoices
<1>4. /\ n \in PayIds /\ n \notin LivePayments /\ payment'[n].amount = amount /\ nPay' = n
      /\ LivePayments' = LivePayments \cup {n}
      /\ \A p \in LivePayments : p \in PayIds /\ p # n /\ payment'[p] = payment[p]
  BY <1>0, <1>1, <1>3, InsertRow
<1>5. n \in Int /\ nPay \in Int /\ nPay' >= nPay /\ nPay' \in Int
  BY <1>0, <1>1, <1>4, SettlementAssumption DEF TypeOK, SettlementAssumption
<1>6. OpenInvoices \in SUBSET InvIds /\ \A i \in OpenInvoices : give[i] \in Nat
  <2>1. \A a \in Amounts \cup {0} : a \in Nat
    BY SettlementAssumption DEF SettlementAssumption, Money
  <2>2. OpenInvoices \in SUBSET InvIds
    BY DEF OpenInvoices
  <2>3. \A i \in OpenInvoices : give[i] \in Amounts \cup {0}
    OBVIOUS
  <2>. QED BY <2>1, <2>2, <2>3
<1>7. share \in [InvIds -> [PayIds -> Nat]]
  BY <1>2, <1>6
<1>8. ASSUME NEW i \in InvIds PROVE SumOf(share[i], PayIds) <= OpenOf(i)
  <2>1. PICK F, G : F = share[i] /\ G = [p \in PayIds |-> IF i \in OpenInvoices THEN give[i] ELSE 0]
    OBVIOUS
  <2>2. PICK T \in SUBSET PayIds : T = {n}
    BY <1>4
  <2>3. \A p \in PayIds : G[p] \in Nat /\ G[p] \in Int /\ G[p] <= OpenOf(i)
    BY <1>0, <1>3, <1>6, <2>1, OpenType
  <2>4. F = [p \in PayIds |-> IF p \in T THEN G[p] ELSE 0]
    BY <1>2, <2>1, <2>2
  <2>5. SumOf(F, PayIds) = SumOf(G, T)
    BY <2>3, <2>4, FiniteIds, SumPart
  <2>6. SumOf(G, T) = G[n] + SumOf(G, T \ {n})
    <3>1. IsFiniteSet(T) /\ n \in T /\ \A x \in T : G[x] \in Int
      BY <2>2, <2>3, FS_Singleton
    <3>. QED BY <3>1, SumStep
  <2>7. T \ {n} = {} /\ SumOf(G, {}) = 0
    BY <2>2, SumEmpty
  <2>8. SumOf(F, PayIds) = G[n]
    <3>1. SumOf(G, T \ {n}) = 0
      BY <2>7
    <3>2. G[n] \in Int
      BY <1>4, <2>3
    <3>. QED BY <2>5, <2>6, <3>1, <3>2
  <2>. QED BY <1>4, <2>1, <2>3, <2>8
<1>9. \A i \in InvIds, p \in PayIds : share[i][p] # 0 => p <= nPay'
  BY <1>2, <1>4, <1>5
<1>10. /\ \A i \in InvIds : LedgerRow(i)'
       /\ Unbooked'
       /\ \A p \in PayIds : AppliedSum(p)' = AppliedSum(p) + SumOf([i \in InvIds |-> share[i][p]], InvIds)
  BY <1>0, <1>3, <1>5, <1>7, <1>8, <1>9, FundLedger
<1>11. \A p \in PayIds : AllocSum(p)' = AllocSum(p)
  BY <1>0, <1>3, AllocKept
<1>12. ASSUME NEW p \in LivePayments PROVE Within(p)'
  <2>1. p \in PayIds /\ p # n /\ payment'[p] = payment[p] /\ Within(p)
    BY <1>4 DEF LedgerInv
  <2>2. PICK G : G = [i \in InvIds |-> share[i][p]]
    OBVIOUS
  <2>3. \A i \in InvIds : G[i] = 0
    BY <1>2, <2>1, <2>2
  <2>4. SumOf(G, InvIds) = 0
    BY <2>3, FiniteIds, SumZero
  <2>5. AppliedSum(p) \in Nat
    BY <1>0, <2>1, SumsTyped
  <2>6. AppliedSum(p)' = AppliedSum(p)
    BY <1>10, <2>1, <2>2, <2>4, <2>5
  <2>. QED BY <1>11, <2>1, <2>6 DEF Within
<1>13. Within(n)'
  <2>1. AllocSum(n)' = 0
    BY <1>4, <1>11, AllocFree
  <2>2. \A i \in InvIds : invPay[i][n] = 0
    <3>1. n > nPay
      BY <1>1, <1>5
    <3>. QED BY <1>4, <3>1 DEF LedgerInv, Unbooked
  <2>3. AppliedSum(n) = 0
    BY <1>4, <2>2, AppliedNone
  <2>4. PICK G : G = [i \in InvIds |-> share[i][n]]
    OBVIOUS
  <2>5. \A i \in OpenInvoices : give[i] \in Int
    BY <1>6
  <2>6. PICK H : H = [i \in InvIds |-> IF i \in OpenInvoices THEN give[i] ELSE 0]
    OBVIOUS
  <2>7. G = [i \in InvIds |-> IF i \in OpenInvoices THEN H[i] ELSE 0] /\ \A i \in InvIds : H[i] \in Int
    BY <1>2, <1>4, <1>6, <2>4, <2>5, <2>6
  <2>8. SumOf(G, InvIds) = SumOf(H, OpenInvoices)
    BY <1>6, <2>7, FiniteIds, SumPart
  <2>9. IsFiniteSet(OpenInvoices) /\ DOMAIN give = OpenInvoices
    BY <1>6, FiniteIds, FS_Subset
  <2>10. SumOf(H, OpenInvoices) = SumOf(give, OpenInvoices)
    <3>1. \A i \in OpenInvoices : H[i] = give[i]
      BY <1>6, <2>6
    <3>. QED BY <2>9, <3>1, SumSame
  <2>11. SumFunction(give) = SumOf(give, OpenInvoices)
    BY <2>9, SumFunctionIs
  <2>12. SumOf(give, OpenInvoices) \in Int
    BY <2>5, <2>9, SumType
  <2>13. AppliedSum(n)' = SumFunction(give)
    BY <1>4, <1>10, <2>3, <2>4, <2>8, <2>10, <2>11, <2>12
  <2>14. SumFunction(give) \in Int
    BY <2>11, <2>12
  <2>. QED BY <1>3, <1>4, <2>1, <2>13, <2>14 DEF Within
<1>. QED BY <1>4, <1>10, <1>12, <1>13 DEF LedgerInv

\* The Guthaben: items first, invoices with what is left.
LEMMA ApplyCreditLedger ==
  ASSUME IInv, IInv', LedgerInv, NEW rank \in Injection(OwedItems, 1 .. Cardinality(OwedItems)),
         NEW take \in [OwedItems -> PayIds \cup {0}], ApplyCredit(rank, take)
  PROVE  LedgerInv'
<1>0. TypeOK /\ TypeOK'
  BY DEF IInv
<1>1. PICK left : left = [p \in LivePayments |-> Remaining(p) - Total({ it \in OwedItems : take[it] = p })]
  OBVIOUS
<1>2. PICK share : share = [i \in InvIds |-> [p \in PayIds |-> InvoiceCredit(left, i, p)]]
  OBVIOUS
<1>3. /\ Drawdown(rank, take) /\ FundInvoices(share) /\ SettleItems(take)
      /\ UNCHANGED <<nPay, payment, nInv>>
  BY <1>1, <1>2 DEF ApplyCredit
<1>4. LivePayments' = LivePayments /\ LivePayments \subseteq PayIds
  BY <1>3 DEF LivePayments
<1>5. ASSUME NEW p \in LivePayments
      PROVE  /\ Total({ it \in OwedItems : take[it] = p }) \in Nat /\ left[p] \in Nat
             /\ left[p] = payment[p].amount - AllocSum(p) - AppliedSum(p) - Total({ it \in OwedItems : take[it] = p })
             /\ AllocSum(p) \in Nat /\ AppliedSum(p) \in Nat /\ payment[p].amount \in Int
  <2>1. PICK T \in SUBSET OwedItems : T = { it \in OwedItems : take[it] = p }
    OBVIOUS
  <2>2. Total(T) \in Nat
    BY <1>0, TotalStep
  <2>3. AllocSum(p) \in Nat /\ AppliedSum(p) \in Nat /\ payment[p].amount \in Int
    BY <1>0, <1>4, SumsTyped, SettlementAssumption DEF TypeOK, Money, SettlementAssumption
  <2>4. Remaining(p) = payment[p].amount - AllocSum(p) - AppliedSum(p)
    BY <1>0, <1>4, AllocatedIs DEF Remaining
  <2>5. Remaining(p) \in Nat
    BY <2>3, <2>4 DEF LedgerInv, Within
  <2>6. Total(T) <= Remaining(p)
    <3>1. CASE T = {}
      BY <1>0, <2>2, <2>5, <3>1, TotalNothing
    <3>2. CASE T # {}
      BY <1>0, <1>3, <2>1, <3>2, DrawdownFits
    <3>. QED BY <3>1, <3>2
  <2>7. left[p] = Remaining(p) - Total(T)
    BY <1>1, <2>1
  <2>. QED BY <2>1, <2>2, <2>3, <2>4, <2>5, <2>6, <2>7
<1>6. \A p \in LivePayments : left[p] \in Nat
  BY <1>5
<1>7. \A i \in InvIds, p \in PayIds : share[i][p] = InvoiceCredit(left, i, p) /\ share[i][p] \in Nat
  BY <1>0, <1>2, <1>6, CreditNat
<1>8. share \in [InvIds -> [PayIds -> Nat]]
  BY <1>2, <1>7
<1>9. ASSUME NEW i \in InvIds PROVE SumOf(share[i], PayIds) <= OpenOf(i)
  <2>1. share[i] = [p \in PayIds |-> InvoiceCredit(left, i, p)]
    BY <1>2
  <2>2. SumOf([p \in PayIds |-> InvoiceCredit(left, i, p)], PayIds) <= OpenOf(i)
    BY <1>0, <1>6, CreditRow
  <2>. QED BY <2>1, <2>2
<1>10. \A i \in InvIds, p \in PayIds : share[i][p] # 0 => p <= nPay'
  BY <1>0, <1>3, <1>7, CreditIs DEF LivePayments
<1>11. nPay' \in Int /\ nPay' >= nPay
  BY <1>0, <1>3, SettlementAssumption DEF TypeOK, SettlementAssumption
<1>12. /\ \A i \in InvIds : LedgerRow(i)'
       /\ Unbooked'
       /\ \A p \in PayIds : AppliedSum(p)' = AppliedSum(p) + SumOf([i \in InvIds |-> share[i][p]], InvIds)
  BY <1>0, <1>3, <1>8, <1>9, <1>10, <1>11, FundLedger
<1>13. ASSUME NEW p \in LivePayments PROVE Within(p)'
  <2>1. PICK t : t = Total({ it \in OwedItems : take[it] = p })
    OBVIOUS
  <2>2. AllocSum(p)' = AllocSum(p) + t
    BY <1>0, <1>3, <1>4, <2>1, SettleGives
  <2>3. PICK G : G = [i \in InvIds |-> share[i][p]]
    OBVIOUS
  <2>4. G = [i \in InvIds |-> InvoiceCredit(left, i, p)]
    BY <1>4, <1>7, <2>3
  <2>5. SumOf([i \in InvIds |-> InvoiceCredit(left, i, p)], InvIds) <= left[p]
    BY <1>0, <1>6, CreditColumn
  <2>6. SumOf(G, InvIds) <= left[p]
    BY <2>4, <2>5
  <2>7. SumOf(G, InvIds) \in Nat
    <3>1. \A i \in InvIds : G[i] \in Nat
      BY <1>4, <1>7, <2>3
    <3>. QED BY <3>1, FiniteIds, SumType
  <2>8. AppliedSum(p)' = AppliedSum(p) + SumOf(G, InvIds)
    BY <1>4, <1>12, <2>3
  <2>9. /\ t \in Nat /\ left[p] \in Nat /\ left[p] = payment[p].amount - AllocSum(p) - AppliedSum(p) - t
        /\ AllocSum(p) \in Nat /\ AppliedSum(p) \in Nat /\ payment[p].amount \in Int
    BY <1>5, <2>1
  <2>10. payment'[p].amount = payment[p].amount
    BY <1>3
  <2>11. AllocSum(p)' + AppliedSum(p)' <= payment'[p].amount
    BY <2>2, <2>6, <2>7, <2>8, <2>9, <2>10
  <2>. QED BY <2>11 DEF Within
<1>. QED BY <1>4, <1>12, <1>13 DEF LedgerInv

\* Storno of a receipt: its column goes.
LEMMA DeletePaymentLedger ==
  ASSUME IInv, IInv', LedgerInv, NEW p \in PayIds, DeletePayment(p)
  PROVE  LedgerInv'
<1>0. TypeOK /\ TypeOK'
  BY DEF IInv
<1>1. /\ Reverse(p) /\ chargeAlloc' = ReleaseCharges(p) /\ rentAlloc' = ReleaseRent(p)
      /\ invPay' = [i \in InvIds |-> [invPay[i] EXCEPT ![p] = 0]]
      /\ invoice' = [i \in InvIds |-> [invoice[i] EXCEPT !.paid = Larger(0, invoice[i].paid - invPay[i][p])]]
      /\ UNCHANGED <<nPay, nInv>>
  BY DEF DeletePayment
<1>2. \A i \in InvIds : /\ invPay'[i][p] = 0 /\ \A q \in PayIds : invPay[i][q] \in Nat /\ (q # p => invPay'[i][q] = invPay[i][q])
  BY <1>0, <1>1 DEF TypeOK
<1>3. \A i \in InvIds : SumOf(invPay[i], PayIds) = invPay[i][p] + SumOf(invPay'[i], PayIds) /\ SumOf(invPay'[i], PayIds) \in Nat
  <2>. SUFFICES ASSUME NEW i \in InvIds PROVE SumOf(invPay[i], PayIds) = invPay[i][p] + SumOf(invPay'[i], PayIds) /\ SumOf(invPay'[i], PayIds) \in Nat
    OBVIOUS
  <2>1. PICK F, G : F = invPay[i] /\ G = invPay'[i]
    OBVIOUS
  <2>2. \A q \in PayIds : F[q] \in Nat /\ F[q] \in Int /\ G[q] \in Nat /\ G[q] \in Int /\ (q # p => G[q] = F[q])
    BY <1>2, <2>1
  <2>3. G[p] = 0
    BY <1>2, <2>1
  <2>4. SumOf(F, PayIds) = F[p] + SumOf(F, PayIds \ {p}) /\ SumOf(G, PayIds) = G[p] + SumOf(G, PayIds \ {p})
    BY <2>2, FiniteIds, SumStep
  <2>5. SumOf(F, PayIds \ {p}) = SumOf(G, PayIds \ {p})
    <3>1. IsFiniteSet(PayIds \ {p}) /\ \A q \in PayIds \ {p} : F[q] = G[q]
      BY <2>2, FiniteIds, FS_Subset
    <3>. QED BY <3>1, SumSame
  <2>6. SumOf(G, PayIds) \in Nat
    BY <2>2, FiniteIds, SumType
  <2>7. SumOf(G, PayIds \ {p}) \in Nat
    <3>1. IsFiniteSet(PayIds \ {p}) /\ \A q \in PayIds \ {p} : G[q] \in Nat
      BY <2>2, FiniteIds, FS_Subset
    <3>. QED BY <3>1, SumType
  <2>. QED BY <2>1, <2>2, <2>3, <2>4, <2>5, <2>6, <2>7
<1>4. \A i \in InvIds : /\ invoice'[i].paid = Larger(0, invoice[i].paid - invPay[i][p]) /\ invoice'[i].total = invoice[i].total
                        /\ invoice'[i].canceled = invoice[i].canceled /\ invoice'[i].cancels = invoice[i].cancels
  <2>. SUFFICES ASSUME NEW i \in InvIds
                PROVE  /\ invoice'[i].paid = Larger(0, invoice[i].paid - invPay[i][p]) /\ invoice'[i].total = invoice[i].total
                       /\ invoice'[i].canceled = invoice[i].canceled /\ invoice'[i].cancels = invoice[i].cancels
    OBVIOUS
  <2>1. invoice'[i] = [invoice[i] EXCEPT !.paid = Larger(0, invoice[i].paid - invPay[i][p])]
    BY <1>1
  <2>2. invoice[i] \in [total : (-MaxMoney) .. MaxMoney, paid : Money, canceled : BOOLEAN, cancels : InvIds \cup {0}]
    BY <1>0 DEF TypeOK
  <2>. QED BY <2>1, <2>2
<1>5. \A i \in InvIds : invoice[i].paid \in Nat /\ invoice[i].total \in Int
  BY <1>0, SettlementAssumption DEF TypeOK, Money, SettlementAssumption
<1>6. ASSUME NEW i \in InvIds PROVE LedgerRow(i)' /\ invoice'[i].paid <= invoice[i].paid /\ invoice'[i].paid \in Nat
  <2>1. LedgerRow(i)
    BY DEF LedgerInv
  <2>2. PICK a, b, c \in Nat : a = invoice[i].paid /\ b = invPay[i][p] /\ c = SumOf(invPay'[i], PayIds)
    BY <1>2, <1>3, <1>5
  <2>3. a = b + c
    BY <1>3, <2>1, <2>2 DEF LedgerRow
  <2>4. invoice'[i].paid = Larger(0, a - b)
    BY <1>4, <2>2
  <2>5. Larger(0, a - b) = c /\ c <= a
    BY <2>3 DEF Larger
  <2>6. invoice'[i].paid = SumOf(invPay'[i], PayIds) /\ invoice'[i].paid <= invoice[i].paid /\ invoice'[i].paid \in Nat
    BY <2>2, <2>4, <2>5
  <2>7. ASSUME invoice'[i].paid > 0
        PROVE  invoice'[i].paid <= invoice'[i].total /\ ~invoice'[i].canceled /\ invoice'[i].cancels = 0
    <3>1. invoice[i].paid > 0
      BY <1>5, <2>6, <2>7
    <3>2. invoice[i].paid <= invoice[i].total /\ ~invoice[i].canceled /\ invoice[i].cancels = 0
      BY <2>1, <3>1 DEF LedgerRow
    <3>. QED BY <1>4, <1>5, <2>6, <3>2
  <2>8. LedgerRow(i)'
    BY <2>6, <2>7 DEF LedgerRow
  <2>. QED BY <2>6, <2>8
<1>7. Unbooked'
  <2>1. \A i \in InvIds, q \in PayIds : q > nPay' => invPay'[i][q] = 0
    BY <1>1, <1>2 DEF LedgerInv, Unbooked
  <2>2. \A i \in InvIds : i > nInv' => invoice'[i].paid = 0
    <3>. SUFFICES ASSUME NEW i \in InvIds, i > nInv PROVE invoice'[i].paid = 0
      BY <1>1
    <3>1. invoice[i].paid = 0
      BY DEF LedgerInv, Unbooked
    <3>. QED BY <1>6, <3>1
  <2>. QED BY <2>1, <2>2 DEF Unbooked
<1>8. ASSUME NEW q \in LivePayments' PROVE Within(q)'
  <2>1. /\ q \in LivePayments /\ q # p /\ q \in PayIds /\ payment'[q] = payment[q]
        /\ \A c \in Charges : chargeAlloc'[c] = q <=> chargeAlloc[c] = q
        /\ \A v \in Vehicles : rentAlloc'[v].pay = q <=> rentAlloc[v].pay = q
        /\ \A v \in Vehicles : rentAlloc[v].pay = q => rentAlloc'[v] = rentAlloc[v]
    BY <1>0, <1>1, ReversalRest
  <2>2. AllocSum(q)' = AllocSum(q)
    BY <1>0, <2>1, AllocKept
  <2>3. AppliedSum(q)' = AppliedSum(q)
    BY <1>2, <2>1, AppliedKept
  <2>. QED BY <2>1, <2>2, <2>3 DEF LedgerInv, Within
<1>. QED BY <1>6, <1>7, <1>8 DEF LedgerInv

-----------------------------------------------------------------------------
\* An invoice is issued or cancelled: a row of nothing, a row that goes.
LEMMA InvoiceLedgerStep ==
  ASSUME IInv, IInv', LedgerInv, InvoiceNext
  PROVE  LedgerInv'
<1>0. TypeOK /\ TypeOK'
  BY DEF IInv
<1>1. UNCHANGED payVars
  BY DEF InvoiceNext, CreateInvoice, CancelInvoice
<1>2. nInv \in Int /\ nInv + 1 \in Int /\ \A i \in InvIds : i \in Int /\ invoice[i].paid \in Nat /\ invoice[i].total \in Int
  BY <1>0, SettlementAssumption DEF TypeOK, InvIds, Money, SettlementAssumption
<1>3. LivePayments' = LivePayments /\ LivePayments \subseteq PayIds
  BY <1>1 DEF LivePayments
<1>4. \A p \in LivePayments : AllocSum(p)' = AllocSum(p)
  BY <1>0, <1>1, <1>3, AllocKept
<1>5. \A i \in InvIds, p \in PayIds : invPay[i][p] \in Nat /\ invPay'[i][p] \in Nat
  BY <1>0 DEF TypeOK
<1>6. CASE CreateInvoice
  <2>1. invPay' = invPay /\ nInv' = nInv + 1 /\ invoice' = [invoice EXCEPT ![nInv + 1] = [NoInvoice EXCEPT !.total = LineTotal]]
    BY <1>6 DEF CreateInvoice
  <2>2. \A i \in InvIds : i # nInv + 1 => invoice'[i] = invoice[i]
    BY <1>0, <2>1 DEF TypeOK
  <2>3. nInv + 1 \in InvIds => invoice'[nInv + 1].paid = 0
    <3>1. nInv + 1 \in InvIds => invoice'[nInv + 1] = [NoInvoice EXCEPT !.total = LineTotal]
      BY <1>0, <2>1 DEF TypeOK
    <3>. QED BY <3>1 DEF NoInvoice
  <2>4. ASSUME NEW i \in InvIds PROVE LedgerRow(i)'
    <3>1. CASE i = nInv + 1
      <4>1. invoice[i].paid = 0 /\ invoice'[i].paid = 0
        BY <1>2, <2>3, <3>1 DEF LedgerInv, Unbooked
      <4>. QED BY <1>2, <2>1, <4>1 DEF LedgerInv, LedgerRow
    <3>2. CASE i # nInv + 1
      BY <2>1, <2>2, <3>2 DEF LedgerInv, LedgerRow
    <3>. QED BY <3>1, <3>2
  <2>5. Unbooked'
    <3>1. \A i \in InvIds, p \in PayIds : p > nPay' => invPay'[i][p] = 0
      BY <1>1, <2>1 DEF LedgerInv, Unbooked
    <3>2. \A i \in InvIds : i > nInv' => i > nInv /\ i # nInv + 1
      BY <1>2, <2>1
    <3>3. \A i \in InvIds : i > nInv' => invoice'[i].paid = 0
      BY <2>2, <3>2 DEF LedgerInv, Unbooked
    <3>. QED BY <3>1, <3>3 DEF Unbooked
  <2>6. ASSUME NEW p \in LivePayments PROVE Within(p)'
    <3>1. AppliedSum(p)' = AppliedSum(p)
      BY <1>3, <2>1, AppliedKept
    <3>. QED BY <1>1, <1>4, <3>1 DEF LedgerInv, Within
  <2>. QED BY <1>3, <2>4, <2>5, <2>6 DEF LedgerInv
<1>7. ASSUME NEW i \in InvIds, CancelInvoice(i) PROVE LedgerInv'
  <2>1. PICK n : n = nInv + 1
    OBVIOUS
  <2>2. /\ nInv' = n /\ i <= nInv /\ nInv < MaxInvoices
        /\ invPay' = [invPay EXCEPT ![i] = [p \in PayIds |-> 0]]
        /\ invoice' = [invoice EXCEPT ![i].canceled = TRUE, ![i].paid = 0,
                                      ![n] = [NoInvoice EXCEPT !.total = -invoice[i].total, !.cancels = i]]
    BY <1>7, <2>1 DEF CancelInvoice
  <2>3. n \in InvIds /\ i # n
    BY <1>0, <1>2, <2>1, <2>2, SettlementAssumption DEF TypeOK, InvIds, SettlementAssumption
  <2>4. \A j \in InvIds : j # i /\ j # n => invoice'[j] = invoice[j] /\ invPay'[j] = invPay[j]
    BY <1>0, <2>2 DEF TypeOK
  <2>5. invPay'[n] = invPay[n] /\ \A p \in PayIds : invPay'[i][p] = 0
    BY <1>0, <2>2, <2>3 DEF TypeOK
  <2>6. invoice'[n].paid = 0
    <3>1. invoice'[n] = [NoInvoice EXCEPT !.total = -invoice[i].total, !.cancels = i]
      BY <1>0, <2>2, <2>3 DEF TypeOK
    <3>. QED BY <3>1 DEF NoInvoice
  <2>7. invoice'[i].paid = 0
    <3>1. invoice[i] \in [total : (-MaxMoney) .. MaxMoney, paid : Money, canceled : BOOLEAN, cancels : InvIds \cup {0}]
      BY <1>0 DEF TypeOK
    <3>2. invoice'[i] = [[invoice[i] EXCEPT !.canceled = TRUE] EXCEPT !.paid = 0]
      BY <1>0, <2>2, <2>3 DEF TypeOK
    <3>. QED BY <3>1, <3>2
  <2>8. ASSUME NEW j \in InvIds PROVE LedgerRow(j)'
    <3>1. CASE j = i
      <4>1. PICK F : F = invPay'[i]
        OBVIOUS
      <4>2. SumOf(F, PayIds) = 0
        BY <2>5, <4>1, FiniteIds, SumZero
      <4>. QED BY <2>7, <3>1, <4>1, <4>2 DEF LedgerRow
    <3>2. CASE j = n
      <4>1. invoice[n].paid = 0
        BY <1>2, <2>1, <2>3 DEF LedgerInv, Unbooked
      <4>. QED BY <2>5, <2>6, <3>2, <4>1 DEF LedgerInv, LedgerRow
    <3>3. CASE j # i /\ j # n
      BY <2>4, <3>3 DEF LedgerInv, LedgerRow
    <3>. QED BY <3>1, <3>2, <3>3
  <2>9. Unbooked'
    <3>1. \A j \in InvIds, p \in PayIds : p > nPay' => invPay'[j][p] = 0
      <4>. SUFFICES ASSUME NEW j \in InvIds, NEW p \in PayIds, p > nPay PROVE invPay'[j][p] = 0
        BY <1>1
      <4>1. invPay[j][p] = 0
        BY DEF LedgerInv, Unbooked
      <4>2. j = i \/ invPay'[j] = invPay[j]
        BY <2>4, <2>5
      <4>. QED BY <2>5, <4>1, <4>2
    <3>2. \A j \in InvIds : j > nInv' => j > nInv /\ j # n /\ j # i
      BY <1>2, <2>1, <2>2
    <3>3. \A j \in InvIds : j > nInv' => invoice'[j].paid = 0
      BY <2>4, <3>2 DEF LedgerInv, Unbooked
    <3>. QED BY <3>1, <3>3 DEF Unbooked
  <2>10. ASSUME NEW p \in LivePayments PROVE Within(p)'
    <3>0. p \in PayIds
      BY <1>3
    <3>1. PICK F, G : F = OfInvoices(p) /\ G = [j \in InvIds |-> invPay'[j][p]]
      OBVIOUS
    <3>2. \A j \in InvIds : G[j] \in Int /\ F[j] \in Int /\ G[j] <= F[j]
      <4>. SUFFICES ASSUME NEW j \in InvIds PROVE G[j] \in Int /\ F[j] \in Int /\ G[j] <= F[j]
        OBVIOUS
      <4>1. G[j] = invPay'[j][p] /\ F[j] = invPay[j][p]
        BY <3>1 DEF OfInvoices
      <4>2. j = i \/ invPay'[j] = invPay[j]
        BY <2>4, <2>5
      <4>. QED BY <1>5, <2>5, <3>0, <4>1, <4>2
    <3>3. SumOf(G, InvIds) <= SumOf(F, InvIds)
      BY <3>2, FiniteIds, SumLess
    <3>4. AppliedSum(p) = SumOf(F, InvIds) /\ AppliedSum(p)' = SumOf(G, InvIds)
      BY <3>1 DEF AppliedSum, OfInvoices
    <3>5. SumOf(F, InvIds) \in Int /\ SumOf(G, InvIds) \in Int
      BY <3>2, FiniteIds, SumType
    <3>6. AllocSum(p) \in Nat /\ payment[p].amount \in Int
      BY <1>0, <3>0, SumsTyped, SettlementAssumption DEF TypeOK, Money, SettlementAssumption
    <3>7. payment'[p].amount = payment[p].amount /\ AllocSum(p)' = AllocSum(p)
      BY <1>1, <1>4
    <3>8. AllocSum(p) + SumOf(F, InvIds) <= payment[p].amount
      BY <3>4 DEF LedgerInv, Within
    <3>9. AllocSum(p) + SumOf(G, InvIds) <= payment[p].amount
      BY <3>3, <3>5, <3>6, <3>8
    <3>. QED BY <3>4, <3>7, <3>9 DEF Within
  <2>. QED BY <1>3, <2>8, <2>9, <2>10 DEF LedgerInv
<1>. QED BY <1>6, <1>7 DEF InvoiceNext

\* The inductive invariant of the ledger at the start.
LEMMA LedgerStart == Init => LedgerInv
<1>. SUFFICES ASSUME Init PROVE LedgerInv
  OBVIOUS
<1>0. TypeOK
  BY InitType
<1>1. LivePayments = {}
  BY DEF Init, LivePayments, PayIds
<1>2. \A i \in InvIds : invoice[i].paid = 0 /\ \A p \in PayIds : invPay[i][p] = 0
  BY DEF Init, NoInvoice
<1>3. ASSUME NEW i \in InvIds PROVE LedgerRow(i)
  <2>1. PICK F : F = invPay[i]
    OBVIOUS
  <2>2. SumOf(F, PayIds) = 0
    BY <1>2, <2>1, FiniteIds, SumZero
  <2>. QED BY <1>2, <2>1, <2>2 DEF LedgerRow
<1>. QED BY <1>1, <1>2, <1>3 DEF LedgerInv, Unbooked

\* It is kept by every step.
LEMMA LedgerStep ==
  ASSUME IInv, IInv', FlagInv, FlagInv', LedgerInv, [Next]_vars
  PROVE  LedgerInv'
<1>1. CASE ClockNext \/ FollowNext \/ UNCHANGED vars
  <2>1. UNCHANGED <<payVars, invPay, invoice, nInv>>
    BY <1>1 DEF ClockNext, NextDay, LockTaxYear, UnlockTaxYear, FollowNext, SweepArchive, LoseFollowUps, AutoArchive, vars
  <2>. QED BY <2>1, LedgerStill
<1>2. CASE PaymentNext
  BY <1>2, CreatePaymentLedger, PayInvoicesLedger, ApplyCreditLedger, DeletePaymentLedger DEF PaymentNext
<1>. QED BY <1>1, <1>2, SliderLedger, InvoiceLedgerStep DEF Next

\* All three invariants together hold for ever.
LEMMA LedgerHolds == Spec => [](IInv /\ FlagInv /\ LedgerInv)
<1>1. Spec => [](IInv /\ FlagInv)
  BY Inductive, FlagStart, FlagStep, PTL DEF Spec
<1>. QED BY <1>1, LedgerStart, LedgerStep, PTL DEF Spec

\* No receipt gives more than it brought in: positions and invoices together,
\* under sliders, receipts, the Guthaben walk and every Storno.
THEOREM ReceiptsStayWithin == Spec => []NoOverAllocation
<1>1. IInv /\ LedgerInv => NoOverAllocation
  <2>. SUFFICES ASSUME IInv, LedgerInv, NEW p \in LivePayments PROVE AllocatedTo(p) + AppliedTo(p) <= payment[p].amount
    BY DEF NoOverAllocation
  <2>1. TypeOK /\ p \in PayIds
    BY DEF IInv, LivePayments
  <2>2. AllocatedTo(p) = AllocSum(p) /\ AppliedTo(p) = AppliedSum(p)
    BY <2>1, AllocatedIs
  <2>3. Within(p)
    BY DEF LedgerInv
  <2>. QED BY <2>2, <2>3 DEF Within
<1>. QED BY <1>1, LedgerHolds, PTL

\* invoices.paid_amount is the sum of the payments on record, and only an
\* invoice in force reads paid, up to its total.
THEOREM PaidAmountIsTrue == Spec => []InvoiceLedger
<1>1. IInv /\ LedgerInv => InvoiceLedger
  <2>. SUFFICES ASSUME IInv, LedgerInv, NEW i \in InvIds
                PROVE  /\ invoice[i].paid = SumFunction(invPay[i])
                       /\ invoice[i].paid > 0 => /\ invoice[i].paid <= invoice[i].total
                                                 /\ ~invoice[i].canceled /\ invoice[i].cancels = 0
    BY DEF InvoiceLedger
  <2>1. SumFunction(invPay[i]) = SumOf(invPay[i], PayIds)
    BY LedgerRowIs DEF IInv
  <2>. QED BY <2>1 DEF LedgerInv, LedgerRow
<1>. QED BY <1>1, LedgerHolds, PTL

=============================================================================
